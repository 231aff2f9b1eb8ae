------------------------- MODULE CorinthEventProofs -------------------------
(* Theorems about the Corinth event for every set of players and every       *)
(* interleaving of their requests: nobody is in two matches that are still   *)
(* to be decided, and a match that has been decided stays so.  And, where    *)
(* requests are served in turn: a run is recorded and rewarded once, within  *)
(* its limits, and a discarded match is not counted.                         *)
EXTENDS CorinthEvent, FiniteSetTheorems, SequenceTheorems, TLAPS

--------------------------------------------------------------------------
\* The lists of statements.

IsList(L) == L \in Seq({L[i] : i \in DOMAIN L})

\* M is S before what is left of L without its first statement.
Spliced(M, S, L) ==
  /\ IsList(M) /\ IsList(S) /\ IsList(L)
  /\ L = <<>> => Len(M) = Len(S)
  /\ L # <<>> => Len(M) = Len(S) + Len(L) - 1
  /\ \A i \in 1..Len(S) : M[i] = S[i]
  /\ \A j \in 2..Len(L) : M[Len(S) + j - 1] = L[j]

\* What a list is, of whatever statements: its indices and its length.
LEMMA ListFacts ==
  ASSUME NEW L, IsList(L)
  PROVE  Len(L) \in Nat /\ DOMAIN L = 1..Len(L) /\ (L = <<>> <=> Len(L) = 0)
<1>1. L \in Seq({L[i] : i \in DOMAIN L})
  BY DEF IsList
<1> QED
  BY <1>1, LenProperties, EmptySeq

\* A sequence over any set is a list.
LEMMA SeqIsList ==
  ASSUME NEW S, NEW L \in Seq(S)
  PROVE  IsList(L)
<1>1. DOMAIN L = 1..Len(L) /\ Len(L) \in Nat /\ L \in [1..Len(L) -> S]
  BY LenProperties
<1>2. L \in [1..Len(L) -> {L[i] : i \in DOMAIN L}]
  BY <1>1
<1>3. {L[i] : i \in DOMAIN L} = Range(L)
  BY DEF Range
<1> QED
  BY <1>3, SeqOfRange DEF IsList

\* The lists the handlers write down.
LEMMA ShortLists ==
  /\ IsList(<<>>) /\ Len(<<>>) = 0
  /\ \A a : IsList(<<a>>) /\ Len(<<a>>) = 1 /\ <<a>>[1] = a
  /\ \A a, b : IsList(<<a, b>>) /\ Len(<<a, b>>) = 2 /\ <<a, b>>[1] = a /\ <<a, b>>[2] = b
  /\ \A a, b, c : /\ IsList(<<a, b, c>>) /\ Len(<<a, b, c>>) = 3
                  /\ <<a, b, c>>[1] = a /\ <<a, b, c>>[2] = b /\ <<a, b, c>>[3] = c
<1>0. <<>> \in Seq({})
  OBVIOUS
<1>1. ASSUME NEW a PROVE <<a>> \in Seq({a})
  OBVIOUS
<1>2. ASSUME NEW a, NEW b PROVE <<a, b>> \in Seq({a, b})
  OBVIOUS
<1>3. ASSUME NEW a, NEW b, NEW c PROVE <<a, b, c>> \in Seq({a, b, c})
  OBVIOUS
<1> QED
  BY <1>0, <1>1, <1>2, <1>3, SeqIsList

LEMMA ListConcat ==
  ASSUME NEW A, NEW B, IsList(A), IsList(B)
  PROVE  /\ IsList(A \o B) /\ Len(A \o B) = Len(A) + Len(B)
         /\ \A i \in 1..Len(A) : (A \o B)[i] = A[i]
         /\ \A i \in 1..Len(B) : (A \o B)[Len(A) + i] = B[i]
<1> DEFINE S == {A[i] : i \in DOMAIN A} \cup {B[i] : i \in DOMAIN B}
<1>1. A \in Seq(S) /\ B \in Seq(S)
  BY SeqMonotonic DEF IsList
<1>2. A \o B \in Seq(S) /\ Len(A \o B) = Len(A) + Len(B)
      /\ \A i \in 1 .. Len(A) + Len(B) :
           (A \o B)[i] = IF i <= Len(A) THEN A[i] ELSE B[i - Len(A)]
  BY <1>1, ConcatProperties
<1>3. Len(A) \in Nat /\ Len(B) \in Nat
  BY ListFacts
<1> HIDE DEF S
<1>4. IsList(A \o B)
  BY <1>2, SeqIsList
<1>5. ASSUME NEW i \in 1..Len(A) PROVE (A \o B)[i] = A[i]
  BY <1>2, <1>3
<1>6. ASSUME NEW i \in 1..Len(B) PROVE (A \o B)[Len(A) + i] = B[i]
  <2>1. Len(A) + i \in 1 .. Len(A) + Len(B) /\ ~(Len(A) + i <= Len(A))
        /\ Len(A) + i - Len(A) = i
    BY <1>3
  <2> QED
    BY <1>2, <2>1
<1> QED
  BY <1>2, <1>4, <1>5, <1>6

\* What a thread's step does to its list.
LEMMA Splice ==
  ASSUME NEW L, IsList(L), L # <<>>, NEW S, IsList(S)
  PROVE  Spliced(S \o Tail(L), S, L)
<1> DEFINE X == {L[i] : i \in DOMAIN L}
<1>1. L \in Seq(X)
  BY DEF IsList
<1>2. /\ Tail(L) \in Seq(X) /\ Len(Tail(L)) = Len(L) - 1
      /\ \A i \in 1 .. Len(Tail(L)) : Tail(L)[i] = L[i + 1]
  BY <1>1, HeadTailProperties
<1> HIDE DEF X
<1>3. IsList(Tail(L)) /\ Len(L) \in Nat \ {0} /\ Len(S) \in Nat
  <2>1. IsList(Tail(L))
    BY <1>2, SeqIsList
  <2>2. Len(L) \in Nat /\ Len(L) # 0
    BY ListFacts
  <2>3. Len(S) \in Nat
    BY ListFacts
  <2> QED
    BY <2>1, <2>2, <2>3
<1>4. /\ IsList(S \o Tail(L)) /\ Len(S \o Tail(L)) = Len(S) + Len(Tail(L))
      /\ \A i \in 1..Len(S) : (S \o Tail(L))[i] = S[i]
      /\ \A i \in 1..Len(Tail(L)) : (S \o Tail(L))[Len(S) + i] = Tail(L)[i]
  BY <1>3, ListConcat
<1>5. ASSUME NEW j \in 2..Len(L) PROVE (S \o Tail(L))[Len(S) + j - 1] = L[j]
  <2>1. j - 1 \in 1..Len(Tail(L)) /\ (j - 1) + 1 = j /\ Len(S) + (j - 1) = Len(S) + j - 1
    BY <1>2, <1>3
  <2>2. (S \o Tail(L))[Len(S) + (j - 1)] = Tail(L)[j - 1] /\ Tail(L)[j - 1] = L[(j - 1) + 1]
    BY <2>1, <1>4, <1>2
  <2> QED
    BY <2>1, <2>2
<1> QED
  BY <1>2, <1>3, <1>4, <1>5 DEF Spliced

\* A request begins its list when the thread has none.
LEMMA SpliceNew ==
  ASSUME NEW S, IsList(S)
  PROVE  Spliced(S, S, <<>>)
BY ShortLists, ListFacts DEF Spliced

\* Where a statement of the new list comes from.
LEMMA SplicedFrom ==
  ASSUME NEW M, NEW S, NEW L, Spliced(M, S, L), NEW i \in DOMAIN M
  PROVE  \/ i \in 1..Len(S) /\ M[i] = S[i]
         \/ \E j \in DOMAIN L : j \in 2..Len(L) /\ i = Len(S) + j - 1 /\ M[i] = L[j]
<1>1. /\ Len(M) \in Nat /\ DOMAIN M = 1..Len(M) /\ Len(S) \in Nat
      /\ Len(L) \in Nat /\ DOMAIN L = 1..Len(L) /\ (L = <<>> <=> Len(L) = 0)
  BY ListFacts DEF Spliced
<1>2. CASE i \in 1..Len(S)
  BY <1>2 DEF Spliced
<1>3. CASE i \notin 1..Len(S)
  <2> DEFINE j == i - Len(S) + 1
  <2>1. j \in 2..Len(L) /\ i = Len(S) + j - 1
    BY <1>1, <1>3 DEF Spliced
  <2> QED
    BY <2>1, <1>1 DEF Spliced
<1> QED
  BY <1>2, <1>3

--------------------------------------------------------------------------
\* The invariant.

Matching == {"search", "queue", "pair", "elect", "game", "unlock"}
Strict == {"elect", "game", "insert", "result", "complete", "endgame"}
Dooming == {"insert", "result", "complete"}

Ends(L, g) == \E j \in DOMAIN L : L[j].op = "ended" /\ L[j].game = g

\* Some statements have their place in a list.
Placed(L, i) ==
  /\ L[i].op \in {"elect", "game"} => i + 1 \in DOMAIN L /\ L[i + 1].op = "unlock"
  /\ L[i].op \in {"insert", "complete", "endgame"} => i = 1
  /\ L[i].op = "insert" =>
       /\ 2 \in DOMAIN L
       /\ \/ L[2].op = "unlock"
          \/ L[2].op = "result" /\ L[2].game = L[1].game /\ Ends(L, L[1].game)
  /\ L[i].op = "result" => i = 1 \/ (i = 2 /\ L[1].op = "insert")
  /\ L[i].op = "endgame" => Len(L) = 1
  /\ \A j \in DOMAIN L : L[j].op = "ended" =>
       L[i].op # "forfeit" /\ (L[i].op = "result" => L[j].game = L[i].game)

\* Matching is for clients; one thread holds the matcher's lock, and one a game's.
EndsAlone(th, i) ==
  todo[th][i].op = "ended" =>
    /\ todo[th][i].game \in ending
    /\ \A t \in Threads : \A j \in DOMAIN todo[t] :
         todo[t][j].op = "ended" /\ todo[t][j].game = todo[th][i].game => t = th /\ j = i
Holds(th, i) ==
  LET L == todo[th]
  IN  /\ L[i].op \in Matching => th \in Players
      /\ L[i].op = "unlock" => matcher = th /\ \A j \in DOMAIN L : L[j].op = "unlock" => j = i
      /\ EndsAlone(th, i)

WhoOps == {"join", "register", "seed", "revive", "unpool", "fill", "async", "search",
           "cancel", "drop", "signup", "status", "queue", "limit", "return", "final",
           "record", "unlive", "mail", "overdue", "forfeit"}
Fits(s) ==
  /\ s.op \in WhoOps => s.who \in Players
  /\ s.op = "async" => s.ready \in BOOLEAN /\ s.searching \in BOOLEAN
  /\ s.op = "status" => s.status \in {"active", "withdrew"}
  /\ s.op = "slots" => s.to \subseteq Players
  /\ s.op = "game" => s.pair \in Players \X Players
  /\ s.op = "elect" => s.list \in Seq(Players) /\ s.fit \in Seq(Players)
  /\ s.op \in {"result", "complete"} => s.winner \in Players
  /\ s.op = "result" => s.pair \in Players \X Players
  /\ s.op \in {"result", "forfeit"} => s.quitter \in Players \cup {NoOne}
  /\ s.op = "final" => s.as \in {"completed", "quit"}
  /\ s.op = "record" => s.run \in Run
  /\ s.op = "mail" => s.final \in Nat
Points(s) == s.op \in {"endgame", "insert"} => s.game \in DOMAIN games

GameType == [pair : Players \X Players, state : {"playing", "ended", "gone"}]
Row == [id : Nat, game : Nat, pair : Players \X Players, done : BOOLEAN,
        winner : Players \cup {NoOne}, live : SUBSET Players]

Shape == /\ todo = [th \in Threads |-> todo[th]]
         /\ \A th \in Threads : IsList(todo[th])
Places == \A th \in Threads : \A i \in DOMAIN todo[th] : Placed(todo[th], i)
Contents == \A th \in Threads : \A i \in DOMAIN todo[th] :
              Fits(todo[th][i]) /\ Points(todo[th][i])
Locks == \A th \in Threads : \A i \in DOMAIN todo[th] : Holds(th, i)

\* A game has one row, which names its players.
RowsOK ==
  /\ games \in Seq(GameType) /\ nextId \in Nat
  /\ \A r \in rows : /\ r \in Row /\ r.id < nextId
                     /\ r.game \in DOMAIN games /\ r.pair = games[r.game].pair
  /\ \A r, s \in rows : r.id = s.id \/ r.game = s.game => r = s

\* A thread that ends the game is about to complete its row.
Doomed(g, id) ==
  \E th \in Threads : LET L == todo[th]
                      IN  /\ Ends(L, g)
                          /\ \/ L[1].op = "insert" /\ L[2].op = "result"
                             \/ L[1].op = "result"
                             \/ L[1].op = "complete" /\ L[1].id = id
\* A restart would save a row that was doomed: nothing is promised then.
BattlesEnd == Kinds \cap {"timeout", "concede"} # {}
Undisturbed == MaxRestarts = 0 \/ ~BattlesEnd
Undecided == {g \in DOMAIN games :
                Undisturbed /\ \E r \in rows : r.game = g /\ ~r.done /\ ~Doomed(g, r.id)}
Pair(g) == Range(games[g].pair)
Free(p) == \A g \in Undecided : p \notin Pair(g)

\* Who is elected, or about to be paired, has no match to play.
Promised(L, i) ==
  /\ L[i].op = "elect" => \A p \in Range(L[i].list) \cup Range(L[i].fit) : Free(p)
  /\ L[i].op = "game" => \A p \in Range(L[i].pair) : Free(p)
  /\ L[i].op = "insert" /\ L[2].op = "unlock" => \A p \in Pair(L[i].game) : Free(p)
Elected == \A th \in Threads : \A i \in DOMAIN todo[th] : Promised(todo[th], i)

Disjoint == \A g, h \in Undecided : Pair(g) \cap Pair(h) # {} => g = h

\* Only the clients' threads and the watchdog bring a battle to its end.
MayEnd(th) == BattlesEnd /\ th # "scheduler"
Battles == \A th \in Threads : \A i \in DOMAIN todo[th] :
             todo[th][i].op \in {"endgame", "ended"} => MayEnd(th)

\* Where nobody forfeits, a result is recorded by the thread that ends the
\* game, and the row it is about to complete is open and that game's.
NoForfeits == Kinds \cap {"leave", "sweep"} = {}
Sound(L, s) ==
  /\ s.op # "forfeit"
  /\ s.op = "result" => Ends(L, s.game)
  /\ s.op = "complete" =>
       /\ s.id \in Nat /\ s.id < nextId
       /\ \E j \in DOMAIN L : /\ L[j].op = "ended"
                             /\ \A r \in rows : r.id = s.id => ~r.done /\ r.game = L[j].game
Decided == NoForfeits => \A th \in Threads : \A i \in DOMAIN todo[th] :
                           Sound(todo[th], todo[th][i])

Typed == Shape /\ Contents /\ RowsOK /\ slots \subseteq Players
IInv == Typed /\ Places /\ Locks /\ Elected /\ Disjoint /\ Battles /\ Decided

--------------------------------------------------------------------------
\* Lists with no statement that has a place of its own.

Easy(s, th) == /\ Fits(s)
               /\ s.op \notin Strict \cup {"ended", "unlock"}
               /\ s.op \in Matching => th \in Players
EasyList(S, th) == IsList(S) /\ \A i \in DOMAIN S : Easy(S[i], th)
Mild(S) == \A i \in DOMAIN S : S[i].op # "forfeit"

LEMMA EasyLists ==
  ASSUME NEW th
  PROVE  /\ EasyList(<<>>, th)
         /\ \A a : Easy(a, th) => EasyList(<<a>>, th)
         /\ \A a, b : Easy(a, th) /\ Easy(b, th) => EasyList(<<a, b>>, th)
         /\ \A a, b, c : Easy(a, th) /\ Easy(b, th) /\ Easy(c, th) => EasyList(<<a, b, c>>, th)
<1>1. EasyList(<<>>, th)
  BY ShortLists, ListFacts DEF EasyList
<1>2. ASSUME NEW a, Easy(a, th) PROVE EasyList(<<a>>, th)
  <2>1. IsList(<<a>>) /\ DOMAIN <<a>> = 1..1 /\ <<a>>[1] = a
    BY ShortLists, ListFacts
  <2> QED
    BY <1>2, <2>1 DEF EasyList
<1>3. ASSUME NEW a, NEW b, Easy(a, th), Easy(b, th) PROVE EasyList(<<a, b>>, th)
  <2>1. IsList(<<a, b>>) /\ DOMAIN <<a, b>> = 1..2 /\ <<a, b>>[1] = a /\ <<a, b>>[2] = b
    BY ShortLists, ListFacts
  <2> HIDE DEF Easy
  <2>2. ASSUME NEW i \in 1..2 PROVE i = 1 \/ i = 2
    OBVIOUS
  <2> QED
    BY <1>3, <2>1, <2>2 DEF EasyList
<1>4. ASSUME NEW a, NEW b, NEW c, Easy(a, th), Easy(b, th), Easy(c, th)
      PROVE  EasyList(<<a, b, c>>, th)
  <2>1. /\ IsList(<<a, b, c>>) /\ DOMAIN <<a, b, c>> = 1..3
        /\ <<a, b, c>>[1] = a /\ <<a, b, c>>[2] = b /\ <<a, b, c>>[3] = c
    BY ShortLists, ListFacts
  <2>2. ASSUME NEW i \in 1..3 PROVE i = 1 \/ i = 2 \/ i = 3
    OBVIOUS
  <2> QED
    BY <1>4, <2>1, <2>2 DEF EasyList
<1> QED
  BY <1>1, <1>2, <1>3, <1>4

LEMMA EasyConcat ==
  ASSUME NEW th, NEW A, NEW B, EasyList(A, th), EasyList(B, th)
  PROVE  EasyList(A \o B, th) /\ (Mild(A) /\ Mild(B) => Mild(A \o B))
<1>1. /\ IsList(A \o B) /\ Len(A \o B) = Len(A) + Len(B)
      /\ \A i \in 1..Len(A) : (A \o B)[i] = A[i]
      /\ \A i \in 1..Len(B) : (A \o B)[Len(A) + i] = B[i]
  BY ListConcat DEF EasyList
<1>2. /\ DOMAIN (A \o B) = 1..Len(A \o B) /\ DOMAIN A = 1..Len(A) /\ DOMAIN B = 1..Len(B)
      /\ Len(A) \in Nat /\ Len(B) \in Nat
  BY <1>1, ListFacts DEF EasyList
<1>3. ASSUME NEW i \in DOMAIN (A \o B)
      PROVE  \/ i \in DOMAIN A /\ (A \o B)[i] = A[i]
             \/ \E j \in DOMAIN B : (A \o B)[i] = B[j]
  <2>1. CASE i \in 1..Len(A)
    BY <2>1, <1>1, <1>2
  <2>2. CASE i \notin 1..Len(A)
    <3>1. i - Len(A) \in 1..Len(B) /\ Len(A) + (i - Len(A)) = i
      BY <2>2, <1>1, <1>2
    <3> QED
      BY <3>1, <1>1, <1>2
  <2> QED
    BY <2>1, <2>2
<1>4. ASSUME NEW i \in DOMAIN (A \o B) PROVE Easy((A \o B)[i], th)
  BY <1>3 DEF EasyList
<1>5. Mild(A) /\ Mild(B) => Mild(A \o B)
  BY <1>3 DEF Mild
<1> QED
  BY <1>1, <1>4, <1>5 DEF EasyList

\* The two longest lists.
LEMMA EasyFour ==
  ASSUME NEW th, NEW a, NEW b, NEW c, NEW d,
         Easy(a, th), Easy(b, th), Easy(c, th), Easy(d, th),
         "forfeit" \notin {a.op, b.op, c.op, d.op}
  PROVE  EasyList(<<a, b, c, d>>, th) /\ Mild(<<a, b, c, d>>)
<1> DEFINE T == <<a, b, c, d>>
<1>1. T \in Seq({a, b, c, d}) /\ Len(T) = 4
      /\ T[1] = a /\ T[2] = b /\ T[3] = c /\ T[4] = d
  OBVIOUS
<1> HIDE DEF T
<1>2. IsList(T) /\ DOMAIN T = 1..4
  BY <1>1, SeqIsList, ListFacts
<1>3. ASSUME NEW i \in DOMAIN T PROVE T[i] \in {a, b, c, d}
  BY <1>1, <1>2
<1>4. EasyList(T, th) /\ Mild(T)
  BY <1>2, <1>3 DEF EasyList, Mild
<1> QED
  BY <1>4 DEF T

LEMMA EasyFive ==
  ASSUME NEW th, NEW a, NEW b, NEW c, NEW d, NEW e,
         Easy(a, th), Easy(b, th), Easy(c, th), Easy(d, th), Easy(e, th),
         "forfeit" \notin {a.op, b.op, c.op, d.op, e.op}
  PROVE  EasyList(<<a, b, c, d, e>>, th) /\ Mild(<<a, b, c, d, e>>)
<1> DEFINE T == <<a, b, c, d, e>>
<1>1. T \in Seq({a, b, c, d, e}) /\ Len(T) = 5
      /\ T[1] = a /\ T[2] = b /\ T[3] = c /\ T[4] = d /\ T[5] = e
  OBVIOUS
<1> HIDE DEF T
<1>2. IsList(T) /\ DOMAIN T = 1..5
  BY <1>1, SeqIsList, ListFacts
<1>3. ASSUME NEW i \in DOMAIN T PROVE T[i] \in {a, b, c, d, e}
  BY <1>1, <1>2
<1>4. EasyList(T, th) /\ Mild(T)
  BY <1>2, <1>3 DEF EasyList, Mild
<1> QED
  BY <1>4 DEF T

--------------------------------------------------------------------------
\* A step that adds such a list keeps each part of the invariant.

LEMMA ShapeStep ==
  ASSUME Shape, NEW th \in Threads, NEW M, NEW S, NEW L, Spliced(M, S, L),
         todo' = [todo EXCEPT ![th] = M]
  PROVE  Shape' /\ todo'[th] = M /\ \A t \in Threads \ {th} : todo'[t] = todo[t]
<1>1. todo'[th] = M /\ \A t \in Threads \ {th} : todo'[t] = todo[t]
  BY DEF Shape
<1>2. todo' = [t \in Threads |-> todo'[t]]
  BY DEF Shape
<1>3. ASSUME NEW t \in Threads PROVE IsList(todo'[t])
  BY <1>1 DEF Shape, Spliced
<1> QED
  BY <1>1, <1>2, <1>3 DEF Shape

\* What follows the statement that runs keeps its place.
LEMMA PlacedTail ==
  ASSUME NEW M, NEW S, NEW L, Spliced(M, S, L), \A i \in DOMAIN L : Placed(L, i),
         L = <<>> \/ L[1].op # "insert", \A i \in DOMAIN S : S[i].op # "ended",
         NEW i \in DOMAIN M, i \notin 1..Len(S)
  PROVE  Placed(M, i)
<1>0. /\ Len(M) \in Nat /\ DOMAIN M = 1..Len(M) /\ Len(S) \in Nat /\ DOMAIN S = 1..Len(S)
      /\ Len(L) \in Nat /\ DOMAIN L = 1..Len(L) /\ (L = <<>> <=> Len(L) = 0)
  BY ListFacts DEF Spliced
<1>1. PICK j \in DOMAIN L : j \in 2..Len(L) /\ i = Len(S) + j - 1 /\ M[i] = L[j]
  BY SplicedFrom
<1>2. Placed(L, j) /\ j # 1 /\ L # <<>> /\ L[1].op # "insert"
  BY <1>0, <1>1
<1>3. M[i].op \notin {"insert", "complete", "endgame", "result"}
  BY <1>1, <1>2 DEF Placed
<1>4. ASSUME M[i].op \in {"elect", "game"}
      PROVE  i + 1 \in DOMAIN M /\ M[i + 1].op = "unlock"
  <2>1. j + 1 \in 2..Len(L) /\ L[j + 1].op = "unlock"
    BY <1>0, <1>1, <1>2, <1>4 DEF Placed
  <2>2. M[Len(S) + (j + 1) - 1] = L[j + 1]
    <3>1. \A k \in 2..Len(L) : M[Len(S) + k - 1] = L[k]
      BY DEF Spliced
    <3> QED
      BY <2>1, <3>1
  <2>3. Len(S) + (j + 1) - 1 = i + 1
    BY <1>0, <1>1
  <2>4. Len(M) = Len(S) + Len(L) - 1
    BY <1>2 DEF Spliced
  <2>5. i + 1 \in DOMAIN M
    BY <2>1, <2>4, <1>0, <1>1
  <2> QED
    BY <2>1, <2>2, <2>3, <2>5
<1>5. ASSUME NEW k \in DOMAIN M, M[k].op = "ended" PROVE M[i].op # "forfeit"
  <2>0. \/ k \in 1..Len(S) /\ M[k] = S[k]
        \/ \E m \in DOMAIN L : M[k] = L[m]
    BY SplicedFrom
  <2>1. PICK m \in DOMAIN L : M[k] = L[m]
    BY <1>0, <1>5, <2>0
  <2> QED
    BY <2>1, <1>1, <1>2, <1>5 DEF Placed
<1> QED
  BY <1>3, <1>4, <1>5 DEF Placed

LEMMA PlacedEasy ==
  ASSUME NEW M, NEW S, NEW L, NEW th, Spliced(M, S, L), EasyList(S, th),
         \A i \in DOMAIN L : Placed(L, i),
         L = <<>> \/ (L[1].op # "insert" /\ Mild(S))
  PROVE  \A i \in DOMAIN M : Placed(M, i)
<1>0. /\ DOMAIN M = 1..Len(M) /\ DOMAIN S = 1..Len(S) /\ DOMAIN L = 1..Len(L)
      /\ (L = <<>> <=> Len(L) = 0)
  BY ListFacts DEF Spliced
<1>1. \A i \in DOMAIN S : S[i].op \notin Strict \cup {"ended", "unlock"}
  BY DEF EasyList, Easy
<1>2. ASSUME NEW i \in DOMAIN M, i \in 1..Len(S) PROVE Placed(M, i)
  <2>1. M[i] = S[i] /\ i \in DOMAIN S
    BY <1>0, <1>2 DEF Spliced
  <2>2. ASSUME NEW j \in DOMAIN M, M[j].op = "ended" PROVE M[i].op # "forfeit"
    <3>1. \/ j \in 1..Len(S) /\ M[j] = S[j]
          \/ \E k \in DOMAIN L : M[j] = L[k]
      BY SplicedFrom
    <3>2. L # <<>>
      BY <1>0, <1>1, <2>2, <3>1
    <3> QED
      BY <3>2, <2>1 DEF Mild
  <2> QED
    BY <1>1, <2>1, <2>2 DEF Placed, Strict
<1>3. ASSUME NEW i \in DOMAIN M, i \notin 1..Len(S) PROVE Placed(M, i)
  <2>1. L = <<>> \/ L[1].op # "insert"
    OBVIOUS
  <2>2. \A j \in DOMAIN S : S[j].op # "ended"
    BY <1>1
  <2> QED
    BY <1>3, <2>1, <2>2, PlacedTail
<1> QED
  BY <1>2, <1>3

LEMMA PlacesStep ==
  ASSUME Shape, Places, NEW th \in Threads, NEW M, NEW S, NEW L, Spliced(M, S, L),
         todo' = [todo EXCEPT ![th] = M], \A i \in DOMAIN M : Placed(M, i)
  PROVE  Places'
<1>1. todo'[th] = M /\ \A t \in Threads \ {th} : todo'[t] = todo[t]
  BY ShapeStep
<1> QED
  BY <1>1 DEF Places

\* A statement that neither takes a lock nor gives one back.
Tame(s, th) == /\ s.op \notin {"ended", "unlock"}
               /\ s.op \in Matching => th \in Players
               /\ s.op = "endgame" => MayEnd(th)

\* A game whose end goes on is ended by the same thread still.
LEMMA EndsStep ==
  ASSUME Shape, Locks, NEW th \in Threads, NEW M, NEW S, NEW L, Spliced(M, S, L),
         L = todo[th] \/ L = <<>>, \A i \in DOMAIN S : S[i].op # "ended",
         todo' = [todo EXCEPT ![th] = M], ending' = ending
  PROVE  \A t \in Threads : \A i \in DOMAIN todo'[t] : EndsAlone(t, i)'
<1>0. todo'[th] = M /\ \A t \in Threads \ {th} : todo'[t] = todo[t]
  BY ShapeStep
<1>1. DOMAIN S = 1..Len(S) /\ DOMAIN L = 1..Len(L) /\ (L = <<>> <=> Len(L) = 0)
  BY ListFacts DEF Spliced
<1>2. ASSUME NEW i \in DOMAIN M
      PROVE  \/ i \in 1..Len(S) /\ M[i] = S[i]
             \/ \E j \in DOMAIN L : j \in 2..Len(L) /\ i = Len(S) + j - 1 /\ M[i] = L[j]
  BY SplicedFrom
<1>3. ASSUME NEW j \in DOMAIN L PROVE L = todo[th]
  BY <1>1
<1>4. ASSUME NEW t \in Threads, NEW i \in DOMAIN todo'[t], todo'[t][i].op = "ended"
      PROVE  \E j \in DOMAIN todo[t] :
               /\ todo'[t][i] = todo[t][j]
               /\ IF t = th THEN i = Len(S) + j - 1 ELSE i = j
  BY <1>0, <1>1, <1>2, <1>3, <1>4
<1> SUFFICES ASSUME NEW t \in Threads, NEW i \in DOMAIN todo'[t], todo'[t][i].op = "ended"
             PROVE  /\ todo'[t][i].game \in ending'
                    /\ \A u \in Threads : \A k \in DOMAIN todo'[u] :
                         todo'[u][k].op = "ended" /\ todo'[u][k].game = todo'[t][i].game
                           => u = t /\ k = i
  BY DEF EndsAlone
<1>5. PICK j \in DOMAIN todo[t] : /\ todo'[t][i] = todo[t][j]
                                  /\ IF t = th THEN i = Len(S) + j - 1 ELSE i = j
  BY <1>4
<1>6. EndsAlone(t, j)
  BY DEF Locks, Holds
<1>7. ASSUME NEW u \in Threads, NEW k \in DOMAIN todo'[u], todo'[u][k].op = "ended",
             todo'[u][k].game = todo'[t][i].game
      PROVE  u = t /\ k = i
  <2>1. PICK m \in DOMAIN todo[u] : /\ todo'[u][k] = todo[u][m]
                                    /\ IF u = th THEN k = Len(S) + m - 1 ELSE k = m
    BY <1>4, <1>7
  <2>2. u = t /\ m = j
    BY <2>1, <1>5, <1>6, <1>7 DEF EndsAlone
  <2> QED
    BY <2>1, <2>2, <1>5
<1> QED
  BY <1>5, <1>6, <1>7 DEF EndsAlone

LEMMA LocksStep ==
  ASSUME Shape, Locks, NEW th \in Threads, NEW M, NEW S, NEW L, Spliced(M, S, L),
         L = todo[th] \/ L = <<>>, \A i \in DOMAIN S : Tame(S[i], th),
         todo' = [todo EXCEPT ![th] = M], matcher' = matcher, ending' = ending
  PROVE  Locks'
<1>0. todo'[th] = M /\ \A t \in Threads \ {th} : todo'[t] = todo[t]
  BY ShapeStep
<1>1. DOMAIN S = 1..Len(S) /\ DOMAIN L = 1..Len(L) /\ (L = <<>> <=> Len(L) = 0)
  BY ListFacts DEF Spliced
<1>2. \A i \in 1..Len(S) : /\ S[i].op \notin {"ended", "unlock"}
                           /\ S[i].op \in Matching => th \in Players
  BY <1>1 DEF Tame
<1>3. ASSUME NEW i \in DOMAIN M
      PROVE  \/ i \in 1..Len(S) /\ M[i] = S[i]
             \/ \E j \in DOMAIN L : j \in 2..Len(L) /\ i = Len(S) + j - 1 /\ M[i] = L[j]
  BY SplicedFrom
<1>4. ASSUME NEW j \in DOMAIN L PROVE L = todo[th] /\ j \in DOMAIN todo[th] /\ Holds(th, j)
  BY <1>1 DEF Locks
<1>5. ASSUME NEW i \in DOMAIN M
      PROVE  M[i].op \in Matching => th \in Players
  BY <1>2, <1>3, <1>4 DEF Holds
<1>6. ASSUME NEW i \in DOMAIN M, M[i].op = "unlock"
      PROVE  matcher = th /\ \A k \in DOMAIN M : M[k].op = "unlock" => k = i
  <2>1. PICK j \in DOMAIN L : j \in 2..Len(L) /\ i = Len(S) + j - 1 /\ M[i] = L[j]
    BY <1>2, <1>3, <1>6
  <2>2. matcher = th /\ \A k \in DOMAIN L : L[k].op = "unlock" => k = j
    BY <2>1, <1>4, <1>6 DEF Holds
  <2>3. ASSUME NEW k \in DOMAIN M, M[k].op = "unlock" PROVE k = i
    <3>1. PICK m \in DOMAIN L : m \in 2..Len(L) /\ k = Len(S) + m - 1 /\ M[k] = L[m]
      BY <1>2, <1>3, <2>3
    <3> QED
      BY <3>1, <2>1, <2>2, <2>3
  <2> QED
    BY <2>2, <2>3
<1>7. \A t \in Threads : \A i \in DOMAIN todo'[t] : EndsAlone(t, i)'
  <2>1. \A i \in DOMAIN S : S[i].op # "ended"
    BY DEF Tame
  <2> QED
    BY <2>1, EndsStep
<1>8. ASSUME NEW t \in Threads, NEW i \in DOMAIN todo'[t] PROVE Holds(t, i)'
  <2>1. CASE t = th
    BY <2>1, <1>0, <1>5, <1>6, <1>7 DEF Holds
  <2>2. CASE t # th
    <3>1. Holds(t, i) /\ todo'[t] = todo[t]
      BY <2>2, <1>0 DEF Locks
    <3> QED
      BY <3>1, <1>7 DEF Holds
  <2> QED
    BY <2>1, <2>2
<1> QED
  BY <1>8 DEF Locks

LEMMA ContentsStep ==
  ASSUME Shape, Contents, NEW th \in Threads, NEW M, NEW S, NEW L, Spliced(M, S, L),
         L = todo[th] \/ L = <<>>, todo' = [todo EXCEPT ![th] = M],
         \A i \in DOMAIN S : Fits(S[i]) /\ Points(S[i])',
         DOMAIN games \subseteq DOMAIN games'
  PROVE  Contents'
<1>0. todo'[th] = M /\ \A t \in Threads \ {th} : todo'[t] = todo[t]
  BY ShapeStep
<1>1. DOMAIN S = 1..Len(S) /\ DOMAIN L = 1..Len(L) /\ (L = <<>> <=> Len(L) = 0)
  BY ListFacts DEF Spliced
<1>2. ASSUME NEW s, Points(s) PROVE Points(s)'
  BY <1>2 DEF Points
<1>3. ASSUME NEW i \in DOMAIN M PROVE Fits(M[i]) /\ Points(M[i])'
  <2>1. CASE i \in 1..Len(S) /\ M[i] = S[i]
    BY <2>1, <1>1
  <2>2. CASE \E j \in DOMAIN L : M[i] = L[j]
    <3>1. PICK j \in DOMAIN L : M[i] = L[j]
      BY <2>2
    <3>2. L = todo[th]
      BY <3>1, <1>1
    <3>3. Fits(L[j]) /\ Points(L[j])
      BY <3>1, <3>2 DEF Contents
    <3> QED
      BY <3>1, <3>3, <1>2
  <2> QED
    BY <2>1, <2>2, SplicedFrom
<1>4. ASSUME NEW t \in Threads, NEW i \in DOMAIN todo'[t]
      PROVE  (Fits(todo[t][i]) /\ Points(todo[t][i]))'
  <2>1. CASE t = th
    BY <2>1, <1>0, <1>3
  <2>2. CASE t # th
    <3>1. todo'[t] = todo[t]
      BY <2>2, <1>0
    <3>2. Fits(todo[t][i]) /\ Points(todo[t][i])
      BY <3>1 DEF Contents
    <3>3. Points(todo[t][i])'
      BY <3>1, <3>2, <1>2
    <3> QED
      BY <3>1, <3>2, <3>3
  <2> QED
    BY <2>1, <2>2
<1> QED
  BY <1>4 DEF Contents

\* No game of old is renamed.
GamesKept == /\ games' \in Seq(GameType)
             /\ \A g \in DOMAIN games : g \in DOMAIN games' /\ games'[g].pair = games[g].pair

\* A promise holds as long as nobody gets another match to play.
LEMMA FreeStays ==
  ASSUME Undecided' \subseteq Undecided, GamesKept
  PROVE  /\ \A p : Free(p) => Free(p)'
         /\ \A g \in DOMAIN games : Pair(g)' = Pair(g)
<1>1. \A g \in DOMAIN games : Pair(g)' = Pair(g)
  BY DEF Pair, GamesKept
<1>2. Undecided \subseteq DOMAIN games
  BY DEF Undecided
<1> QED
  BY <1>1, <1>2 DEF Free

LEMMA DisjointStays ==
  ASSUME Disjoint, Undecided' \subseteq Undecided, GamesKept
  PROVE  Disjoint'
<1>1. \A g \in Undecided' : g \in Undecided /\ Pair(g)' = Pair(g)
  BY FreeStays DEF Undecided
<1> QED
  BY <1>1 DEF Disjoint

LEMMA PromisesStay ==
  ASSUME Undecided' \subseteq Undecided, GamesKept, NEW L, NEW i,
         Promised(L, i), Points(L[i])
  PROVE  Promised(L, i)'
<1>1. /\ \A p : Free(p) => Free(p)'
      /\ L[i].op = "insert" => Pair(L[i].game)' = Pair(L[i].game)
  BY FreeStays DEF Points
<1> QED
  BY <1>1 DEF Promised

LEMMA ElectedStep ==
  ASSUME Shape, Places, Contents, Elected, NEW th \in Threads, NEW M, NEW S, NEW L,
         Spliced(M, S, L), L = todo[th] \/ L = <<>>, todo' = [todo EXCEPT ![th] = M],
         \A i \in DOMAIN S : i \in DOMAIN M => Promised(M, i)',
         Undecided' \subseteq Undecided, GamesKept
  PROVE  Elected'
<1>0. todo'[th] = M /\ \A t \in Threads \ {th} : todo'[t] = todo[t]
  BY ShapeStep
<1>1. DOMAIN S = 1..Len(S) /\ DOMAIN L = 1..Len(L) /\ (L = <<>> <=> Len(L) = 0)
  BY ListFacts DEF Spliced
<1>2. ASSUME NEW i \in DOMAIN M PROVE Promised(M, i)'
  <2>1. CASE i \in 1..Len(S)
    BY <2>1, <1>1
  <2>2. CASE i \notin 1..Len(S)
    <3>1. PICK j \in DOMAIN L : j \in 2..Len(L) /\ i = Len(S) + j - 1 /\ M[i] = L[j]
      BY <2>2, SplicedFrom
    <3>2. L = todo[th] /\ j # 1
      BY <3>1, <1>1
    <3>3. Promised(L, j) /\ Points(L[j]) /\ L[j].op # "insert"
      BY <3>1, <3>2 DEF Elected, Contents, Places, Placed
    <3>4. Promised(L, j)'
      BY <3>3, PromisesStay
    <3> QED
      BY <3>1, <3>3, <3>4 DEF Promised
  <2> QED
    BY <2>1, <2>2
<1>3. ASSUME NEW t \in Threads \ {th}, NEW i \in DOMAIN todo[t] PROVE Promised(todo[t], i)'
  <2>1. Promised(todo[t], i) /\ Points(todo[t][i])
    BY DEF Elected, Contents
  <2> QED
    BY <2>1, <1>0, PromisesStay
<1> QED
  BY <1>0, <1>2, <1>3 DEF Elected

\* A row stays doomed while another statement than those of the ending runs.
LEMMA DoomStays ==
  ASSUME Shape, NEW th \in Threads, NEW M, todo' = [todo EXCEPT ![th] = M],
         todo[th] = <<>> \/ todo[th][1].op \notin Dooming,
         NEW g, NEW id, Doomed(g, id)
  PROVE  Doomed(g, id)'
<1>1. \A t \in Threads \ {th} : todo'[t] = todo[t]
  BY DEF Shape
<1>2. PICK t \in Threads : /\ Ends(todo[t], g)
                           /\ \/ todo[t][1].op = "insert" /\ todo[t][2].op = "result"
                              \/ todo[t][1].op = "result"
                              \/ todo[t][1].op = "complete" /\ todo[t][1].id = id
  BY DEF Doomed
<1>3. t # th
  <2>1. CASE todo[th] = <<>>
    <3>1. DOMAIN todo[th] = {}
      BY <2>1, ShortLists, ListFacts
    <3> QED
      BY <3>1, <1>2 DEF Ends
  <2>2. CASE todo[th][1].op \notin Dooming
    BY <2>2, <1>2 DEF Dooming
  <2> QED
    BY <2>1, <2>2
<1>4. todo'[t] = todo[t]
  BY <1>1, <1>3
<1> QED
  BY <1>2, <1>4 DEF Doomed

\* What the thread is left with begins with the new statements.
LEMMA NewFirst ==
  ASSUME NEW L, L # <<>>, NEW S, NEW M, Spliced(M, S, L)
  PROVE  /\ \A i \in DOMAIN S : i \in DOMAIN M /\ M[i] = S[i]
         /\ 2 \in DOMAIN L => Len(S) + 1 \in DOMAIN M /\ M[Len(S) + 1] = L[2]
<1>1. /\ DOMAIN S = 1..Len(S) /\ Len(S) \in Nat /\ DOMAIN M = 1..Len(M) /\ Len(M) \in Nat
      /\ Len(L) \in Nat /\ DOMAIN L = 1..Len(L) /\ Len(L) # 0
  BY ListFacts DEF Spliced
<1>2. Len(M) = Len(S) + Len(L) - 1 /\ \A i \in 1..Len(S) : M[i] = S[i]
  BY DEF Spliced
<1>3. 2 \in DOMAIN L => Len(S) + 1 \in DOMAIN M /\ M[Len(S) + 1] = L[2]
  <2>1. \A j \in 2..Len(L) : M[Len(S) + j - 1] = L[j]
    BY DEF Spliced
  <2>2. Len(S) + 2 - 1 = Len(S) + 1
    BY <1>1
  <2> QED
    BY <2>1, <2>2, <1>1, <1>2
<1> QED
  BY <1>1, <1>2, <1>3

\* It goes on with what the thread had left, and leaves nothing of that out.
LEMMA OldRest ==
  ASSUME NEW L, L # <<>>, NEW S, NEW M, Spliced(M, S, L)
  PROVE  /\ \A i \in DOMAIN M : i \in DOMAIN S \/ \E j \in DOMAIN L : j # 1 /\ M[i] = L[j]
         /\ \A j \in DOMAIN L : j # 1 => \E i \in DOMAIN M : M[i] = L[j]
<1>1. /\ DOMAIN S = 1..Len(S) /\ Len(S) \in Nat /\ DOMAIN M = 1..Len(M) /\ Len(M) \in Nat
      /\ Len(L) \in Nat /\ DOMAIN L = 1..Len(L) /\ Len(L) # 0
  BY ListFacts DEF Spliced
<1>2. Len(M) = Len(S) + Len(L) - 1
  BY DEF Spliced
<1>3. \A j \in 2..Len(L) : M[Len(S) + j - 1] = L[j]
  BY DEF Spliced
<1>4. ASSUME NEW j \in DOMAIN L, j # 1 PROVE \E i \in DOMAIN M : M[i] = L[j]
  <2>1. j \in 2..Len(L) /\ Len(S) + j - 1 \in DOMAIN M
    BY <1>1, <1>2, <1>4
  <2> QED
    BY <2>1, <1>3
<1>5. ASSUME NEW i \in DOMAIN M, i \notin DOMAIN S
      PROVE  \E j \in DOMAIN L : j # 1 /\ M[i] = L[j]
  <2> DEFINE j == i - Len(S) + 1
  <2>1. j \in 2..Len(L) /\ Len(S) + j - 1 = i /\ j # 1
    BY <1>1, <1>2, <1>5
  <2> HIDE DEF j
  <2>2. M[Len(S) + j - 1] = L[j] /\ j \in DOMAIN L
    BY <2>1, <1>1, <1>3
  <2>3. M[i] = L[j]
    BY <2>1, <2>2
  <2> QED
    BY <2>1, <2>2, <2>3
<1> QED
  BY <1>4, <1>5

\* Every row there is after the step was there before, and was open if it is.
RowsFrom ==
  /\ nextId' = nextId
  /\ \A r \in rows' : \E s \in rows : s.id = r.id /\ s.game = r.game /\ s.done = r.done

\* So it is, or it is the row of a new match.
RowsStay ==
  /\ nextId' \in Nat /\ nextId <= nextId'
  /\ \A r \in rows' : \/ r.id = nextId
                     \/ \E s \in rows : s.id = r.id /\ s.game = r.game /\ s.done = r.done

LEMMA FromIsStay ==
  ASSUME RowsOK, RowsFrom
  PROVE  RowsStay
BY DEF RowsOK, RowsFrom, RowsStay

LEMMA SoundStays ==
  ASSUME RowsOK, RowsStay, NEW L, NEW s, Sound(L, s)
  PROVE  Sound(L, s)'
<1>1. ASSUME s.op = "complete"
      PROVE  /\ s.id \in Nat /\ s.id < nextId'
             /\ \E j \in DOMAIN L : /\ L[j].op = "ended"
                                   /\ \A r \in rows' : r.id = s.id => ~r.done /\ r.game = L[j].game
  <2>1. /\ s.id \in Nat /\ s.id < nextId /\ nextId \in Nat /\ nextId' \in Nat /\ nextId <= nextId'
    BY <1>1 DEF Sound, RowsOK, RowsStay
  <2>2. PICK j \in DOMAIN L : /\ L[j].op = "ended"
                             /\ \A r \in rows : r.id = s.id => ~r.done /\ r.game = L[j].game
    BY <1>1 DEF Sound
  <2>3. ASSUME NEW r \in rows', r.id = s.id PROVE ~r.done /\ r.game = L[j].game
    <3>1. r.id # nextId
      BY <2>1, <2>3
    <3>2. PICK x \in rows : x.id = r.id /\ x.game = r.game /\ x.done = r.done
      BY <3>1 DEF RowsStay
    <3> QED
      BY <2>2, <2>3, <3>2
  <2>4. s.id < nextId'
    BY <2>1
  <2> QED
    BY <2>1, <2>2, <2>3, <2>4
<1> QED
  BY <1>1 DEF Sound, Ends

\* Old statements stay sound: none of them is about to complete a row, and one
\* that records a result follows the insertion of its row.
LEMMA DecidedStep ==
  ASSUME Shape, Places, RowsOK, Decided, NEW th \in Threads, NEW M, NEW S, NEW L,
         Spliced(M, S, L), L = todo[th] \/ L = <<>>, todo' = [todo EXCEPT ![th] = M],
         RowsStay, NoForfeits => \A i \in DOMAIN S : Sound(M, S[i])'
  PROVE  Decided'
<1>0. todo'[th] = M /\ \A t \in Threads \ {th} : todo'[t] = todo[t]
  BY ShapeStep
<1> SUFFICES ASSUME NoForfeits, NEW t \in Threads, NEW i \in DOMAIN todo'[t]
             PROVE  Sound(todo[t], todo[t][i])'
  BY DEF Decided
<1>1. DOMAIN S = 1..Len(S) /\ DOMAIN L = 1..Len(L) /\ (L = <<>> <=> Len(L) = 0)
  BY ListFacts DEF Spliced
<1>2. ASSUME NEW k \in DOMAIN M PROVE Sound(M, M[k])'
  <2>1. CASE k \in 1..Len(S)
    <3>1. M[k] = S[k] /\ k \in DOMAIN S
      BY <2>1, <1>1 DEF Spliced
    <3>2. Sound(M, S[k])'
      BY <3>1
    <3> QED
      BY <3>1, <3>2
  <2>2. CASE k \notin 1..Len(S)
    <3>1. PICK j \in DOMAIN L : j \in 2..Len(L) /\ k = Len(S) + j - 1 /\ M[k] = L[j]
      BY <2>2, SplicedFrom
    <3>2. L = todo[th] /\ j # 1 /\ L # <<>>
      BY <3>1, <1>1
    <3>3. Sound(L, L[j]) /\ Placed(L, j)
      BY <3>2 DEF Decided, Places
    <3>4. L[j].op \notin {"forfeit", "complete"}
          /\ (L[j].op = "result" => L[1].op = "insert" /\ Ends(L, L[j].game))
      BY <3>2, <3>3 DEF Sound, Placed
    <3>5. ASSUME L[j].op = "result" PROVE Ends(M, L[j].game)
      <4>1. PICK n \in DOMAIN L : L[n].op = "ended" /\ L[n].game = L[j].game
        BY <3>4, <3>5 DEF Ends
      <4>2. n # 1
        BY <3>4, <3>5, <4>1
      <4>3. \E m \in DOMAIN M : M[m] = L[n]
        BY <3>2, <4>2, OldRest
      <4> QED
        BY <4>1, <4>3 DEF Ends
    <3> QED
      BY <3>1, <3>4, <3>5 DEF Sound, Ends
  <2> QED
    BY <2>1, <2>2
<1>3. CASE t = th
  BY <1>0, <1>2, <1>3 DEF Sound, Ends
<1>4. CASE t # th
  <2>1. todo'[t] = todo[t] /\ Sound(todo[t], todo[t][i])
    BY <1>0, <1>4 DEF Decided
  <2>2. PICK K, s : K = todo[t] /\ s = todo[t][i]
    OBVIOUS
  <2>3. Sound(K, s)'
    BY <2>1, <2>2, SoundStays
  <2> QED
    BY <2>1, <2>2, <2>3 DEF Sound, Ends
<1> QED
  BY <1>3, <1>4

\* A step whose new statements neither forfeit nor record keeps it, too.
Plain(s) == s.op \notin {"forfeit", "result", "complete"}

LEMMA PlainStep ==
  ASSUME IInv, NEW th \in Threads, NEW M, NEW S, NEW L, Spliced(M, S, L),
         L = todo[th] \/ L = <<>>, todo' = [todo EXCEPT ![th] = M],
         RowsFrom, NoForfeits => \A i \in DOMAIN S : Plain(S[i])
  PROVE  Decided'
<1>1. Shape /\ Places /\ RowsOK /\ Decided
  BY DEF IInv, Typed
<1>2. NoForfeits => \A i \in DOMAIN S : Sound(M, S[i])'
  BY DEF Plain, Sound
<1>3. RowsStay
  BY <1>1, FromIsStay
<1> QED
  BY <1>1, <1>2, <1>3, DecidedStep

LEMMA UndecidedShrinks ==
  ASSUME RowsOK, RowsFrom,
         \A g, id : Doomed(g, id) => Doomed(g, id)'
  PROVE  Undecided' \subseteq Undecided
<1> SUFFICES ASSUME NEW g \in Undecided' PROVE g \in Undecided
  OBVIOUS
<1>1. PICK r \in rows' : r.game = g /\ ~r.done /\ ~Doomed(g, r.id)'
  BY DEF Undecided
<1>2. PICK s \in rows : s.id = r.id /\ s.game = r.game /\ s.done = r.done
  BY DEF RowsFrom
<1>3. ~s.done /\ ~Doomed(g, s.id) /\ s.game = g /\ s.game \in DOMAIN games
  BY <1>1, <1>2 DEF RowsOK
<1> QED
  BY <1>3 DEF Undecided

\* What the steps have in common, whatever they do to locks and matches.
LEMMA CoreStep ==
  ASSUME IInv, NEW th \in Threads, NEW M, NEW S, NEW L, Spliced(M, S, L),
         L = todo[th] \/ L = <<>>, todo' = [todo EXCEPT ![th] = M],
         \A i \in DOMAIN S : /\ Fits(S[i]) /\ Points(S[i])'
                             /\ S[i].op \in {"endgame", "ended"} => MayEnd(th),
         \A i \in DOMAIN M : Placed(M, i),
         Locks', Elected', Disjoint', Decided', GamesKept, RowsOK', slots' \subseteq Players
  PROVE  IInv'
<1>0. /\ Shape /\ Contents /\ RowsOK /\ Places /\ Battles
      /\ DOMAIN games \subseteq DOMAIN games'
  BY DEF IInv, Typed, GamesKept
<1>1. Shape' /\ todo'[th] = M /\ \A t \in Threads \ {th} : todo'[t] = todo[t]
  BY <1>0, ShapeStep
<1>2. Contents'
  BY <1>0, ContentsStep
<1>3. Places'
  BY <1>0, PlacesStep
<1>4. Battles'
  <2> SUFFICES ASSUME NEW t \in Threads, ~MayEnd(t), NEW i \in DOMAIN todo'[t]
               PROVE  todo'[t][i].op \notin {"endgame", "ended"}
    BY DEF Battles, MayEnd, BattlesEnd
  <2>1. \A j \in DOMAIN todo[t] : todo[t][j].op \notin {"endgame", "ended"}
    BY <1>0 DEF Battles
  <2>2. CASE t = th
    <3>1. DOMAIN S = 1..Len(S) /\ DOMAIN L = 1..Len(L) /\ (L = <<>> <=> Len(L) = 0)
      BY ListFacts DEF Spliced
    <3>2. \/ i \in 1..Len(S) /\ M[i] = S[i]
          \/ \E j \in DOMAIN L : M[i] = L[j]
      BY <2>2, <1>1, SplicedFrom
    <3> QED
      BY <2>1, <2>2, <3>1, <3>2, <1>1
  <2> QED
    BY <2>1, <2>2, <1>1
<1> QED
  BY <1>1, <1>2, <1>3, <1>4 DEF IInv, Typed

\* Most steps bring no match that is to be decided.
LEMMA LockStep ==
  ASSUME IInv, NEW th \in Threads, NEW M, NEW S, NEW L, Spliced(M, S, L),
         L = todo[th] \/ L = <<>>, todo' = [todo EXCEPT ![th] = M],
         \A i \in DOMAIN S : /\ Fits(S[i]) /\ Points(S[i])'
                             /\ S[i].op \in {"endgame", "ended"} => MayEnd(th),
         \A i \in DOMAIN M : Placed(M, i),
         \A i \in DOMAIN S : i \in DOMAIN M => Promised(M, i)',
         Locks', Decided', GamesKept, Undecided' \subseteq Undecided, RowsOK',
         slots' \subseteq Players
  PROVE  IInv'
<1>0. Shape /\ Contents /\ Places /\ Elected /\ Disjoint
  BY DEF IInv, Typed
<1>1. Elected'
  BY <1>0, ElectedStep
<1>2. Disjoint'
  BY <1>0, DisjointStays
<1> QED
  BY <1>1, <1>2, CoreStep

\* Most of them take no lock and give none back.
LEMMA AnyStep ==
  ASSUME IInv, NEW th \in Threads, NEW M, NEW S, NEW L, Spliced(M, S, L),
         L = todo[th] \/ L = <<>>, todo' = [todo EXCEPT ![th] = M],
         \A i \in DOMAIN S : Fits(S[i]) /\ Points(S[i])' /\ Tame(S[i], th),
         \A i \in DOMAIN M : Placed(M, i),
         \A i \in DOMAIN S : i \in DOMAIN M => Promised(M, i)',
         matcher' = matcher, ending' = ending, GamesKept, Decided',
         Undecided' \subseteq Undecided, RowsOK', slots' \subseteq Players
  PROVE  IInv'
<1>1. Locks'
  BY LocksStep DEF IInv, Typed
<1>2. \A i \in DOMAIN S : S[i].op \in {"endgame", "ended"} => MayEnd(th)
  BY DEF Tame
<1> QED
  BY <1>1, <1>2, LockStep

\* The easiest: they add statements without a place of their own.
LEMMA EasyStep ==
  ASSUME IInv, NEW th \in Threads, NEW M, NEW S, NEW L, Spliced(M, S, L),
         L = todo[th] \/ L = <<>>, EasyList(S, th),
         L = <<>> \/ Mild(S), NoForfeits => Mild(S),
         todo' = [todo EXCEPT ![th] = M],
         todo[th] = <<>> \/ todo[th][1].op \notin Dooming,
         matcher' = matcher, ending' = ending, GamesKept, RowsFrom, RowsOK',
         slots' \subseteq Players
  PROVE  IInv'
<1>0. Shape /\ RowsOK /\ Places
  BY DEF IInv, Typed
<1>1. \A i \in DOMAIN S : /\ S[i].op \notin Strict \cup {"ended", "unlock"}
                          /\ Fits(S[i]) /\ Points(S[i])' /\ Tame(S[i], th)
  BY DEF EasyList, Easy, Points, Strict, Tame
<1>2. \A i \in DOMAIN M : Placed(M, i)
  <2>1. L = <<>> \/ L[1].op # "insert"
    BY DEF Dooming
  <2>2. ASSUME NEW i \in DOMAIN L PROVE Placed(L, i)
    BY <1>0, ShortLists, ListFacts DEF Places
  <2> QED
    BY <2>1, <2>2, PlacedEasy
<1>3. Undecided' \subseteq Undecided
  BY <1>0, DoomStays, UndecidedShrinks
<1>4. \A i \in DOMAIN S : i \in DOMAIN M => Promised(M, i)'
  <2>1. \A i \in DOMAIN S : M[i] = S[i]
    BY ListFacts DEF Spliced
  <2> QED
    BY <1>1, <2>1 DEF Promised, Strict
<1>5. Decided'
  <2>1. NoForfeits => \A i \in DOMAIN S : Plain(S[i])
    BY <1>1 DEF Plain, Strict, Mild
  <2> QED
    BY <2>1, PlainStep
<1> QED
  BY <1>1, <1>2, <1>3, <1>4, <1>5, AnyStep

--------------------------------------------------------------------------
\* The steps one by one.

\* What is known of the statement that runs.
LEMMA Running ==
  ASSUME IInv, NEW th \in Threads, NEW op, Do(th, op)
  PROVE  /\ todo[th] # <<>> /\ 1 \in DOMAIN todo[th] /\ IsList(todo[th])
         /\ Now(th) = todo[th][1] /\ Now(th).op = op
         /\ Fits(Now(th)) /\ Points(Now(th)) /\ Holds(th, 1)
         /\ Placed(todo[th], 1) /\ Promised(todo[th], 1)
<1>1. todo[th] # <<>> /\ IsList(todo[th])
  BY DEF Do, Idle, IInv, Typed, Shape
<1>2. 1 \in DOMAIN todo[th]
  BY <1>1, ListFacts
<1>3. Now(th) = todo[th][1]
  <2>1. todo[th] \in Seq({todo[th][i] : i \in DOMAIN todo[th]})
    BY <1>1 DEF IsList
  <2> QED
    BY <2>1, <1>1 DEF Now
<1> QED
  BY <1>1, <1>2, <1>3 DEF Do, Now, IInv, Typed, Contents, Locks, Places, Elected

LEMMA SameRows ==
  ASSUME RowsOK, UNCHANGED <<rows, nextId, games>>
  PROVE  RowsOK' /\ GamesKept /\ RowsFrom
BY DEF RowsOK, GamesKept, RowsFrom

LEMMA EasyThen ==
  ASSUME IInv, NEW th \in Threads, NEW op, Do(th, op), op \notin Dooming,
         NEW S, EasyList(S, th), Mild(S), Then(th, S),
         matcher' = matcher, ending' = ending, GamesKept, RowsFrom, RowsOK',
         slots' \subseteq Players
  PROVE  IInv'
<1> DEFINE M == S \o Tail(todo[th])
<1>1. /\ todo[th] # <<>> /\ IsList(todo[th]) /\ todo[th][1].op = op /\ IsList(S)
  BY Running DEF EasyList
<1>2. Spliced(M, S, todo[th])
  BY <1>1, Splice
<1>3. todo' = [todo EXCEPT ![th] = M]
  BY DEF Then
<1> HIDE DEF M
<1> QED
  BY <1>1, <1>2, <1>3, EasyStep

LEMMA QuietThen ==
  ASSUME IInv, NEW th \in Threads, NEW op, Do(th, op), op \notin Dooming,
         NEW S, EasyList(S, th), Mild(S), Then(th, S),
         UNCHANGED <<rows, nextId, games, matcher, ending>>, slots' \subseteq Players
  PROVE  IInv'
<1>1. RowsOK' /\ GamesKept /\ RowsFrom
  BY SameRows DEF IInv, Typed
<1> QED
  BY <1>1, EasyThen

\* A request: the thread was idle.
LEMMA EasyBegin ==
  ASSUME IInv, NEW th \in Threads, Idle(th), NEW S, EasyList(S, th),
         NoForfeits => Mild(S), todo' = [todo EXCEPT ![th] = S],
         UNCHANGED <<rows, nextId, games, matcher, ending, slots>>
  PROVE  IInv'
<1>1. RowsOK' /\ GamesKept /\ RowsFrom /\ slots' \subseteq Players
  BY SameRows DEF IInv, Typed
<1>2. Spliced(S, S, <<>>)
  BY SpliceNew DEF EasyList
<1>3. todo[th] = <<>>
  BY DEF Idle
<1> QED
  BY <1>1, <1>2, <1>3, EasyStep

\* The statements the handlers write, but for those that match and decide.
Errands == {"join", "register", "seed", "revive", "unpool", "fill", "cancel", "drop",
            "signup", "limit", "return", "unlive", "overdue"}

LEMMA EasyStatements ==
  ASSUME NEW th, NEW p \in Players
  PROVE  /\ \A op \in Errands : Easy(On(op, p), th)
         /\ \A a, b \in BOOLEAN : Easy(Async(p, a, b), th)
         /\ \A st \in {"active", "withdrew"} : Easy(SetStatus(p, st), th)
         /\ \A as \in {"completed", "quit"} : Easy(Final(p, as), th)
         /\ \A run \in Run : \A n : Easy([op |-> "record", who |-> p, run |-> run,
                                      number |-> n], th)
         /\ \A i \in Nat : Easy([op |-> "mail", who |-> p, final |-> i], th)
         /\ \A q \in Players \cup {NoOne} : Easy(Forfeit(p, q), th)
<1>1. ASSUME NEW op \in Errands PROVE Easy(On(op, p), th)
  BY DEF Easy, On, Errands, Fits, Strict, Matching, WhoOps
<1>2. ASSUME NEW a \in BOOLEAN, NEW b \in BOOLEAN PROVE Easy(Async(p, a, b), th)
  BY DEF Easy, Async, Fits, Strict, Matching, WhoOps
<1>3. ASSUME NEW st \in {"active", "withdrew"} PROVE Easy(SetStatus(p, st), th)
  BY DEF Easy, SetStatus, Fits, Strict, Matching, WhoOps
<1>4. ASSUME NEW as \in {"completed", "quit"} PROVE Easy(Final(p, as), th)
  BY DEF Easy, Final, Fits, Strict, Matching, WhoOps
<1>5. ASSUME NEW run \in Run, NEW n
      PROVE  Easy([op |-> "record", who |-> p, run |-> run, number |-> n], th)
  BY DEF Easy, Fits, Strict, Matching, WhoOps
<1>6. ASSUME NEW i \in Nat PROVE Easy([op |-> "mail", who |-> p, final |-> i], th)
  BY DEF Easy, Fits, Strict, Matching, WhoOps
<1>7. ASSUME NEW q \in Players \cup {NoOne} PROVE Easy(Forfeit(p, q), th)
  BY DEF Easy, Forfeit, Fits, Strict, Matching, WhoOps
<1> QED
  BY <1>1, <1>2, <1>3, <1>4, <1>5, <1>6, <1>7

LEMMA EasyOthers ==
  ASSUME NEW th
  PROVE  /\ \A g : Easy(OnGame("discard", g), th) /\ Easy(OnGame("erase", g), th)
         /\ \A op \in {"start", "purge", "retire", "orphans"} : Easy([op |-> op], th)
         /\ \A P \in SUBSET Players : Easy([op |-> "slots", to |-> P], th)
         /\ th \in Players =>
              /\ Easy([op |-> "pair"], th)
              /\ \A p \in Players : \A d : Easy([op |-> "queue", who |-> p, deck |-> d], th)
              /\ \A p \in Players : \A d : Easy([op |-> "search", who |-> p, deck |-> d], th)
BY DEF Easy, OnGame, Fits, Strict, Matching, WhoOps

LEMMA MildLists ==
  /\ Mild(<<>>)
  /\ \A a : a.op # "forfeit" => Mild(<<a>>)
  /\ \A a, b : a.op # "forfeit" /\ b.op # "forfeit" => Mild(<<a, b>>)
  /\ \A a, b, c : a.op # "forfeit" /\ b.op # "forfeit" /\ c.op # "forfeit" => Mild(<<a, b, c>>)
<1>1. Mild(<<>>)
  BY ShortLists, ListFacts DEF Mild
<1>2. ASSUME NEW a, a.op # "forfeit" PROVE Mild(<<a>>)
  BY <1>2 DEF Mild
<1>3. ASSUME NEW a, NEW b, a.op # "forfeit", b.op # "forfeit" PROVE Mild(<<a, b>>)
  BY <1>3 DEF Mild
<1>4. ASSUME NEW a, NEW b, NEW c, a.op # "forfeit", b.op # "forfeit", c.op # "forfeit"
      PROVE  Mild(<<a, b, c>>)
  BY <1>4 DEF Mild
<1> QED
  BY <1>1, <1>2, <1>3, <1>4

LEMMA QuietEmpty ==
  ASSUME IInv, NEW th \in Threads, NEW op, Do(th, op), op \notin Dooming,
         Then(th, <<>>), UNCHANGED <<rows, nextId, games, matcher, ending>>,
         slots' \subseteq Players
  PROVE  IInv'
BY EasyLists, MildLists, QuietThen

LEMMA JoinKeeps ==
  ASSUME IInv, NEW th \in Threads, Join(th)
  PROVE  IInv'
<1> DEFINE p == Now(th).who
           add == On("signup", p)
           fresh == Async(p, FALSE, FALSE)
<1>1. Do(th, "join") /\ UNCHANGED <<rows, nextId, games, matcher, ending, slots>>
  BY DEF Join, db, play, entry
<1>2. p \in Players /\ slots \subseteq Players
  BY <1>1, Running DEF Fits, WhoOps, IInv, Typed
<1>3. Easy(add, th) /\ Easy(fresh, th) /\ add.op # "forfeit" /\ fresh.op # "forfeit"
  BY <1>2, EasyStatements DEF Errands, On, Async
<1>4. slots' \subseteq Players /\ "join" \notin Dooming
  BY <1>1, <1>2 DEF Dooming
<1> HIDE DEF add, fresh
<1>5. ASSUME NEW S, EasyList(S, th), Mild(S), Then(th, S) PROVE IInv'
  BY <1>1, <1>4, <1>5, QuietThen
<1>6. CASE Then(th, <<add>> \o (IF RunLive(p) THEN <<>> ELSE <<fresh>>))
  <2>1. EasyList(<<add>>, th) /\ Mild(<<add>>)
    BY <1>3, EasyLists, MildLists
  <2>2. /\ EasyList(IF RunLive(p) THEN <<>> ELSE <<fresh>>, th)
        /\ Mild(IF RunLive(p) THEN <<>> ELSE <<fresh>>)
    BY <1>3, EasyLists, MildLists
  <2> QED
    BY <2>1, <2>2, <1>5, <1>6, EasyConcat
<1>7. CASE Then(th, <<add, fresh, [op |-> "slots", to |-> slots \cup {p}]>>)
  <2>1. Easy([op |-> "slots", to |-> slots \cup {p}], th)
    BY <1>2, EasyOthers
  <2> QED
    BY <2>1, <1>3, <1>5, <1>7, EasyLists, MildLists
<1>8. ASSUME NEW q \in FreeSlots,
             Then(th, <<SetStatus(q, "withdrew"), add, fresh,
                        [op |-> "slots", to |-> (slots \ {q}) \cup {p}]>>)
      PROVE  IInv'
  <2> DEFINE a == SetStatus(q, "withdrew")
             d == [op |-> "slots", to |-> (slots \ {q}) \cup {p}]
  <2>1. q \in Players
    BY <1>2 DEF FreeSlots
  <2>2. Easy(a, th) /\ Easy(d, th) /\ a.op # "forfeit" /\ d.op # "forfeit"
    BY <2>1, <1>2, EasyStatements, EasyOthers DEF SetStatus
  <2> HIDE DEF a, d
  <2>3. EasyList(<<a, add, fresh, d>>, th) /\ Mild(<<a, add, fresh, d>>)
    BY <2>2, <1>3, EasyFour
  <2> QED
    BY <2>3, <1>5, <1>8 DEF a, d
<1>9. CASE todo' = [todo EXCEPT ![th] = <<>>]
  <2>1. Spliced(<<>>, <<>>, <<>>) /\ EasyList(<<>>, th) /\ Mild(<<>>)
    BY SpliceNew, EasyLists, MildLists, ShortLists
  <2>2. RowsOK' /\ GamesKept /\ RowsFrom /\ todo[th] # <<>> /\ todo[th][1].op = "join"
    BY <1>1, SameRows, Running DEF IInv, Typed
  <2> QED
    BY <2>1, <2>2, <1>1, <1>4, <1>9, EasyStep
<1>10. CASE Then(th, <<>>)
  BY <1>1, <1>4, <1>10, QuietEmpty
<1> QED
  BY <1>6, <1>7, <1>8, <1>9, <1>10 DEF Join, add, fresh

LEMMA ReviveKeeps ==
  ASSUME IInv, NEW th \in Threads, Revive(th)
  PROVE  IInv'
<1> DEFINE p == Now(th).who
           tail == <<On("register", p), On("seed", p)>>
           head == IF Active(p) THEN <<>>
                   ELSE <<SetStatus(p, "active"), Async(p, FALSE, FALSE)>>
<1>1. Do(th, "revive") /\ UNCHANGED <<rows, nextId, games, matcher, ending, slots>>
  BY DEF Revive, db, play, entry
<1>2. p \in Players /\ slots' \subseteq Players /\ "revive" \notin Dooming
  BY <1>1, Running DEF Fits, WhoOps, IInv, Typed, Dooming
<1>3. EasyList(tail, th) /\ Mild(tail)
  <2>1. Easy(On("register", p), th) /\ Easy(On("seed", p), th)
        /\ On("register", p).op # "forfeit" /\ On("seed", p).op # "forfeit"
    BY <1>2, EasyStatements DEF Errands, On
  <2> QED
    BY <2>1, EasyLists, MildLists
<1>4. EasyList(head, th) /\ Mild(head)
  <2>1. Easy(SetStatus(p, "active"), th) /\ Easy(Async(p, FALSE, FALSE), th)
        /\ SetStatus(p, "active").op # "forfeit" /\ Async(p, FALSE, FALSE).op # "forfeit"
    BY <1>2, EasyStatements DEF SetStatus, Async
  <2> QED
    BY <2>1, EasyLists, MildLists
<1>5. EasyList(head \o tail, th) /\ Mild(head \o tail)
  BY <1>3, <1>4, EasyConcat
<1>6. Then(th, <<>>) \/ Then(th, head \o tail)
  BY DEF Revive
<1> HIDE DEF head, tail
<1> QED
  BY <1>1, <1>2, <1>5, <1>6, QuietThen, QuietEmpty

LEMMA SignupKeeps ==
  ASSUME IInv, NEW th \in Threads, SignupStep(th)
  PROVE  IInv'
<1> slots \subseteq Players
  BY DEF IInv, Typed
<1>1. CASE AddSignup(th)
  BY <1>1, QuietEmpty DEF AddSignup, play, Dooming
<1>2. CASE SetAsync(th)
  BY <1>2, QuietEmpty DEF SetAsync, play, Dooming
<1>3. CASE StopSearching(th)
  BY <1>3, QuietEmpty DEF StopSearching, play, Dooming
<1>4. CASE SignupStatus(th)
  BY <1>4, QuietEmpty DEF SignupStatus, play, Dooming
<1>5. CASE WriteSlots(th)
  <2>1. Do(th, "slots") /\ slots' = Now(th).to /\ Then(th, <<>>)
        /\ UNCHANGED <<rows, nextId, games, matcher, ending>>
    BY <1>5 DEF WriteSlots, play
  <2>2. slots' \subseteq Players
    BY <2>1, Running DEF Fits
  <2> QED
    BY <2>1, <2>2, QuietEmpty DEF Dooming
<1>6. CASE Register(th)
  BY <1>6, QuietEmpty DEF Register, db, entry, play, Dooming
<1>7. CASE WritePool(th)
  <2>1. \E op \in {"unpool", "seed", "fill", "return"} : Do(th, op)
    BY <1>7 DEF WritePool
  <2> QED
    BY <1>7, <2>1, QuietEmpty DEF WritePool, play, Dooming
<1>8. CASE Drop(th)
  BY <1>8, QuietEmpty DEF Drop, play, Dooming
<1> QED
  BY <1>1, <1>2, <1>3, <1>4, <1>5, <1>6, <1>7, <1>8, JoinKeeps, ReviveKeeps DEF SignupStep

--------------------------------------------------------------------------
\* Sets of match rows.

LEMMA LeastExists ==
  ASSUME NEW S, S \subseteq Nat, S # {}
  PROVE  \E i \in S : \A j \in S : i <= j
<1> DEFINE R == StrictSubsetOrdering(Nat)
           T == {0 .. i : i \in S}
<1>1. T \subseteq FiniteSubsetsOf(Nat)
  <2> SUFFICES ASSUME NEW i \in S
               PROVE  0 .. i \in FiniteSubsetsOf(Nat)
    OBVIOUS
  <2>1. i \in Nat  OBVIOUS
  <2>2. IsFiniteSet(0 .. i)  BY <2>1, FS_Interval
  <2> QED  BY <2>1, <2>2 DEF FiniteSubsetsOf
<1>2. IsWellFoundedOn(R, FiniteSubsetsOf(Nat))
  BY FS_StrictSubsetOrderingWellFounded
<1>3. \A i, j \in Nat : i < j => <<0 .. i, 0 .. j>> \in R
  <2> TAKE i, j \in Nat
  <2> HAVE i < j
  <2>1. 0 .. i \subseteq 0 .. j /\ j \in 0 .. j /\ j \notin 0 .. i
    OBVIOUS
  <2> QED  BY <2>1 DEF StrictSubsetOrdering
<1>4. T # {}  OBVIOUS
<1> HIDE DEF R
<1>5. PICK x \in T : \A y \in T : ~ (<<y, x>> \in R)
  BY <1>1, <1>2, <1>4, WFMin
<1>6. PICK i \in S : x = 0 .. i  OBVIOUS
<1>7. \A j \in S : ~ (<<0 .. j, 0 .. i>> \in R)  BY <1>5, <1>6
<1>8. ASSUME NEW j \in S PROVE i <= j
  <2>1. i \in Nat /\ j \in Nat  OBVIOUS
  <2>2. ~ (j < i)  BY <1>3, <1>7, <2>1
  <2> QED  BY <2>1, <2>2
<1> QED  BY <1>8

\* The newest of some match ids.
LEMMA NewestExists ==
  ASSUME NEW n \in Nat, NEW S, S # {}, \A i \in S : i \in Nat /\ i < n
  PROVE  \E i \in S : \A j \in S : j <= i
<1> DEFINE T == {n - i : i \in S}
<1>1. T \subseteq Nat /\ T # {}
  OBVIOUS
<1>2. PICK m \in T : \A k \in T : m <= k
  BY <1>1, LeastExists
<1>3. PICK i \in S : m = n - i
  OBVIOUS
<1>4. \A j \in S : n - i <= n - j
  BY <1>2, <1>3
<1> QED
  BY <1>4

LEMMA RowsFinite ==
  ASSUME RowsOK
  PROVE  IsFiniteSet(rows)
<1> DEFINE f == [r \in rows |-> r.id]
<1>0. nextId \in Nat /\ \A r \in rows : r.id \in Nat /\ r.id < nextId
  BY DEF RowsOK, Row
<1>1. f \in [rows -> 0..nextId] /\ nextId \in Nat
  BY <1>0
<1>2. \A r, s \in rows : f[r] = f[s] => r = s
  BY DEF RowsOK
<1>3. f \in Injection(rows, 0..nextId)
  BY <1>1, <1>2 DEF Injection, IsInjective
<1>4. IsFiniteSet(0..nextId)
  BY <1>1, FS_Interval
<1> QED
  BY <1>3, <1>4, FS_Injection

LEMMA FinalMatchExists ==
  ASSUME RowsOK, NEW p, RunLive(p) \/ CompletedRun(p) # {}
  PROVE  FinalMatch(p) \in Nat
<1> DEFINE live == {r.id : r \in {s \in rows : p \in s.live}}
<1>1. live # {}
  BY DEF RunLive, Unfinished, CompletedRun
<1>2. nextId \in Nat /\ \A i \in live : i \in Nat /\ i < nextId
  BY DEF RowsOK, Row
<1> HIDE DEF live
<1>3. \E i \in live : \A j \in live : j <= i
  BY <1>1, <1>2, NewestExists
<1>4. (CHOOSE i \in live : \A j \in live : j <= i) \in Nat
  BY <1>2, <1>3
<1> QED
  BY <1>4 DEF FinalMatch, live

LEMMA CurrentRowExists ==
  ASSUME RowsOK, NEW p, Unfinished(p) # {}
  PROVE  CurrentRow(p) \in Unfinished(p)
<1> DEFINE ids == {r.id : r \in Unfinished(p)}
<1>1. ids # {} /\ nextId \in Nat /\ \A i \in ids : i \in Nat /\ i < nextId
  BY DEF Unfinished, RowsOK, Row
<1>2. PICK i \in ids : \A j \in ids : j <= i
  BY <1>1, NewestExists
<1>3. \E r \in Unfinished(p) : \A s \in Unfinished(p) : s.id <= r.id
  BY <1>2
<1> QED
  BY <1>3 DEF CurrentRow

LEMMA ScoresAreNumbers ==
  ASSUME RowsOK, NEW p
  PROVE  Wins(p) \in Nat /\ Losses(p) \in Nat
<1>1. IsFiniteSet(rows)
  BY RowsFinite
<1>2. /\ {r \in CompletedRun(p) : r.winner = p} \in SUBSET rows
      /\ {r \in CompletedRun(p) : r.winner # p} \in SUBSET rows
  BY DEF CompletedRun
<1> QED
  BY <1>1, <1>2, FS_Subset, FS_CardinalityType DEF Wins, Losses

--------------------------------------------------------------------------
\* Steps that remove rows, end games or retire runs.

LEMMA DiscardKeeps ==
  ASSUME IInv, NEW th \in Threads, DiscardRow(th) \/ EraseGame(th)
  PROVE  IInv'
<1> RowsOK /\ slots \subseteq Players
  BY DEF IInv, Typed
<1>1. CASE DiscardRow(th)
  <2>1. /\ Do(th, "discard") /\ Then(th, <<>>)
        /\ rows' \subseteq rows /\ UNCHANGED <<nextId, games, matcher, ending, slots>>
    BY <1>1 DEF DiscardRow, entry
  <2>2. RowsOK' /\ GamesKept /\ RowsFrom
    BY <2>1 DEF RowsOK, GamesKept, RowsFrom
  <2> QED
    BY <2>1, <2>2, EasyThen, EasyLists, MildLists DEF Dooming
<1>2. CASE EraseGame(th)
  <2>1. /\ Do(th, "erase") /\ Then(th, <<>>)
        /\ games' = [games EXCEPT ![Now(th).game].state = "gone"]
        /\ UNCHANGED <<rows, nextId, matcher, ending, slots>>
    BY <1>2 DEF EraseGame, entry
  <2>2. games \in Seq(GameType)
    BY DEF RowsOK
  <2>3. games \in [1..Len(games) -> GameType] /\ Len(games) \in Nat /\ DOMAIN games = 1..Len(games)
    BY <2>2, LenProperties
  <2>4. games' \in [1..Len(games) -> GameType] /\ \A g \in DOMAIN games : games'[g].pair = games[g].pair
    BY <2>1, <2>3 DEF GameType
  <2>5. games' \in Seq(GameType) /\ DOMAIN games' = DOMAIN games
    BY <2>3, <2>4
  <2>6. RowsOK' /\ GamesKept /\ RowsFrom
    BY <2>1, <2>4, <2>5 DEF RowsOK, GamesKept, RowsFrom
  <2> QED
    BY <2>1, <2>6, EasyThen, EasyLists, MildLists DEF Dooming
<1> QED
  BY <1>1, <1>2

LEMMA FinalizeKeeps ==
  ASSUME IInv, NEW th \in Threads, Finalize(th)
  PROVE  IInv'
<1> DEFINE p == Now(th).who
           run == [wins |-> Wins(p), losses |-> Losses(p), as |-> Now(th).as,
                   final |-> FinalMatch(p)]
           a == [op |-> "record", who |-> p, run |-> run, number |-> Len(results[p]) + 1]
           five == <<a, On("unlive", p), [op |-> "purge"], On("unpool", p),
                     SetStatus(p, "withdrew")>>
           reward == IF Rewarded(run) THEN <<[op |-> "mail", who |-> p, final |-> run.final]>>
                     ELSE <<>>
<1>1. Do(th, "final") /\ UNCHANGED <<rows, nextId, games, matcher, ending, slots>>
  BY DEF Finalize, db, play, entry
<1>2. /\ p \in Players /\ Now(th).as \in {"completed", "quit"}
      /\ slots' \subseteq Players /\ "final" \notin Dooming
  BY <1>1, Running DEF Fits, WhoOps, IInv, Typed, Dooming
<1>3. \/ Then(th, <<>>)
      \/ (RunLive(p) \/ CompletedRun(p) # {}) /\ Then(th, five \o reward)
  BY DEF Finalize
<1>4. CASE Then(th, <<>>)
  BY <1>1, <1>2, <1>4, QuietEmpty
<1>5. ASSUME RunLive(p) \/ CompletedRun(p) # {}, Then(th, five \o reward) PROVE IInv'
  <2>1. run \in Run /\ run.final \in Nat
    BY <1>2, <1>5, ScoresAreNumbers, FinalMatchExists DEF IInv, Typed, Run
  <2> HIDE DEF run
  <2>2. /\ Easy(a, th) /\ Easy([op |-> "mail", who |-> p, final |-> run.final], th)
        /\ Easy(On("unlive", p), th) /\ Easy([op |-> "purge"], th)
        /\ Easy(On("unpool", p), th) /\ Easy(SetStatus(p, "withdrew"), th)
    BY <2>1, <1>2, EasyStatements, EasyOthers DEF Errands
  <2>3. "forfeit" \notin {a.op, On("unlive", p).op, [op |-> "purge"].op, On("unpool", p).op,
                          SetStatus(p, "withdrew").op}
    BY DEF On, SetStatus
  <2>4. EasyList(five, th) /\ Mild(five)
    BY <2>2, <2>3, EasyFive
  <2>5. EasyList(reward, th) /\ Mild(reward)
    BY <2>2, EasyLists, MildLists
  <2>6. EasyList(five \o reward, th) /\ Mild(five \o reward)
    BY <2>4, <2>5, EasyConcat
  <2> HIDE DEF five, reward, a
  <2> QED
    BY <2>6, <1>1, <1>2, <1>5, QuietThen
<1> QED
  BY <1>3, <1>4, <1>5

LEMMA ClearedRow ==
  ASSUME NEW r \in Row, NEW p
  PROVE  /\ Cleared(r, p) \in Row /\ Cleared(r, p).id = r.id /\ Cleared(r, p).game = r.game
         /\ Cleared(r, p).pair = r.pair /\ Cleared(r, p).done = r.done
         /\ Cleared(r, p).winner = r.winner
BY DEF Row, Cleared

LEMMA ClearingKeeps ==
  ASSUME IInv, NEW th \in Threads, ClearLive(th) \/ PurgeRows(th)
  PROVE  IInv'
<1> RowsOK /\ slots \subseteq Players
  BY DEF IInv, Typed
<1>1. CASE ClearLive(th)
  <2> DEFINE p == Now(th).who
  <2>1. /\ Do(th, "unlive") /\ Then(th, <<>>)
        /\ rows' = {Cleared(r, p) : r \in rows}
        /\ UNCHANGED <<nextId, games, matcher, ending, slots>>
    BY <1>1 DEF ClearLive, entry
  <2> HIDE DEF p
  <2>2. \A r \in rows : /\ Cleared(r, p) \in Row /\ Cleared(r, p).id = r.id
                        /\ Cleared(r, p).game = r.game /\ Cleared(r, p).pair = r.pair
                        /\ Cleared(r, p).done = r.done
    BY ClearedRow DEF RowsOK
  <2>3. ASSUME NEW r \in rows'
        PROVE  \E s \in rows : /\ r = Cleared(s, p) /\ r \in Row /\ r.id = s.id
                               /\ r.game = s.game /\ r.pair = s.pair /\ r.done = s.done
    BY <2>1, <2>2
  <2>4. RowsFrom
    BY <2>1, <2>3 DEF RowsFrom
  <2>5. ASSUME NEW r \in rows'
        PROVE  r \in Row /\ r.id < nextId /\ r.game \in DOMAIN games
               /\ r.pair = games[r.game].pair
    BY <2>3 DEF RowsOK
  <2>6. ASSUME NEW r \in rows', NEW s \in rows', r.id = s.id \/ r.game = s.game PROVE r = s
    BY <2>3, <2>6 DEF RowsOK
  <2>7. RowsOK' /\ GamesKept
    BY <2>1, <2>5, <2>6 DEF RowsOK, GamesKept
  <2> QED
    BY <2>1, <2>4, <2>7, EasyThen, EasyLists, MildLists DEF Dooming
<1>2. CASE PurgeRows(th)
  <2>1. /\ Do(th, "purge") /\ Then(th, <<>>)
        /\ rows' \subseteq rows /\ UNCHANGED <<nextId, games, matcher, ending, slots>>
    BY <1>2 DEF PurgeRows, entry
  <2>2. RowsOK' /\ GamesKept /\ RowsFrom
    BY <2>1 DEF RowsOK, GamesKept, RowsFrom
  <2> QED
    BY <2>1, <2>2, EasyThen, EasyLists, MildLists DEF Dooming
<1> QED
  BY <1>1, <1>2

\* What is left of a handler that raised: the end of its lock, and a dropped
\* connection.
LEMMA RaisedKeeps ==
  ASSUME IInv, NEW th \in Threads, NEW M, NEW n \in DOMAIN todo[th], NEW last,
         last = todo[th][n], IsList(M),
         \A i \in DOMAIN M :
           \/ i = 1 /\ M[i] = last /\ last.op \in {"unlock", "ended"}
           \/ M[i] = On("drop", th) /\ th \in Players,
         todo[th][1].op = "record", todo' = [todo EXCEPT ![th] = M],
         UNCHANGED <<rows, nextId, games, matcher, ending, slots>>
  PROVE  IInv'
<1>0. /\ Shape /\ Contents /\ RowsOK /\ Places /\ Locks /\ Elected /\ Disjoint
      /\ Battles /\ DOMAIN games \subseteq DOMAIN games' /\ slots' \subseteq Players
  BY DEF IInv, Typed
<1>1. todo[th][1].op = "record"
  OBVIOUS
<1>2. last = todo[th][n] /\ n \in DOMAIN todo[th]
  OBVIOUS
<1>3. todo' = [todo EXCEPT ![th] = M]
  OBVIOUS
<1>4. /\ IsList(M)
      /\ \A i \in DOMAIN M :
           \/ i = 1 /\ M[i] = last /\ last.op \in {"unlock", "ended"}
           \/ M[i] = On("drop", th) /\ th \in Players
  OBVIOUS
<1>5. Spliced(M, M, <<>>)
  BY <1>4, SpliceNew
<1>6. Shape' /\ todo'[th] = M /\ \A t \in Threads \ {th} : todo'[t] = todo[t]
  BY <1>0, <1>3, <1>5, ShapeStep
<1>7. Fits(last) /\ Points(last) /\ Holds(th, n) /\ n \in DOMAIN todo[th]
      /\ last = todo[th][n]
  BY <1>0, <1>2 DEF Contents, Locks
<1>8. ASSUME NEW i \in DOMAIN M
      PROVE  /\ Fits(M[i]) /\ M[i].op \in {"unlock", "ended", "drop"}
             /\ M[i].op \in {"unlock", "ended"} => i = 1 /\ M[i] = last
  <2>1. th \in Players => Easy(On("drop", th), th) /\ On("drop", th).op = "drop"
    BY EasyStatements DEF Errands, On
  <2> QED
    BY <2>1, <1>4, <1>7 DEF Easy
<1>9. Contents'
  <2>1. \A i \in DOMAIN M : Fits(M[i]) /\ Points(M[i])'
    BY <1>8 DEF Points
  <2> QED
    BY <2>1, <1>0, <1>3, <1>5, ContentsStep
<1>10. Places'
  <2>1. \A i \in DOMAIN M : Placed(M, i)
    BY <1>8 DEF Placed
  <2> QED
    BY <2>1, <1>0, <1>3, <1>5, PlacesStep
<1>11. Undecided' \subseteq Undecided /\ GamesKept
  <2>1. RowsFrom /\ GamesKept
    BY <1>0, SameRows
  <2>2. \A g, id : Doomed(g, id) => Doomed(g, id)'
    BY <1>0, <1>1, <1>3, DoomStays DEF Dooming
  <2> QED
    BY <2>1, <2>2, <1>0, UndecidedShrinks
<1>12. Elected'
  <2>1. \A i \in DOMAIN M : i \in DOMAIN M => Promised(M, i)'
    BY <1>8 DEF Promised
  <2> QED
    BY <2>1, <1>0, <1>3, <1>5, <1>11, ElectedStep
<1>13. ASSUME NEW t \in Threads, NEW i \in DOMAIN todo'[t], todo'[t][i].op = "ended"
       PROVE  \E j \in DOMAIN todo[t] :
                /\ todo'[t][i] = todo[t][j]
                /\ IF t = th THEN i = 1 /\ j = n ELSE i = j
  BY <1>6, <1>7, <1>8, <1>13
<1>14. Locks'
  <2> SUFFICES ASSUME NEW t \in Threads, NEW i \in DOMAIN todo'[t] PROVE Holds(t, i)'
    BY DEF Locks
  <2>1. ASSUME todo'[t][i].op = "ended"
        PROVE  /\ todo'[t][i].game \in ending'
               /\ \A u \in Threads : \A k \in DOMAIN todo'[u] :
                    todo'[u][k].op = "ended" /\ todo'[u][k].game = todo'[t][i].game
                      => u = t /\ k = i
    <3>1. PICK j \in DOMAIN todo[t] : /\ todo'[t][i] = todo[t][j]
                                      /\ IF t = th THEN i = 1 /\ j = n ELSE i = j
      BY <1>13, <2>1
    <3>2. Holds(t, j)
      BY <1>0 DEF Locks
    <3>3. ASSUME NEW u \in Threads, NEW k \in DOMAIN todo'[u], todo'[u][k].op = "ended",
                 todo'[u][k].game = todo'[t][i].game
          PROVE  u = t /\ k = i
      <4>1. PICK m \in DOMAIN todo[u] : /\ todo'[u][k] = todo[u][m]
                                        /\ IF u = th THEN k = 1 /\ m = n ELSE k = m
        BY <1>13, <3>3
      <4>2. u = t /\ m = j
        BY <4>1, <3>1, <3>2, <3>3, <2>1 DEF Holds, EndsAlone
      <4> QED
        BY <4>1, <4>2, <3>1
    <3> QED
      BY <3>1, <3>2, <3>3, <2>1 DEF Holds, EndsAlone
  <2>2. CASE t = th
    <3>1. /\ todo'[t][i].op \in Matching => th \in Players
          /\ todo'[t][i].op = "unlock" =>
               matcher = th /\ \A j \in DOMAIN todo'[t] : todo'[t][j].op = "unlock" => j = i
      BY <2>2, <1>6, <1>7, <1>8 DEF Holds, Matching
    <3> QED
      BY <3>1, <2>1, <2>2 DEF Holds, EndsAlone
  <2>3. CASE t # th
    <3>1. Holds(t, i) /\ todo'[t] = todo[t]
      BY <2>3, <1>0, <1>6 DEF Locks
    <3> QED
      BY <3>1, <2>1 DEF Holds, EndsAlone
  <2> QED
    BY <2>2, <2>3
<1>15. Disjoint'
  BY <1>0, <1>11, DisjointStays
<1>16. Battles'
  <2> SUFFICES ASSUME NEW t \in Threads, ~MayEnd(t), NEW i \in DOMAIN todo'[t]
               PROVE  todo'[t][i].op \notin {"endgame", "ended"}
    BY DEF Battles, MayEnd, BattlesEnd
  <2>1. \A j \in DOMAIN todo[t] : todo[t][j].op \notin {"endgame", "ended"}
    BY <1>0 DEF Battles
  <2> QED
    BY <2>1, <1>6, <1>7, <1>8
<1>17. RowsOK' /\ slots' \subseteq Players
  BY <1>0, SameRows
<1>18. Decided'
  <2>1. RowsFrom /\ \A i \in DOMAIN M : Plain(M[i])
    BY <1>0, <1>8, SameRows DEF Plain
  <2> QED
    BY <2>1, <1>3, <1>5, PlainStep
<1> QED
  BY <1>6, <1>9, <1>10, <1>12, <1>14, <1>15, <1>16, <1>17, <1>18 DEF IInv, Typed

\* The connection of a handler that raised is closed; its locks are given back.
LEMMA RecordKeeps ==
  ASSUME IInv, NEW th \in Threads, RecordRun(th)
  PROVE  IInv'
<1>1. /\ Do(th, "record") /\ UNCHANGED <<rows, nextId, games, matcher, ending, slots>>
      /\ Then(th, <<>>) \/ Raise(th)
  BY DEF RecordRun, play, entry
<1>2. slots' \subseteq Players /\ "record" \notin Dooming
  BY <1>1 DEF IInv, Typed, Dooming
<1>3. CASE Then(th, <<>>)
  BY <1>1, <1>2, <1>3, QuietEmpty
<1>4. CASE Raise(th)
  <2> DEFINE L == todo[th]
             n == Len(L)
             last == Last(L)
             kept == IF last.op \in {"unlock", "ended"} THEN <<last>> ELSE <<>>
             drop == IF th \in Players /\ last.op # "ended" THEN <<On("drop", th)>> ELSE <<>>
             M == kept \o drop
  <2>0. /\ Shape /\ Contents /\ RowsOK /\ Places /\ Locks /\ Elected /\ Disjoint
        /\ Battles /\ DOMAIN games \subseteq DOMAIN games'
    BY <1>1 DEF IInv, Typed
  <2>1. L # <<>> /\ IsList(L) /\ L[1].op = "record"
    BY <1>1, Running
  <2>2. n \in DOMAIN L /\ last = L[n]
    BY <2>1, ListFacts DEF Last
  <2>3. todo' = [todo EXCEPT ![th] = M]
    BY <1>4 DEF Raise
  <2>4. /\ IsList(M)
        /\ \A i \in DOMAIN M :
             \/ i = 1 /\ M[i] = last /\ last.op \in {"unlock", "ended"}
             \/ M[i] = On("drop", th) /\ th \in Players
    <3>1. IsList(<<>>) /\ IsList(<<last>>) /\ IsList(<<On("drop", th)>>)
          /\ Len(<<>>) = 0 /\ Len(<<last>>) = 1 /\ Len(<<On("drop", th)>>) = 1
          /\ <<last>>[1] = last /\ <<On("drop", th)>>[1] = On("drop", th)
      BY ShortLists
    <3> HIDE DEF last
    <3>2. /\ IsList(kept) /\ Len(kept) \in {0, 1}
          /\ Len(kept) = 1 => kept[1] = last /\ last.op \in {"unlock", "ended"}
      BY <3>1
    <3>3. /\ IsList(drop) /\ Len(drop) \in {0, 1}
          /\ Len(drop) = 1 => drop[1] = On("drop", th) /\ th \in Players
      BY <3>1
    <3> HIDE DEF kept, drop
    <3>4. /\ IsList(M) /\ Len(M) = Len(kept) + Len(drop)
          /\ \A i \in 1..Len(kept) : M[i] = kept[i]
          /\ \A i \in 1..Len(drop) : M[Len(kept) + i] = drop[i]
      BY <3>2, <3>3, ListConcat
    <3> HIDE DEF M
    <3>5. DOMAIN M = 1..Len(M)
      BY <3>4, ListFacts
    <3>6. ASSUME NEW i \in DOMAIN M
          PROVE  \/ i = 1 /\ M[i] = last /\ last.op \in {"unlock", "ended"}
                 \/ M[i] = On("drop", th) /\ th \in Players
      <4>1. CASE i \in 1..Len(kept)
        BY <4>1, <3>2, <3>4
      <4>2. CASE i \notin 1..Len(kept)
        <5>1. Len(drop) = 1 /\ i = Len(kept) + 1
          BY <4>2, <3>2, <3>3, <3>4, <3>5
        <5> QED
          BY <5>1, <3>3, <3>4
      <4> QED
        BY <4>1, <4>2
    <3> QED
      BY <3>4, <3>6
  <2>5. n \in DOMAIN todo[th] /\ last = todo[th][n] /\ todo[th][1].op = "record"
    BY <2>1, <2>2
  <2> HIDE DEF M, L, n, last, kept, drop
  <2> QED
    BY <2>3, <2>4, <2>5, <1>1, RaisedKeeps
<1> QED
  BY <1>1, <1>3, <1>4

\* A statement that only writes what the matches do not depend on.
LEMMA QuietKeeps ==
  ASSUME IInv, NEW th \in Threads,
         StartRoom(th) \/ SendReward(th) \/ ClearOrphans(th)
  PROVE  IInv'
<1>1. PICK op \in {"start", "mail", "orphans"} :
        /\ Do(th, op) /\ Then(th, <<>>)
        /\ UNCHANGED <<rows, nextId, games, matcher, ending, slots>>
  BY DEF StartRoom, SendReward, ClearOrphans, play, entry
<1>2. slots' \subseteq Players /\ op \notin Dooming
  BY <1>1 DEF IInv, Typed, Dooming
<1> QED
  BY <1>1, <1>2, QuietEmpty

LEMMA LimitKeeps ==
  ASSUME IInv, NEW th \in Threads, CheckLimit(th)
  PROVE  IInv'
<1>1. /\ Do(th, "limit") /\ UNCHANGED <<rows, nextId, games, matcher, ending, slots>>
  BY DEF CheckLimit, db, play, entry
<1>2. slots' \subseteq Players /\ "limit" \notin Dooming
  BY <1>1 DEF IInv, Typed, Dooming
<1>3. Now(th).who \in Players
  BY <1>1, Running DEF Fits, WhoOps
<1> DEFINE S == <<Final(Now(th).who, "completed")>>
<1>4. EasyList(S, th) /\ Mild(S)
  <2>1. Easy(Final(Now(th).who, "completed"), th)
    BY <1>3, EasyStatements
  <2>2. Final(Now(th).who, "completed").op # "forfeit"
    BY DEF Final
  <2> QED
    BY <2>1, <2>2, EasyLists, MildLists
<1>5. Then(th, S) \/ Then(th, <<>>)
  BY DEF CheckLimit
<1> HIDE DEF S
<1> QED
  BY <1>1, <1>2, <1>4, <1>5, QuietThen, QuietEmpty

LEMMA FunIsList ==
  ASSUME NEW n \in Nat, NEW f, f = [i \in 1..n |-> f[i]]
  PROVE  IsList(f) /\ Len(f) = n /\ DOMAIN f = 1..n
<1>1. f \in [1..n -> {f[i] : i \in 1..n}]
  <2>1. \A i \in 1..n : f[i] \in {f[j] : j \in 1..n}
    OBVIOUS
  <2> QED
    BY <2>1
<1>2. f \in Seq({f[i] : i \in 1..n})
  BY <1>1, SeqDef
<1>3. DOMAIN f = 1..n
  BY <1>1
<1> QED
  BY <1>2, <1>3, SeqIsList, LenProperties

\* The order a set is read in.
LEMMA Listed ==
  ASSUME NEW S, IsFiniteSet(S), NEW list \in SetToSeqs(S)
  PROVE  list \in Seq(S) /\ DOMAIN list = 1..Len(list) /\ Len(list) \in Nat
         /\ \A i \in DOMAIN list : list[i] \in S
<1>1. Cardinality(S) \in Nat
  BY FS_CardinalityType
<1>2. list \in [1..Cardinality(S) -> S]
  BY DEF SetToSeqs
<1>3. list \in Seq(S)
  BY <1>1, <1>2, SeqDef
<1> QED
  BY <1>2, <1>3, LenProperties

LEMMA RetireKeeps ==
  ASSUME IInv, NEW th \in Threads, RetireRuns(th)
  PROVE  IInv'
<1>1. /\ Do(th, "retire") /\ UNCHANGED <<rows, nextId, games, matcher, ending, slots>>
  BY DEF RetireRuns, db, play, entry
<1>2. slots' \subseteq Players /\ "retire" \notin Dooming
  BY <1>1 DEF IInv, Typed, Dooming
<1>3. PICK list \in SetToSeqs(Candidates) :
        Then(th, [i \in DOMAIN list |-> On("overdue", list[i])])
  BY DEF RetireRuns
<1>4. IsFiniteSet(Candidates) /\ Candidates \subseteq Players
  BY EventAssumption, FS_Subset DEF Candidates
<1>5. /\ list \in Seq(Candidates) /\ DOMAIN list = 1..Len(list) /\ Len(list) \in Nat
      /\ \A i \in DOMAIN list : list[i] \in Players
  BY <1>4, Listed
<1> DEFINE S == [i \in DOMAIN list |-> On("overdue", list[i])]
<1>6. IsList(S) /\ DOMAIN S = DOMAIN list
  <2>1. S = [i \in 1..Len(list) |-> S[i]]
    BY <1>5
  <2>2. DOMAIN S = DOMAIN list
    OBVIOUS
  <2> HIDE DEF S
  <2> QED
    BY <2>1, <2>2, <1>5, FunIsList
<1>7. ASSUME NEW i \in DOMAIN S PROVE Easy(S[i], th) /\ S[i].op # "forfeit"
  <2>1. S[i] = On("overdue", list[i]) /\ list[i] \in Players
    BY <1>5
  <2>2. "overdue" \in Errands /\ On("overdue", list[i]).op # "forfeit"
    BY DEF Errands, On
  <2> HIDE DEF S
  <2> QED
    BY <2>1, <2>2, EasyStatements
<1>8. Then(th, S)
  BY <1>3
<1> HIDE DEF S
<1>9. EasyList(S, th) /\ Mild(S)
  BY <1>6, <1>7 DEF EasyList, Mild
<1> QED
  BY <1>1, <1>2, <1>8, <1>9, QuietThen

LEMMA OverdueKeeps ==
  ASSUME IInv, NEW th \in Threads, Overdue(th)
  PROVE  IInv'
<1>1. /\ Do(th, "overdue") /\ UNCHANGED <<rows, nextId, games, matcher, ending, slots>>
  BY DEF Overdue, db, play, entry
<1>2. slots' \subseteq Players /\ "overdue" \notin Dooming
  BY <1>1 DEF IInv, Typed, Dooming
<1>3. Now(th).who \in Players
  BY <1>1, Running DEF Fits, WhoOps
<1> DEFINE p == Now(th).who
           Dump(own) == [i \in 1..2 * Len(own) |->
                           IF i % 2 = 1 THEN OnGame("discard", own[(i + 1) \div 2].game)
                           ELSE OnGame("erase", own[i \div 2].game)]
<1>4. CASE Then(th, <<>>)
  BY <1>1, <1>2, <1>4, QuietEmpty
<1>5. CASE \E own \in NewestFirst(Unfinished(p)) : Then(th, Dump(own) \o <<On("limit", p)>>)
  <2>1. PICK own \in NewestFirst(Unfinished(p)) : Then(th, Dump(own) \o <<On("limit", p)>>)
    BY <1>5
  <2>2. IsFiniteSet(Unfinished(p)) /\ own \in SetToSeqs(Unfinished(p))
    <3>1. IsFiniteSet(rows)
      BY RowsFinite DEF IInv, Typed
    <3> QED
      BY <3>1, FS_Subset DEF Unfinished, NewestFirst
  <2>3. 2 * Len(own) \in Nat
    BY <2>2, Listed
  <2> DEFINE D == Dump(own)
  <2>4. IsList(D) /\ DOMAIN D = 1..2 * Len(own)
    <3>1. D = [i \in 1..2 * Len(own) |-> D[i]]
      OBVIOUS
    <3> HIDE DEF D
    <3> QED
      BY <3>1, <2>3, FunIsList
  <2>5. ASSUME NEW i \in DOMAIN D PROVE Easy(D[i], th) /\ D[i].op # "forfeit"
    <3>1. \E g : D[i] = OnGame("discard", g) \/ D[i] = OnGame("erase", g)
      <4>1. D[i] = IF i % 2 = 1 THEN OnGame("discard", own[(i + 1) \div 2].game)
                   ELSE OnGame("erase", own[i \div 2].game)
        BY <2>4
      <4> QED
        BY <4>1
    <3>2. \A g : OnGame("discard", g).op = "discard" /\ OnGame("erase", g).op = "erase"
      BY DEF OnGame
    <3> HIDE DEF D
    <3> QED
      BY <3>1, <3>2, EasyOthers
  <2> HIDE DEF D, Dump
  <2>6. EasyList(D, th) /\ Mild(D)
    BY <2>4, <2>5 DEF EasyList, Mild
  <2>7. EasyList(<<On("limit", p)>>, th) /\ Mild(<<On("limit", p)>>)
    <3>1. Easy(On("limit", p), th)
      BY <1>3, EasyStatements DEF Errands
    <3>2. On("limit", p).op # "forfeit"
      BY DEF On
    <3> QED
      BY <3>1, <3>2, EasyLists, MildLists
  <2> DEFINE S == D \o <<On("limit", p)>>
  <2>8. EasyList(S, th) /\ Mild(S) /\ Then(th, S)
    BY <2>6, <2>7, EasyConcat, <2>1 DEF D
  <2> HIDE DEF S
  <2> QED
    BY <1>1, <1>2, <2>8, QuietThen
<1> QED
  BY <1>4, <1>5 DEF Overdue

LEMMA SearchKeeps ==
  ASSUME IInv, NEW th \in Threads, SearchStep(th)
  PROVE  IInv'
<1>1. /\ Do(th, "search") /\ UNCHANGED <<rows, nextId, games, matcher, ending, slots>>
  BY DEF SearchStep, db, play, entry
<1>2. slots' \subseteq Players /\ "search" \notin Dooming
  BY <1>1 DEF IInv, Typed, Dooming
<1>3. Now(th).who \in Players /\ th \in Players
  BY <1>1, Running DEF Fits, WhoOps, Holds, Matching
<1> DEFINE p == Now(th).who
           queue == <<[op |-> "queue", who |-> p, deck |-> Now(th).deck]>>
           again == <<Async(p, TRUE, TRUE)>>
           Discard(r) == <<OnGame("discard", r.game), OnGame("erase", r.game)>>
<1>4. EasyList(queue, th) /\ Mild(queue)
  BY <1>3, EasyOthers, EasyLists, MildLists
<1>5. EasyList(again, th) /\ Mild(again)
  <2>1. Easy(Async(p, TRUE, TRUE), th)
    BY <1>3, EasyStatements
  <2>2. Async(p, TRUE, TRUE).op # "forfeit"
    BY DEF Async
  <2> QED
    BY <2>1, <2>2, EasyLists, MildLists
<1>6. ASSUME NEW r PROVE EasyList(Discard(r), th) /\ Mild(Discard(r))
  <2>1. \A g : Easy(OnGame("discard", g), th) /\ Easy(OnGame("erase", g), th)
    BY EasyOthers
  <2>2. \A g : OnGame("discard", g).op # "forfeit" /\ OnGame("erase", g).op # "forfeit"
    BY DEF OnGame
  <2> QED
    BY <2>1, <2>2, EasyLists, MildLists
<1>7. \/ Then(th, queue)
      \/ \E r \in Unfinished(p) : Then(th, Discard(r) \o queue)
      \/ Then(th, again \o queue)
  BY DEF SearchStep
<1> HIDE DEF queue, again, Discard
<1>8. CASE Then(th, queue)
  BY <1>1, <1>2, <1>4, <1>8, QuietThen
<1>9. CASE \E r \in Unfinished(p) : Then(th, Discard(r) \o queue)
  <2>1. PICK r \in Unfinished(p) : Then(th, Discard(r) \o queue)
    BY <1>9
  <2>2. EasyList(Discard(r) \o queue, th) /\ Mild(Discard(r) \o queue)
    BY <1>4, <1>6, EasyConcat
  <2> QED
    BY <1>1, <1>2, <2>1, <2>2, QuietThen
<1>10. CASE Then(th, again \o queue)
  <2>1. EasyList(again \o queue, th) /\ Mild(again \o queue)
    BY <1>4, <1>5, EasyConcat
  <2> QED
    BY <1>1, <1>2, <1>10, <2>1, QuietThen
<1> QED
  BY <1>7, <1>8, <1>9, <1>10

LEMMA EnqueueKeeps ==
  ASSUME IInv, NEW th \in Threads, Enqueue(th)
  PROVE  IInv'
<1>1. /\ Do(th, "queue") /\ UNCHANGED <<rows, nextId, games, matcher, ending, slots>>
  BY DEF Enqueue, db, play, entry
<1>2. slots' \subseteq Players /\ "queue" \notin Dooming
  BY <1>1 DEF IInv, Typed, Dooming
<1>3. Now(th).who \in Players /\ th \in Players
  BY <1>1, Running DEF Fits, WhoOps, Holds, Matching
<1> DEFINE p == Now(th).who
           back == IF Active(p) \/ signup[p] = NoSignup THEN <<>>
                   ELSE <<SetStatus(p, "active")>>
           ready == IF signup[p] = NoSignup THEN <<>> ELSE <<Async(p, TRUE, TRUE)>>
           pair == <<[op |-> "pair"]>>
<1>4. EasyList(pair, th) /\ Mild(pair)
  BY <1>3, EasyOthers, EasyLists, MildLists
<1>5. EasyList(ready, th) /\ Mild(ready)
  <2>1. Easy(Async(p, TRUE, TRUE), th)
    BY <1>3, EasyStatements
  <2>2. Async(p, TRUE, TRUE).op # "forfeit"
    BY DEF Async
  <2> QED
    BY <2>1, <2>2, EasyLists, MildLists
<1>6. EasyList(back, th) /\ Mild(back)
  <2>1. Easy(SetStatus(p, "active"), th)
    BY <1>3, EasyStatements
  <2>2. SetStatus(p, "active").op # "forfeit"
    BY DEF SetStatus
  <2> QED
    BY <2>1, <2>2, EasyLists, MildLists
<1>7. Then(th, <<>>) \/ Then(th, back \o ready \o pair)
  BY DEF Enqueue
<1> HIDE DEF back, ready, pair
<1>8. EasyList(back \o ready, th) /\ Mild(back \o ready)
  BY <1>5, <1>6, EasyConcat
<1>9. EasyList((back \o ready) \o pair, th) /\ Mild((back \o ready) \o pair)
  BY <1>4, <1>8, EasyConcat
<1>10. CASE Then(th, <<>>)
  BY <1>1, <1>2, <1>10, QuietEmpty
<1>11. CASE Then(th, back \o ready \o pair)
  BY <1>1, <1>2, <1>9, <1>11, QuietThen
<1> QED
  BY <1>7, <1>10, <1>11

\* The end of a battle is asked for.
LEMMA BattleBegins ==
  ASSUME IInv, NEW th \in Threads, Idle(th), MayEnd(th), NEW g \in DOMAIN games, NEW p,
         todo' = [todo EXCEPT ![th] = <<[op |-> "endgame", game |-> g, loser |-> p]>>],
         UNCHANGED <<rows, nextId, games, matcher, ending, slots>>
  PROVE  IInv'
<1> DEFINE s == [op |-> "endgame", game |-> g, loser |-> p]
           S == <<s>>
<1>1. RowsOK' /\ GamesKept /\ RowsFrom /\ slots' \subseteq Players /\ Shape /\ RowsOK
  BY SameRows DEF IInv, Typed
<1>2. IsList(S) /\ DOMAIN S = 1..1 /\ S[1] = s /\ Len(S) = 1
  BY ShortLists, ListFacts
<1>3. Fits(s) /\ Points(s)' /\ Tame(s, th) /\ s.op = "endgame"
  BY DEF Fits, Points, Tame, WhoOps, Matching
<1> HIDE DEF s, S
<1>4. Spliced(S, S, <<>>) /\ todo[th] = <<>>
  BY <1>2, SpliceNew DEF Idle
<1>5. \A i \in DOMAIN S : Placed(S, i) /\ Promised(S, i)'
  BY <1>2, <1>3 DEF Placed, Promised
<1>6. todo' = [todo EXCEPT ![th] = S]
  BY DEF S, s
<1>7. Undecided' \subseteq Undecided
  BY <1>1, <1>4, <1>6, DoomStays, UndecidedShrinks
<1>8. \A i \in DOMAIN S : Fits(S[i]) /\ Points(S[i])' /\ Tame(S[i], th)
  BY <1>2, <1>3
<1>9. Decided'
  <2>1. \A i \in DOMAIN S : Plain(S[i])
    BY <1>2, <1>3 DEF Plain
  <2> QED
    BY <2>1, <1>1, <1>4, <1>6, PlainStep
<1> QED
  BY <1>1, <1>4, <1>5, <1>6, <1>7, <1>8, <1>9, AnyStep

LEMMA ConcedeKeeps ==
  ASSUME IInv, NEW p \in Players, Concede(p)
  PROVE  IInv'
<1> DEFINE g == CHOOSE x \in GamesOf(p) : \A y \in GamesOf(p) : y <= x
<1>1. GamesOf(p) # {} /\ GamesOf(p) \subseteq DOMAIN games
  BY DEF Concede, GamesOf
<1>2. games \in Seq(GameType) /\ DOMAIN games = 1..Len(games) /\ Len(games) \in Nat
  BY LenProperties DEF IInv, Typed, RowsOK
<1>3. g \in DOMAIN games
  <2>1. \A i \in GamesOf(p) : i \in Nat /\ i < Len(games) + 1
    BY <1>1, <1>2
  <2>2. \E i \in GamesOf(p) : \A j \in GamesOf(p) : j <= i
    BY <1>1, <1>2, <2>1, NewestExists
  <2> QED
    BY <1>1, <2>2
<1> HIDE DEF g
<1>4. Begin(p, "concede", <<[op |-> "endgame", game |-> g, loser |-> p]>>)
      /\ UNCHANGED <<rows, nextId, games, matcher, ending, slots>>
  BY DEF Concede, g, db, play, entry
<1>5. p \in Threads /\ p # "scheduler"
  BY EventAssumption DEF Threads
<1> QED
  BY <1>3, <1>4, <1>5, BattleBegins DEF Begin, MayBegin, MayEnd, BattlesEnd

LEMMA TimeoutKeeps ==
  ASSUME IInv, NEW g \in DOMAIN games, NEW p \in Players, Timeout(g, p)
  PROVE  IInv'
<1>1. Begin("watchdog", "timeout", <<[op |-> "endgame", game |-> g, loser |-> p]>>)
      /\ UNCHANGED <<rows, nextId, games, matcher, ending, slots>>
  BY DEF Timeout, db, play, entry
<1>2. "watchdog" \in Threads
  BY DEF Threads
<1> QED
  BY <1>1, <1>2, BattleBegins DEF Begin, MayBegin, MayEnd, BattlesEnd

LEMMA ClientKeeps ==
  ASSUME IInv, NEW p \in Players,
         \/ Enter(p) \/ Reconnect(p) \/ SaveDeck(p) \/ Search(p) \/ CancelSearch(p)
         \/ Leave(p) \/ Disconnect(p)
  PROVE  IInv'
<1>0. UNCHANGED <<rows, nextId, games, matcher, ending, slots>> /\ p \in Threads
  BY DEF Enter, Reconnect, SaveDeck, Search, CancelSearch, Leave, Disconnect, db, play,
         entry, Threads
<1>1. ASSUME NEW kind, NEW S, Begin(p, kind, S), EasyList(S, p), NoForfeits => Mild(S)
      PROVE  IInv'
  BY <1>0, <1>1, EasyBegin DEF Begin, MayBegin
<1>2. \A op \in Errands : Easy(On(op, p), p)
  BY EasyStatements
<1>3. CASE Enter(p)
  <2>1. Easy(On("join", p), p) /\ Easy(On("register", p), p) /\ Easy(On("seed", p), p)
    BY <1>2 DEF Errands
  <2>2. /\ EasyList(<<On("join", p), On("register", p), On("seed", p)>>, p)
        /\ Mild(<<On("join", p), On("register", p), On("seed", p)>>)
    BY <2>1, EasyLists, MildLists DEF On
  <2> QED
    BY <2>2, <1>1, <1>3 DEF Enter
<1>4. CASE Reconnect(p)
  <2> DEFINE new == IF signup[p] = NoSignup THEN <<On("join", p)>> ELSE <<>>
             revive == <<On("revive", p)>>
  <2>1. EasyList(new, p) /\ EasyList(revive, p) /\ Mild(new) /\ Mild(revive)
    <3>1. Easy(On("join", p), p) /\ Easy(On("revive", p), p)
      BY <1>2 DEF Errands
    <3>2. EasyList(new, p) /\ EasyList(revive, p)
      BY <3>1, EasyLists
    <3>3. Mild(new) /\ Mild(revive)
      BY MildLists DEF On
    <3> QED
      BY <3>2, <3>3
  <2>2. Begin(p, "reconnect", new \o revive)
    BY <1>4 DEF Reconnect
  <2> HIDE DEF new, revive
  <2>3. EasyList(new \o revive, p) /\ Mild(new \o revive)
    BY <2>1, EasyConcat
  <2> QED
    BY <2>2, <2>3, <1>1
<1>5. CASE SaveDeck(p)
  <2>1. Easy(On("unpool", p), p) /\ Easy(On("fill", p), p) /\ Easy(Async(p, TRUE, FALSE), p)
    BY <1>2, EasyStatements DEF Errands
  <2>2. /\ EasyList(<<On("unpool", p), On("fill", p), Async(p, TRUE, FALSE)>>, p)
        /\ Mild(<<On("unpool", p), On("fill", p), Async(p, TRUE, FALSE)>>)
    BY <2>1, EasyLists, MildLists DEF On, Async
  <2> QED
    BY <2>2, <1>1, <1>5 DEF SaveDeck
<1>6. CASE Search(p)
  <2>1. /\ EasyList(<<[op |-> "search", who |-> p, deck |-> pool[p]]>>, p)
        /\ Mild(<<[op |-> "search", who |-> p, deck |-> pool[p]]>>)
    BY EasyOthers, EasyLists, MildLists
  <2> QED
    BY <2>1, <1>1, <1>6 DEF Search
<1>7. CASE CancelSearch(p)
  <2>1. EasyList(<<On("cancel", p)>>, p) /\ Mild(<<On("cancel", p)>>)
    BY <1>2, EasyLists, MildLists DEF Errands, On
  <2> QED
    BY <2>1, <1>1, <1>7 DEF CancelSearch
<1>8. CASE Leave(p)
  <2>1. EasyList(<<Forfeit(p, p)>>, p)
    BY EasyStatements, EasyLists
  <2>2. ~NoForfeits
    BY <1>8 DEF Leave, Begin, NoForfeits
  <2> QED
    BY <2>1, <2>2, <1>1, <1>8 DEF Leave
<1>9. CASE Disconnect(p)
  <2>1. EasyList(<<On("drop", p)>>, p) /\ Mild(<<On("drop", p)>>)
    BY <1>2, EasyLists, MildLists DEF Errands, On
  <2> QED
    BY <2>1, <1>1, <1>9 DEF Disconnect
<1> QED
  BY <1>3, <1>4, <1>5, <1>6, <1>7, <1>8, <1>9

LEMMA SweepKeeps ==
  ASSUME IInv, Sweep
  PROVE  IInv'
<1>1. PICK list \in SetToSeqs(StaleRows), loser \in [StaleRows -> Players] :
        /\ Idle("scheduler")
        /\ todo' = [todo EXCEPT !["scheduler"] =
                      [i \in DOMAIN list |-> Forfeit(loser[list[i]], NoOne)]
                        \o <<[op |-> "retire"]>>]
  BY DEF Sweep
<1>2. UNCHANGED <<rows, nextId, games, matcher, ending, slots>> /\ "scheduler" \in Threads
  BY DEF Sweep, db, play, entry, Threads
<1>3. IsFiniteSet(StaleRows)
  <2>1. IsFiniteSet(rows)
    BY RowsFinite DEF IInv, Typed
  <2> QED
    BY <2>1, FS_Subset DEF StaleRows
<1>4. DOMAIN list = 1..Len(list) /\ Len(list) \in Nat /\ \A i \in DOMAIN list : list[i] \in StaleRows
  BY <1>3, Listed
<1> DEFINE F == [i \in DOMAIN list |-> Forfeit(loser[list[i]], NoOne)]
           R == <<[op |-> "retire"]>>
<1>5. F = [i \in 1..Len(list) |-> F[i]] /\ DOMAIN F = 1..Len(list)
  BY <1>4
<1>6. ASSUME NEW i \in DOMAIN F PROVE Easy(F[i], "scheduler")
  <2>1. F[i] = Forfeit(loser[list[i]], NoOne) /\ loser[list[i]] \in Players
    BY <1>4
  <2> HIDE DEF F
  <2> QED
    BY <2>1, EasyStatements
<1>7. EasyList(R, "scheduler")
  BY EasyOthers, EasyLists
<1>8. todo' = [todo EXCEPT !["scheduler"] = F \o R]
  BY <1>1
<1> HIDE DEF F, R
<1>9. IsList(F)
  BY <1>4, <1>5, FunIsList
<1>10. EasyList(F, "scheduler")
  BY <1>6, <1>9 DEF EasyList
<1>11. EasyList(F \o R, "scheduler")
  BY <1>7, <1>10, EasyConcat
<1>12. ~NoForfeits
  BY DEF Sweep, NoForfeits
<1> QED
  BY <1>1, <1>2, <1>8, <1>11, <1>12, EasyBegin

LEMMA RequestKeeps ==
  ASSUME IInv, Request
  PROVE  IInv'
BY ClientKeeps, ConcedeKeeps, TimeoutKeeps, SweepKeeps DEF Request

\* A step of a thread whose statements have a place, take no lock and bring no
\* match that is to be decided.
LEMMA PlacedThen ==
  ASSUME IInv, NEW th \in Threads, NEW op, Do(th, op), op # "insert",
         NEW S, IsList(S), NEW M, M = S \o Tail(todo[th]), Then(th, S),
         \A i \in DOMAIN S : /\ Fits(S[i]) /\ Points(S[i])' /\ Tame(S[i], th)
                             /\ i \in DOMAIN M => Placed(M, i) /\ Promised(M, i)',
         Undecided' \subseteq Undecided, matcher' = matcher, ending' = ending,
         Decided', GamesKept, RowsOK', slots' \subseteq Players
  PROVE  IInv'
<1>1. todo[th] # <<>> /\ IsList(todo[th]) /\ todo[th][1].op = op
  BY Running
<1>2. Spliced(M, S, todo[th])
  BY <1>1, Splice
<1>3. todo' = [todo EXCEPT ![th] = M]
  BY DEF Then
<1>4. \A i \in DOMAIN todo[th] : Placed(todo[th], i)
  BY DEF IInv, Places
<1>5. DOMAIN S = 1..Len(S) /\ \A i \in DOMAIN S : S[i].op # "ended"
  BY ListFacts DEF Tame
<1>6. \A i \in DOMAIN M : Placed(M, i)
  BY <1>1, <1>2, <1>4, <1>5, PlacedTail
<1> QED
  BY <1>2, <1>3, <1>6, AnyStep

\* Nothing new is to be decided when no match and no ending is touched.
LEMMA UndecidedSame ==
  ASSUME IInv, NEW th \in Threads, NEW op, Do(th, op), op \notin Dooming, NEW S, Then(th, S),
         GamesKept, RowsFrom
  PROVE  Undecided' \subseteq Undecided
<1> DEFINE M == S \o Tail(todo[th])
<1>1. todo' = [todo EXCEPT ![th] = M] /\ todo[th][1].op = op
  BY Running DEF Then
<1> HIDE DEF M
<1> QED
  BY <1>1, DoomStays, UndecidedShrinks DEF IInv, Typed

LEMMA PlainThen ==
  ASSUME IInv, NEW th \in Threads, NEW op, Do(th, op), NEW S, IsList(S), Then(th, S),
         RowsFrom, NoForfeits => \A i \in DOMAIN S : Plain(S[i])
  PROVE  Decided'
<1> DEFINE M == S \o Tail(todo[th])
<1>1. todo[th] # <<>> /\ IsList(todo[th]) /\ todo' = [todo EXCEPT ![th] = M]
  BY Running DEF Then
<1>2. Spliced(M, S, todo[th])
  BY <1>1, Splice
<1> HIDE DEF M
<1> QED
  BY <1>1, <1>2, PlainStep

\* Who is read from the head of the list of the ready joins the fit.
LEMMA ElectKeeps ==
  ASSUME IInv, NEW th \in Threads, Elect(th)
  PROVE  IInv'
<1> DEFINE s == Now(th)
           L == todo[th]
           p == Head(s.list)
           more(fit) == [op |-> "elect", list |-> Tail(s.list), fit |-> fit]
<1>1. /\ Do(th, "elect") /\ UNCHANGED <<rows, nextId, games, matcher, ending, slots>>
      /\ RowsOK' /\ GamesKept /\ RowsFrom /\ slots' \subseteq Players
  <2>1. Do(th, "elect") /\ UNCHANGED <<rows, nextId, games, matcher, ending, slots>>
    BY DEF Elect, db, play, entry
  <2> QED
    BY <2>1, SameRows DEF IInv, Typed
<1>2. /\ L # <<>> /\ IsList(L) /\ s = L[1] /\ L[1].op = "elect"
      /\ 2 \in DOMAIN L /\ L[2].op = "unlock" /\ th \in Players
      /\ \A j \in DOMAIN L : L[j].op # "ended" \/ L[1].op # "forfeit"
  BY <1>1, Running DEF Placed, Holds, Matching
<1>3. /\ s.list \in Seq(Players) /\ s.fit \in Seq(Players)
      /\ \A q \in Range(s.list) \cup Range(s.fit) : Free(q)
  BY <1>1, Running DEF Fits, Promised
<1>4. ASSUME NEW S, Then(th, S) PROVE \A q : Free(q) => Free(q)'
  <2>1. Undecided' \subseteq Undecided
    BY <1>1, <1>4, UndecidedSame DEF Dooming
  <2> QED
    BY <2>1, <1>1, FreeStays
<1>5. ASSUME NEW S, IsList(S), Then(th, S),
             \A i \in DOMAIN S :
               /\ Fits(S[i]) /\ S[i].op \in {"limit", "cancel", "elect", "game"}
               /\ S[i].op \in {"elect", "game"} => i = Len(S)
               /\ S[i].op = "elect" => \A q \in Range(S[i].list) \cup Range(S[i].fit) : Free(q)
               /\ S[i].op = "game" => \A q \in Range(S[i].pair) : Free(q)
      PROVE  IInv'
  <2>0. PICK M : M = S \o Tail(L)
    OBVIOUS
  <2>1. /\ \A i \in DOMAIN S : i \in DOMAIN M /\ M[i] = S[i]
        /\ Len(S) + 1 \in DOMAIN M /\ M[Len(S) + 1] = L[2]
    <3>1. Spliced(M, S, L)
      BY <1>2, <1>5, <2>0, Splice
    <3> QED
      BY <1>2, <3>1, NewFirst
  <2> HIDE DEF s
  <2>2. ASSUME NEW i \in DOMAIN S
        PROVE  Points(S[i])' /\ Tame(S[i], th) /\ Placed(M, i) /\ Promised(M, i)'
    <3>1. M[i] = S[i] /\ S[i].op \in {"limit", "cancel", "elect", "game"}
      BY <1>5, <2>1
    <3>2. Points(S[i])' /\ Tame(S[i], th)
      BY <3>1, <1>2 DEF Points, Tame
    <3>3. Placed(M, i)
      BY <3>1, <1>2, <1>5, <2>1 DEF Placed
    <3>4. Promised(M, i)'
      BY <3>1, <1>4, <1>5 DEF Promised
    <3> QED
      BY <3>2, <3>3, <3>4
  <2>3. Undecided' \subseteq Undecided /\ "elect" # "insert"
    BY <1>1, <1>5, UndecidedSame DEF Dooming
  <2>4. \A i \in DOMAIN S : /\ Fits(S[i]) /\ Points(S[i])' /\ Tame(S[i], th)
                            /\ i \in DOMAIN M => Placed(M, i) /\ Promised(M, i)'
    BY <1>5, <2>2
  <2>5. IsList(S) /\ Then(th, S) /\ M = S \o Tail(todo[th])
    BY <1>5, <2>0
  <2>6. Decided'
    <3>1. \A i \in DOMAIN S : Plain(S[i])
      BY <1>5 DEF Plain
    <3> QED
      BY <3>1, <1>1, <2>5, PlainThen
  <2> QED
    BY <1>1, <2>3, <2>4, <2>5, <2>6, PlacedThen
<1>6. ASSUME s.list # <<>>
      PROVE  /\ p \in Players /\ p \in Range(s.list) /\ Tail(s.list) \in Seq(Players)
             /\ Range(Tail(s.list)) \subseteq Range(s.list)
             /\ Append(s.fit, p) \in Seq(Players)
             /\ Range(Append(s.fit, p)) = Range(s.fit) \cup {p}
  <2> HIDE DEF s
  <2>1. /\ p \in Players /\ Len(s.list) \in Nat \ {0} /\ p = s.list[1]
        /\ DOMAIN s.list = 1..Len(s.list)
    BY <1>3, <1>6, LenProperties, EmptySeq
  <2>2. /\ Tail(s.list) \in Seq(Players)
        /\ \A i \in DOMAIN Tail(s.list) : i + 1 \in DOMAIN s.list /\ Tail(s.list)[i] = s.list[i + 1]
    <3>1. /\ Tail(s.list) \in Seq(Players) /\ Len(Tail(s.list)) = Len(s.list) - 1
          /\ \A i \in 1..Len(Tail(s.list)) : Tail(s.list)[i] = s.list[i + 1]
      BY <1>3, <1>6, HeadTailProperties
    <3>2. DOMAIN Tail(s.list) = 1..Len(Tail(s.list))
      BY <3>1, LenProperties
    <3> QED
      BY <3>1, <3>2, <2>1
  <2>3. Range(Tail(s.list)) \subseteq Range(s.list) /\ p \in Range(s.list)
    BY <2>1, <2>2 DEF Range
  <2>4. /\ Append(s.fit, p) \in Seq(Players) /\ Len(Append(s.fit, p)) = Len(s.fit) + 1
        /\ \A i \in 1..Len(s.fit) : Append(s.fit, p)[i] = s.fit[i]
        /\ Append(s.fit, p)[Len(s.fit) + 1] = p
    BY <1>3, <2>1, AppendProperties
  <2>5. /\ DOMAIN Append(s.fit, p) = 1..Len(s.fit) + 1 /\ DOMAIN s.fit = 1..Len(s.fit)
        /\ Len(s.fit) \in Nat
    BY <1>3, <2>4, LenProperties
  <2>6. Range(Append(s.fit, p)) = Range(s.fit) \cup {p}
    BY <2>4, <2>5 DEF Range
  <2> QED
    BY <2>1, <2>2, <2>3, <2>4, <2>6
<1> HIDE DEF s
<1>7. ASSUME NEW fit \in Seq(Players), s.list # <<>>, \A q \in Range(fit) : Free(q)
      PROVE  /\ more(fit).op = "elect" /\ Fits(more(fit))
             /\ \A q \in Range(more(fit).list) \cup Range(more(fit).fit) : Free(q)
  <2>1. Fits(more(fit))
    BY <1>6, <1>7 DEF Fits, WhoOps
  <2> QED
    BY <2>1, <1>3, <1>6, <1>7
<1>8. ASSUME NEW q \in Players
      PROVE  Fits(On("limit", q)) /\ Fits(On("cancel", q))
             /\ On("limit", q).op = "limit" /\ On("cancel", q).op = "cancel"
  BY DEF Fits, On, WhoOps
<1>9. CASE s.list # <<>> /\ AtLimit(p) /\ Then(th, <<On("limit", p), more(s.fit)>>)
  <2> DEFINE a == On("limit", p)
             b == more(s.fit)
  <2>1. Fits(a) /\ a.op = "limit"
    BY <1>6, <1>8, <1>9
  <2>2. b.op = "elect" /\ Fits(b) /\ \A q \in Range(b.list) \cup Range(b.fit) : Free(q)
    BY <1>3, <1>7, <1>9
  <2> HIDE DEF a, b
  <2>3. /\ IsList(<<a, b>>) /\ DOMAIN <<a, b>> = 1..2 /\ Len(<<a, b>>) = 2
        /\ <<a, b>>[1] = a /\ <<a, b>>[2] = b
    BY ShortLists, ListFacts
  <2>4. \A i \in 1..2 : i = 1 \/ i = 2
    OBVIOUS
  <2>5. Then(th, <<a, b>>)
    BY <1>9 DEF a, b
  <2> QED
    BY <1>5, <2>1, <2>2, <2>3, <2>4, <2>5
<1>10. CASE s.list # <<>> /\ Then(th, <<more(Append(s.fit, p))>>)
  <2> DEFINE b == more(Append(s.fit, p))
  <2>1. b.op = "elect" /\ Fits(b) /\ \A q \in Range(b.list) \cup Range(b.fit) : Free(q)
    BY <1>3, <1>6, <1>7, <1>10
  <2> HIDE DEF b
  <2>2. IsList(<<b>>) /\ DOMAIN <<b>> = 1..1 /\ Len(<<b>>) = 1 /\ <<b>>[1] = b
    BY ShortLists, ListFacts
  <2>3. Then(th, <<b>>) /\ \A i \in 1..1 : i = 1
    BY <1>10 DEF b
  <2> QED
    BY <1>5, <2>1, <2>2, <2>3
<1>11. CASE Enough(s.fit) /\ Then(th, <<On("cancel", s.fit[1]), On("cancel", s.fit[2]),
                                        [op |-> "game", pair |-> <<s.fit[1], s.fit[2]>>]>>)
  <2> DEFINE a == On("cancel", s.fit[1])
             b == On("cancel", s.fit[2])
             pair == <<s.fit[1], s.fit[2]>>
             c == [op |-> "game", pair |-> pair]
  <2>1. /\ s.fit[1] \in Players /\ s.fit[2] \in Players
        /\ s.fit[1] \in Range(s.fit) /\ s.fit[2] \in Range(s.fit)
    <3>1. 1 \in DOMAIN s.fit /\ 2 \in DOMAIN s.fit
      BY <1>3, <1>11, LenProperties DEF Enough
    <3> QED
      BY <3>1, <1>3 DEF Range
  <2>2. Fits(a) /\ a.op = "cancel" /\ Fits(b) /\ b.op = "cancel"
    BY <2>1, <1>8
  <2>3. c.op = "game" /\ Fits(c) /\ \A q \in Range(c.pair) : Free(q)
    <3>1. Range(pair) = {s.fit[1], s.fit[2]}
      BY DEF Range
    <3>2. Fits(c)
      BY <2>1 DEF Fits, WhoOps
    <3> QED
      BY <3>1, <3>2, <2>1, <1>3
  <2> HIDE DEF a, b, c
  <2>4. /\ IsList(<<a, b, c>>) /\ DOMAIN <<a, b, c>> = 1..3 /\ Len(<<a, b, c>>) = 3
        /\ <<a, b, c>>[1] = a /\ <<a, b, c>>[2] = b /\ <<a, b, c>>[3] = c
    BY ShortLists, ListFacts
  <2>5. \A i \in 1..3 : i = 1 \/ i = 2 \/ i = 3
    OBVIOUS
  <2>6. Then(th, <<a, b, c>>)
    BY <1>11 DEF a, b, c
  <2> QED
    BY <1>5, <2>2, <2>3, <2>4, <2>5, <2>6
<1>12. CASE Then(th, <<>>)
  BY <1>1, <1>12, QuietEmpty DEF Dooming
<1> QED
  BY <1>9, <1>10, <1>11, <1>12 DEF Elect, s

LEMMA PairFacts ==
  ASSUME NEW pair \in Players \X Players
  PROVE  /\ pair[1] \in Players /\ pair[2] \in Players /\ Range(pair) = {pair[1], pair[2]}
         /\ \A p : Other(pair, p) \in Players
BY DEF Range, Other

LEMMA QuitIsEasy ==
  ASSUME NEW q \in Players \cup {NoOne}, NEW th
  PROVE  EasyList(Quit(q), th) /\ Mild(Quit(q))
<1>1. CASE q = NoOne
  BY <1>1, EasyLists, MildLists DEF Quit
<1>2. CASE q # NoOne
  <2>1. Easy(Final(q, "quit"), th)
    BY <1>2, EasyStatements
  <2>2. Final(q, "quit").op # "forfeit"
    BY DEF Final
  <2> QED
    BY <1>2, <2>1, <2>2, EasyLists, MildLists DEF Quit
<1> QED
  BY <1>1, <1>2

\* A forfeit goes on with the result of a match that is nobody's to end.
LEMMA ForfeitKeeps ==
  ASSUME IInv, NEW th \in Threads, ForfeitStep(th)
  PROVE  IInv'
<1> DEFINE p == Now(th).who
           q == Now(th).quitter
           r == CurrentRow(p)
           L == todo[th]
<1>1. /\ Do(th, "forfeit") /\ UNCHANGED <<rows, nextId, games, matcher, ending, slots>>
      /\ RowsOK' /\ GamesKept /\ RowsFrom /\ slots' \subseteq Players
  <2>1. Do(th, "forfeit") /\ UNCHANGED <<rows, nextId, games, matcher, ending, slots>>
    BY DEF ForfeitStep, db, play, entry
  <2> QED
    BY <2>1, SameRows DEF IInv, Typed
<1>2. /\ p \in Players /\ q \in Players \cup {NoOne} /\ L # <<>> /\ IsList(L)
      /\ \A j \in DOMAIN L : L[j].op # "ended"
  <2>1. Fits(Now(th)) /\ Now(th).op = "forfeit" /\ Now(th) = L[1] /\ Placed(L, 1)
        /\ L # <<>> /\ IsList(L)
    BY <1>1, Running
  <2> QED
    BY <2>1 DEF Fits, WhoOps, Placed
<1>3. CASE Then(th, Quit(q))
  BY <1>1, <1>2, <1>3, QuitIsEasy, QuietThen DEF Dooming
<1>4. CASE Unfinished(p) # {} /\ Then(th, <<Result(r.game, Other(r.pair, p), r.pair, q)>>)
  <2>1. r \in rows
    BY <1>4, CurrentRowExists DEF IInv, Typed, Unfinished
  <2> HIDE DEF r
  <2>2. r.pair \in Players \X Players
    BY <2>1 DEF IInv, Typed, RowsOK, Row
  <2>3. PICK a : a = Result(r.game, Other(r.pair, p), r.pair, q)
    OBVIOUS
  <2>4. Fits(a) /\ Points(a)' /\ Tame(a, th) /\ a.op = "result"
    BY <1>2, <2>2, <2>3, PairFacts DEF Fits, Points, Tame, Result, WhoOps, Matching
  <2>5. PICK S : S = <<a>>
    OBVIOUS
  <2>6. IsList(S) /\ DOMAIN S = 1..1 /\ S[1] = a /\ Then(th, S) /\ \A i \in 1..1 : i = 1
    BY <1>4, <2>3, <2>5, ShortLists, ListFacts
  <2>7. PICK M : M = S \o Tail(L)
    OBVIOUS
  <2>8. Spliced(M, S, L)
    BY <1>2, <2>6, <2>7, Splice
  <2>9. /\ \A i \in DOMAIN S : i \in DOMAIN M /\ M[i] = S[i]
        /\ \A i \in DOMAIN M : i \in DOMAIN S \/ \E j \in DOMAIN L : j # 1 /\ M[i] = L[j]
    <3>1. L # <<>>
      BY <1>2
    <3>2. \A i \in DOMAIN S : i \in DOMAIN M /\ M[i] = S[i]
      BY <3>1, <2>8, NewFirst
    <3>3. \A i \in DOMAIN M : i \in DOMAIN S \/ \E j \in DOMAIN L : j # 1 /\ M[i] = L[j]
      BY <3>1, <2>8, OldRest
    <3> QED
      BY <3>2, <3>3
  <2> HIDE DEF L, p, q
  <2>10. M[1] = a /\ \A j \in DOMAIN M : M[j].op # "ended"
    BY <1>2, <2>4, <2>6, <2>9
  <2>11. Placed(M, 1) /\ Promised(M, 1)'
    BY <2>4, <2>10 DEF Placed, Promised
  <2>12. Undecided' \subseteq Undecided
    BY <1>1, <2>6, UndecidedSame DEF Dooming
  <2>13. \A i \in DOMAIN S : /\ Fits(S[i]) /\ Points(S[i])' /\ Tame(S[i], th)
                             /\ i \in DOMAIN M => Placed(M, i) /\ Promised(M, i)'
    BY <2>4, <2>6, <2>11
  <2>14. M = S \o Tail(todo[th])
    BY <2>7 DEF L
  <2>15. Decided'
    <3>1. ~NoForfeits
      BY <1>1, Running DEF IInv, Decided, Sound
    <3> QED
      BY <3>1 DEF Decided
  <2> QED
    BY <1>1, <2>6, <2>12, <2>13, <2>14, <2>15, PlacedThen
<1> QED
  BY <1>3, <1>4 DEF ForfeitStep

LEMMA AfterIsEasy ==
  ASSUME NEW pair \in Players \X Players, NEW th
  PROVE  EasyList(AfterResult(pair), th) /\ Mild(AfterResult(pair))
<1> DEFINE a == On("limit", pair[1])
           b == On("limit", pair[2])
           c == [op |-> "start"]
           d == On("return", pair[1])
           e == On("return", pair[2])
<1>1. Easy(a, th) /\ Easy(b, th) /\ Easy(d, th) /\ Easy(e, th)
  BY PairFacts, EasyStatements DEF Errands
<1>2. Easy(c, th)
  BY EasyOthers
<1>3. "forfeit" \notin {a.op, b.op, c.op, d.op, e.op}
  BY DEF On
<1> HIDE DEF a, b, c, d, e
<1>4. EasyList(<<a, b, c, d, e>>, th) /\ Mild(<<a, b, c, d, e>>)
  BY <1>1, <1>2, <1>3, EasyFive
<1> QED
  BY <1>4 DEF AfterResult, a, b, c, d, e

\* The result of a game that is being ended goes on to its row.
LEMMA ResultKeeps ==
  ASSUME IInv, NEW th \in Threads, ReadResult(th)
  PROVE  IInv'
<1> DEFINE s == Now(th)
           L == todo[th]
           its == {r \in rows : r.game = s.game}
           after == AfterResult(s.pair)
           Close(r) == [op |-> "complete", id |-> r.id, winner |-> s.winner]
<1>1. /\ Do(th, "result") /\ UNCHANGED <<rows, nextId, games, matcher, ending, slots>>
      /\ RowsOK' /\ GamesKept /\ RowsFrom /\ slots' \subseteq Players /\ RowsOK
  <2>1. Do(th, "result") /\ UNCHANGED <<rows, nextId, games, matcher, ending, slots>>
    BY DEF ReadResult, db, play, entry
  <2> QED
    BY <2>1, SameRows DEF IInv, Typed
<1>2. /\ s.pair \in Players \X Players /\ s.winner \in Players
      /\ s.quitter \in Players \cup {NoOne} /\ L # <<>> /\ IsList(L) /\ L[1] = s
      /\ L[1].op = "result" /\ \A j \in DOMAIN L : L[j].op = "ended" => L[j].game = s.game
  <2>1. Fits(s) /\ s.op = "result" /\ s = L[1] /\ Placed(L, 1) /\ L # <<>> /\ IsList(L)
    BY <1>1, Running
  <2> QED
    BY <2>1 DEF Fits, Placed
<1>3. EasyList(after, th) /\ Mild(after)
  BY <1>2, AfterIsEasy
<1>4. PICK S :
        /\ Then(th, S) /\ IsList(S)
        /\ \/ EasyList(S, th) /\ Mild(S) /\ \A r \in its : ~Open(r) /\ \E x \in its : TRUE
           \/ EasyList(S, th) /\ Mild(S) /\ its = {}
           \/ \E r \in its : /\ Open(r) /\ 1 \in DOMAIN S /\ S[1] = Close(r)
                             /\ \A i \in DOMAIN S : i # 1 => Easy(S[i], th) /\ S[i].op # "forfeit"
  <2>1. CASE its = {} /\ Then(th, Quit(s.quitter))
    BY <1>2, <2>1, QuitIsEasy DEF EasyList
  <2>2. CASE \E r \in its : ~Open(r) /\ Then(th, <<>> \o after)
    <3>1. PICK r \in its : ~Open(r) /\ Then(th, <<>> \o after)
      BY <2>2
    <3>2. EasyList(<<>> \o after, th) /\ Mild(<<>> \o after)
      BY <1>3, EasyLists, MildLists, EasyConcat
    <3>3. \A x \in its : x = r
      BY <1>1 DEF RowsOK
    <3> QED
      BY <3>1, <3>2, <3>3 DEF EasyList
  <2>3. CASE \E r \in its : Open(r) /\ Then(th, <<Close(r)>> \o after)
    <3>1. PICK r \in its : Open(r) /\ Then(th, <<Close(r)>> \o after)
      BY <2>3
    <3>2. PICK a : a = Close(r)
      OBVIOUS
    <3>3. IsList(<<a>>) /\ Len(<<a>>) = 1 /\ <<a>>[1] = a
      BY ShortLists
    <3>4. PICK S : S = <<a>> \o after
      OBVIOUS
    <3> HIDE DEF after
    <3>5. /\ IsList(S) /\ Len(S) = 1 + Len(after) /\ \A i \in 1..1 : S[i] = <<a>>[i]
          /\ \A i \in 1..Len(after) : S[1 + i] = after[i]
      BY <1>3, <3>3, <3>4, ListConcat DEF EasyList
    <3>6. DOMAIN S = 1..Len(S) /\ DOMAIN after = 1..Len(after) /\ Len(after) \in Nat
      BY <1>3, <3>5, ListFacts DEF EasyList
    <3>7. 1 \in DOMAIN S /\ S[1] = Close(r)
      BY <3>2, <3>3, <3>5, <3>6
    <3>8. ASSUME NEW i \in DOMAIN S, i # 1 PROVE Easy(S[i], th) /\ S[i].op # "forfeit"
      <4>1. i - 1 \in DOMAIN after /\ 1 + (i - 1) = i
        BY <3>5, <3>6, <3>8
      <4>2. S[i] = after[i - 1]
        BY <4>1, <3>5, <3>6
      <4> QED
        BY <4>1, <4>2, <1>3 DEF EasyList, Mild
    <3>9. Then(th, S)
      BY <3>1, <3>2, <3>4
    <3> QED
      BY <3>1, <3>5, <3>7, <3>8, <3>9
  <2> QED
    BY <2>1, <2>2, <2>3 DEF ReadResult
<1>5. PICK M : M = S \o Tail(L)
  OBVIOUS
<1>6. Spliced(M, S, L) /\ todo' = [todo EXCEPT ![th] = M]
  BY <1>2, <1>4, <1>5, Splice DEF Then
<1>7. /\ \A i \in DOMAIN S : i \in DOMAIN M /\ M[i] = S[i]
      /\ \A i \in DOMAIN M : i \in DOMAIN S \/ \E j \in DOMAIN L : j # 1 /\ M[i] = L[j]
      /\ \A j \in DOMAIN L : j # 1 => \E i \in DOMAIN M : M[i] = L[j]
  BY <1>2, <1>6, NewFirst, OldRest
<1>8. todo'[th] = M /\ \A t \in Threads \ {th} : todo'[t] = todo[t]
  BY <1>6, ShapeStep DEF IInv, Typed
<1> HIDE DEF s, L, after
<1>9. ASSUME NEW i \in DOMAIN S
      PROVE  /\ Fits(S[i]) /\ S[i].op \notin {"ended", "unlock", "forfeit"}
             /\ S[i].op \notin Strict \/ (i = 1 /\ S[i].op = "complete")
             /\ S[i].op \in Matching => th \in Players
  <2>1. CASE EasyList(S, th) /\ Mild(S)
    BY <2>1 DEF EasyList, Easy, Mild
  <2>2. CASE \E r \in its : /\ S[1] = Close(r)
                            /\ \A k \in DOMAIN S : k # 1 => Easy(S[k], th) /\ S[k].op # "forfeit"
    <3>1. CASE i = 1
      <4>1. Fits(S[1]) /\ S[1].op = "complete"
        BY <1>2, <2>2 DEF Fits, WhoOps
      <4> QED
        BY <4>1, <3>1 DEF Matching
    <3>2. CASE i # 1
      BY <2>2, <3>2 DEF Easy
    <3> QED
      BY <3>1, <3>2
  <2> QED
    BY <1>4, <2>1, <2>2
<1>10. ASSUME NEW i \in DOMAIN S
       PROVE  /\ Fits(S[i]) /\ Points(S[i])' /\ Tame(S[i], th)
              /\ i \in DOMAIN M => Placed(M, i) /\ Promised(M, i)'
  <2>1. M[i] = S[i]
    BY <1>7
  <2>2. Placed(M, i) /\ Promised(M, i)'
    BY <1>9, <2>1 DEF Placed, Promised, Strict
  <2>3. Points(S[i])' /\ Tame(S[i], th)
    BY <1>9 DEF Points, Tame, Strict
  <2> QED
    BY <1>9, <2>2, <2>3
<1>11. Undecided' \subseteq Undecided
  <2> SUFFICES ASSUME NEW g \in Undecided' PROVE g \in Undecided
    OBVIOUS
  <2>1. PICK r \in rows : r.game = g /\ ~r.done /\ ~Doomed(g, r.id)' /\ g \in DOMAIN games
    BY <1>1 DEF Undecided
  <2>2. ASSUME Doomed(g, r.id) PROVE FALSE
    <3>1. PICK t \in Threads : /\ Ends(todo[t], g)
                               /\ \/ todo[t][1].op = "insert" /\ todo[t][2].op = "result"
                                  \/ todo[t][1].op = "result"
                                  \/ todo[t][1].op = "complete" /\ todo[t][1].id = r.id
      BY <2>2 DEF Doomed
    <3>2. t = th
      <4> SUFFICES ASSUME t # th PROVE FALSE
        OBVIOUS
      <4>1. todo'[t] = todo[t]
        BY <1>8
      <4> QED
        BY <2>1, <3>1, <4>1 DEF Doomed
    <3>3. Ends(L, g)
      BY <3>1, <3>2 DEF L
    <3>4. PICK j \in DOMAIN L : L[j].op = "ended" /\ L[j].game = g
      BY <3>3 DEF Ends
    <3>5. s.game = g /\ j # 1
      BY <1>2, <3>4
    <3>6. r \in its /\ Open(r)
      BY <2>1, <3>5 DEF Open
    <3>7. PICK x \in its : 1 \in DOMAIN S /\ S[1] = Close(x)
      BY <1>4, <3>6
    <3>8. x = r
      BY <1>1, <3>6, <3>7 DEF RowsOK
    <3>9. M[1].op = "complete" /\ M[1].id = r.id
      BY <1>7, <3>7, <3>8
    <3>10. Ends(M, g)
      <4>1. PICK i \in DOMAIN M : M[i] = L[j]
        BY <1>7, <3>5
      <4> QED
        BY <4>1, <3>4 DEF Ends
    <3> QED
      BY <1>8, <2>1, <3>9, <3>10 DEF Doomed
  <2> QED
    BY <2>1, <2>2 DEF Undecided
<1>12. M = S \o Tail(todo[th])
  BY <1>5 DEF L
<1>13. Decided'
  <2> SUFFICES ASSUME NoForfeits PROVE Decided'
    BY DEF Decided
  <2>1. \A i \in DOMAIN S : Sound(M, S[i])'
    <3> SUFFICES ASSUME NEW i \in DOMAIN S PROVE Sound(M, S[i])'
      OBVIOUS
    <3>1. CASE S[i].op # "complete"
      BY <3>1, <1>9 DEF Sound, Strict
    <3>2. CASE S[i].op = "complete"
      <4>1. PICK r \in its : Open(r) /\ S[1] = Close(r)
        <5>1. ~EasyList(S, th)
          BY <3>2 DEF EasyList, Easy, Strict
        <5> QED
          BY <5>1, <1>4
      <4>2. S[i].id = r.id
        BY <4>1, <3>2, <1>9 DEF Strict
      <4>3. Ends(L, s.game)
        <5>1. Sound(L, L[1])
          BY <1>1, <1>2, Running DEF IInv, Decided, L
        <5> QED
          BY <5>1, <1>2 DEF Sound
      <4>4. PICK j \in DOMAIN L : L[j].op = "ended" /\ L[j].game = s.game /\ j # 1
        BY <4>3, <1>2 DEF Ends
      <4>5. PICK k \in DOMAIN M : M[k] = L[j]
        BY <4>4, <1>7
      <4>6. \A x \in rows' : x.id = r.id => ~x.done /\ x.game = M[k].game
        BY <1>1, <4>1, <4>4, <4>5 DEF RowsOK, Open
      <4>7. r.id \in Nat /\ r.id < nextId'
        BY <1>1 DEF RowsOK, Row
      <4> QED
        BY <3>2, <4>2, <4>4, <4>5, <4>6, <4>7 DEF Sound
    <3> QED
      BY <3>1, <3>2
  <2>2. RowsStay /\ Places /\ Decided /\ Shape
    BY <1>1, FromIsStay DEF IInv, Typed
  <2>3. L = todo[th]
    BY DEF L
  <2> QED
    BY <2>1, <2>2, <2>3, <1>1, <1>6, DecidedStep
<1> QED
  BY <1>1, <1>4, <1>10, <1>11, <1>12, <1>13, PlacedThen

\* The row of the result is completed; its list no longer dooms it.
LEMMA CompleteKeeps ==
  ASSUME IInv, NEW th \in Threads, CompleteRow(th)
  PROVE  IInv'
<1> DEFINE s == Now(th)
           L == todo[th]
           New(r) == IF r.id # s.id THEN r ELSE [r EXCEPT !.done = TRUE, !.winner = s.winner]
<1>1. /\ Do(th, "complete") /\ UNCHANGED <<nextId, games, matcher, ending, slots>>
      /\ rows' = {New(r) : r \in rows} /\ Then(th, <<>>)
      /\ RowsOK /\ Shape /\ slots' \subseteq Players
  BY DEF CompleteRow, entry, IInv, Typed
<1>2. s.winner \in Players /\ L # <<>> /\ IsList(L) /\ L[1] = s /\ L[1].op = "complete"
  <2>1. Fits(s) /\ s.op = "complete" /\ s = L[1] /\ L # <<>> /\ IsList(L)
    BY <1>1, Running
  <2> QED
    BY <2>1 DEF Fits
<1>3. ASSUME NEW r \in rows
      PROVE  /\ New(r) \in Row /\ New(r).id = r.id /\ New(r).game = r.game
             /\ New(r).pair = r.pair /\ (r.id # s.id => New(r) = r)
             /\ (r.id = s.id => New(r).done) /\ (r.done => New(r).done)
  <2>1. r \in Row
    BY <1>1 DEF RowsOK
  <2> HIDE DEF s
  <2> QED
    BY <2>1, <1>2 DEF Row
<1> HIDE DEF New, s
<1>4. RowsOK'
  <2>1. ASSUME NEW r \in rows'
        PROVE  /\ r \in Row /\ r.id < nextId' /\ r.game \in DOMAIN games'
               /\ r.pair = games'[r.game].pair
    <3>1. PICK x \in rows : r = New(x)
      BY <1>1
    <3> QED
      BY <3>1, <1>1, <1>3 DEF RowsOK
  <2>2. ASSUME NEW r \in rows', NEW x \in rows', r.id = x.id \/ r.game = x.game PROVE r = x
    <3>1. PICK y \in rows, z \in rows : r = New(y) /\ x = New(z)
      BY <1>1
    <3>2. y = z
      BY <3>1, <2>2, <1>1, <1>3 DEF RowsOK
    <3> QED
      BY <3>1, <3>2
  <2> QED
    BY <2>1, <2>2, <1>1 DEF RowsOK
<1>5. GamesKept
  BY <1>1 DEF GamesKept, RowsOK
<1>6. \A t \in Threads \ {th} : todo'[t] = todo[t]
  BY <1>1 DEF Then, Shape
<1>7. Undecided' \subseteq Undecided
  <2> SUFFICES ASSUME NEW g \in Undecided' PROVE g \in Undecided
    OBVIOUS
  <2>1. PICK r \in rows' : r.game = g /\ ~r.done /\ ~Doomed(g, r.id)' /\ g \in DOMAIN games
    BY <1>1 DEF Undecided
  <2>2. r \in rows /\ r.id # s.id
    BY <1>1, <1>3, <2>1
  <2>3. ASSUME Doomed(g, r.id) PROVE FALSE
    <3>1. PICK t \in Threads : /\ Ends(todo[t], g)
                               /\ \/ todo[t][1].op = "insert" /\ todo[t][2].op = "result"
                                  \/ todo[t][1].op = "result"
                                  \/ todo[t][1].op = "complete" /\ todo[t][1].id = r.id
      BY <2>3 DEF Doomed
    <3>2. t # th
      BY <1>2, <2>2, <3>1
    <3>3. todo'[t] = todo[t]
      BY <1>6, <3>2
    <3> QED
      BY <2>1, <3>1, <3>3 DEF Doomed
  <2> QED
    BY <2>1, <2>2, <2>3 DEF Undecided
<1>8. IsList(<<>>) /\ DOMAIN <<>> = {}
  BY ShortLists, ListFacts
<1>9. PICK M : M = <<>> \o Tail(todo[th])
  OBVIOUS
<1>10. Decided'
  <2> SUFFICES ASSUME NoForfeits, NEW t \in Threads, NEW i \in DOMAIN todo'[t]
               PROVE  Sound(todo[t], todo[t][i])'
    BY DEF Decided
  <2>0. Places /\ Locks /\ Decided
    BY DEF IInv
  <2>1. todo' = [todo EXCEPT ![th] = M] /\ todo'[th] = M
    BY <1>1, <1>9 DEF Then, Shape
  <2>2. CASE t = th
    <3>1. Spliced(M, <<>>, L)
      BY <1>2, <1>8, <1>9, Splice
    <3>2. PICK j \in DOMAIN L : j # 1 /\ M[i] = L[j]
      BY <3>1, <2>1, <2>2, <1>2, <1>8, OldRest
    <3>3. Placed(L, j) /\ Sound(L, L[j])
      BY <2>0 DEF Places, Decided
    <3>4. M[i].op \notin {"forfeit", "result", "complete"}
      BY <3>2, <3>3, <1>2 DEF Placed, Sound
    <3> QED
      BY <3>4, <2>1, <2>2 DEF Sound
  <2>3. CASE t # th
    <3>1. todo'[t] = todo[t] /\ Sound(todo[t], todo[t][i])
      BY <2>0, <2>3, <1>6 DEF Decided
    <3>2. PICK a : a = todo[t][i]
      OBVIOUS
    <3>3. ASSUME a.op = "complete"
          PROVE  \E j \in DOMAIN todo[t] :
                   /\ todo[t][j].op = "ended"
                   /\ \A r \in rows' : r.id = a.id => ~r.done /\ r.game = todo[t][j].game
      <4>1. PICK j \in DOMAIN todo[t] :
              /\ todo[t][j].op = "ended"
              /\ \A r \in rows : r.id = a.id => ~r.done /\ r.game = todo[t][j].game
        BY <3>1, <3>2, <3>3 DEF Sound
      <4>2. Sound(L, L[1])
        BY <2>0, <1>1, Running DEF Decided
      <4>3. PICK k \in DOMAIN L :
              /\ L[k].op = "ended"
              /\ \A r \in rows : r.id = s.id => ~r.done /\ r.game = L[k].game
        BY <4>2, <1>2 DEF Sound
      <4>4. \A r \in rows : r.id = s.id => r.id # a.id
        <5> SUFFICES ASSUME NEW r \in rows, r.id = s.id, r.id = a.id PROVE FALSE
          OBVIOUS
        <5>1. todo[t][j].game = todo[th][k].game
          BY <4>1, <4>3
        <5>2. EndsAlone(th, k)
          BY <2>0 DEF Locks, Holds
        <5> QED
          BY <5>1, <5>2, <4>1, <4>3, <2>3 DEF EndsAlone
      <4>5. \A r \in rows' : r.id = a.id => r \in rows
        BY <1>1, <1>3, <4>4
      <4> QED
        BY <4>1, <4>5
    <3>4. a.op = "complete" => a.id \in Nat /\ a.id < nextId'
      BY <3>1, <3>2, <1>1 DEF Sound
    <3>5. a.op # "forfeit" /\ (a.op = "result" => Ends(todo[t], a.game))
      BY <3>1, <3>2 DEF Sound
    <3>6. PICK K : K = todo[t]
      OBVIOUS
    <3>7. Sound(K, a)'
      BY <3>3, <3>4, <3>5, <3>6 DEF Sound, Ends
    <3> QED
      BY <3>1, <3>2, <3>6, <3>7 DEF Sound, Ends
  <2> QED
    BY <2>2, <2>3
<1> QED
  BY <1>1, <1>4, <1>5, <1>7, <1>8, <1>9, <1>10, PlacedThen

\* The game is created before its row.
LEMMA CreateKeeps ==
  ASSUME IInv, NEW th \in Threads, CreateGame(th)
  PROVE  IInv'
<1> DEFINE s == Now(th)
           L == todo[th]
<1>0. PICK g : g = Len(games) + 1
  OBVIOUS
<1>1. /\ Do(th, "game") /\ UNCHANGED <<rows, nextId, matcher, ending, slots>>
      /\ games' = Append(games, [pair |-> s.pair, state |-> "playing"])
      /\ Then(th, <<OnGame("insert", g)>>) /\ RowsOK /\ slots' \subseteq Players
  BY <1>0 DEF CreateGame, entry, IInv, Typed
<1>2. /\ s.pair \in Players \X Players /\ \A p \in Range(s.pair) : Free(p)
      /\ L # <<>> /\ IsList(L) /\ 2 \in DOMAIN L /\ L[2].op = "unlock"
  <2>1. /\ Fits(s) /\ s.op = "game" /\ s = L[1] /\ Placed(L, 1) /\ Promised(L, 1)
        /\ L # <<>> /\ IsList(L)
    BY <1>1, Running
  <2> QED
    BY <2>1 DEF Fits, Placed, Promised
<1> HIDE DEF s
<1>3. /\ games' \in Seq(GameType) /\ g \in DOMAIN games' /\ games'[g].pair = s.pair
      /\ g \in Nat /\ \A h \in DOMAIN games : h \in DOMAIN games' /\ games'[h] = games[h]
  <2>1. games \in Seq(GameType) /\ [pair |-> s.pair, state |-> "playing"] \in GameType
    BY <1>1, <1>2 DEF RowsOK, GameType
  <2>2. /\ games' \in Seq(GameType) /\ Len(games') = Len(games) + 1
        /\ \A h \in 1..Len(games) : games'[h] = games[h]
        /\ games'[Len(games) + 1] = [pair |-> s.pair, state |-> "playing"]
    BY <1>1, <2>1, AppendProperties
  <2>3. Len(games) \in Nat /\ DOMAIN games = 1..Len(games) /\ DOMAIN games' = 1..Len(games')
    BY <2>1, <2>2, LenProperties
  <2> QED
    BY <1>0, <2>2, <2>3
<1>4. PICK a : a = OnGame("insert", g)
  OBVIOUS
<1>5. a.op = "insert" /\ a.game = g
  BY <1>4 DEF OnGame
<1>6. RowsOK' /\ GamesKept /\ RowsFrom
  BY <1>1, <1>3 DEF RowsOK, GamesKept, RowsFrom
<1>7. Undecided' \subseteq Undecided
  BY <1>1, <1>6, UndecidedSame DEF Dooming
<1>8. PICK S : S = <<a>>
  OBVIOUS
<1>9. IsList(S) /\ DOMAIN S = 1..1 /\ S[1] = a /\ Then(th, S) /\ Len(S) = 1 /\ \A i \in 1..1 : i = 1
  BY <1>1, <1>4, <1>8, ShortLists, ListFacts
<1>10. PICK M : M = S \o Tail(L)
  OBVIOUS
<1>11. M[1] = a /\ 2 \in DOMAIN M /\ M[2].op = "unlock"
  <2>1. Spliced(M, S, L) /\ L # <<>>
    BY <1>2, <1>9, <1>10, Splice
  <2>2. /\ \A i \in DOMAIN S : i \in DOMAIN M /\ M[i] = S[i]
        /\ 2 \in DOMAIN L => Len(S) + 1 \in DOMAIN M /\ M[Len(S) + 1] = L[2]
    BY <2>1, NewFirst
  <2> HIDE DEF L
  <2> QED
    BY <2>2, <1>2, <1>9
<1>12. Fits(a) /\ Points(a)' /\ Tame(a, th)
  BY <1>3, <1>5 DEF Fits, Points, Tame, WhoOps, Matching
<1>13. Placed(M, 1)
  BY <1>5, <1>11 DEF Placed
<1>14. Promised(M, 1)'
  <2>1. \A p \in Range(s.pair) : Free(p)'
    BY <1>2, <1>6, <1>7, FreeStays
  <2>2. Pair(g)' = Range(s.pair)
    BY <1>3 DEF Pair
  <2> QED
    BY <1>5, <1>11, <2>1, <2>2 DEF Promised
<1>15. \A i \in DOMAIN S : /\ Fits(S[i]) /\ Points(S[i])' /\ Tame(S[i], th)
                           /\ i \in DOMAIN M => Placed(M, i) /\ Promised(M, i)'
  BY <1>9, <1>12, <1>13, <1>14
<1>16. M = S \o Tail(todo[th])
  BY <1>10
<1>17. Decided'
  <2>1. \A i \in DOMAIN S : Plain(S[i])
    BY <1>5, <1>9 DEF Plain
  <2> QED
    BY <2>1, <1>1, <1>6, <1>9, PlainThen
<1> QED
  BY <1>1, <1>6, <1>7, <1>9, <1>15, <1>16, <1>17, PlacedThen

\* Whoever is ready has no match to play.
LEMMA ReadyIsFree ==
  ASSUME RowsOK, NEW p, Unfinished(p) = {}
  PROVE  Free(p)
<1> SUFFICES ASSUME NEW g \in Undecided, p \in Pair(g) PROVE FALSE
  BY DEF Free
<1>1. PICK r \in rows : r.game = g /\ ~r.done
  BY DEF Undecided
<1>2. r.pair = games[g].pair
  BY <1>1 DEF RowsOK
<1> QED
  BY <1>1, <1>2 DEF Unfinished, Plays, Pair

\* The matcher's lock is taken when nobody holds it.
LEMMA LockMatcherKeeps ==
  ASSUME IInv, NEW th \in Threads, LockMatcher(th)
  PROVE  IInv'
<1> DEFINE L == todo[th]
           e(list) == [op |-> "elect", list |-> list, fit |-> <<>>]
<1>1. /\ Do(th, "pair") /\ matcher = NoOne /\ matcher' = th
      /\ UNCHANGED <<rows, nextId, games, ending, slots>>
      /\ RowsOK' /\ GamesKept /\ RowsFrom /\ slots' \subseteq Players
      /\ Shape /\ Locks /\ RowsOK
  <2>1. /\ Do(th, "pair") /\ matcher = NoOne /\ matcher' = th
        /\ UNCHANGED <<rows, nextId, games, ending, slots>>
    BY DEF LockMatcher, db, play, entry
  <2> QED
    BY <2>1, SameRows DEF IInv, Typed
<1>2. L # <<>> /\ IsList(L) /\ L[1].op = "pair" /\ th \in Players
  BY <1>1, Running DEF Holds, Matching
<1>3. PICK list \in SetToSeqs({p \in Players : Ready(p)}) :
        Then(th, <<e(list), [op |-> "unlock"]>>)
  BY DEF LockMatcher
<1>4. list \in Seq(Players) /\ \A p \in Range(list) : Free(p)
  <2> DEFINE R == {p \in Players : Ready(p)}
  <2>1. IsFiniteSet(R)
    BY EventAssumption, FS_Subset
  <2>2. \A p \in R : Free(p)
    BY <1>1, ReadyIsFree DEF Ready
  <2> HIDE DEF R
  <2>3. list \in Seq(R) /\ \A i \in DOMAIN list : list[i] \in R
    BY <2>1, <1>3, Listed DEF R
  <2>4. R \subseteq Players
    BY DEF R
  <2> QED
    BY <2>2, <2>3, <2>4, SeqMonotonic DEF Range
<1>5. PICK a, b : a = e(list) /\ b = [op |-> "unlock"]
  OBVIOUS
<1>6. /\ Fits(a) /\ Points(a)' /\ a.op = "elect" /\ a.list = list /\ a.fit = <<>>
      /\ Fits(b) /\ Points(b)' /\ b.op = "unlock"
  <2>1. <<>> \in Seq(Players)
    OBVIOUS
  <2> QED
    BY <1>4, <1>5, <2>1 DEF Fits, Points, WhoOps
<1>7. PICK S : S = <<a, b>>
  OBVIOUS
<1>8. /\ IsList(S) /\ DOMAIN S = 1..2 /\ Len(S) = 2 /\ S[1] = a /\ S[2] = b
      /\ Then(th, S) /\ \A i \in 1..2 : i = 1 \/ i = 2
  BY <1>3, <1>5, <1>7, ShortLists, ListFacts
<1>9. PICK M : M = S \o Tail(L)
  OBVIOUS
<1>10. Spliced(M, S, L) /\ todo' = [todo EXCEPT ![th] = M]
  BY <1>2, <1>8, <1>9, Splice DEF Then
<1>11. \A i \in DOMAIN S : i \in DOMAIN M /\ M[i] = S[i]
  BY <1>2, <1>10, NewFirst
<1>12. \A i \in DOMAIN M : i \in DOMAIN S \/ \E j \in DOMAIN L : j # 1 /\ M[i] = L[j]
  BY <1>2, <1>10, OldRest
<1>13. todo'[th] = M /\ \A t \in Threads \ {th} : todo'[t] = todo[t]
  BY <1>1, <1>10, ShapeStep
<1>14. \A t \in Threads : \A i \in DOMAIN todo[t] : todo[t][i].op # "unlock"
  BY <1>1, EventAssumption DEF Locks, Holds, Matching
<1>15. \A i \in DOMAIN S : S[i].op # "ended"
  BY <1>6, <1>8
<1>16. Locks'
  <2>1. \A t \in Threads : \A i \in DOMAIN todo'[t] : EndsAlone(t, i)'
    BY <1>1, <1>10, <1>15, EndsStep
  <2>2. \A i \in DOMAIN M : M[i].op = "unlock" => i = 2
    BY <1>6, <1>8, <1>11, <1>12, <1>14
  <2> SUFFICES ASSUME NEW t \in Threads, NEW i \in DOMAIN todo'[t] PROVE Holds(t, i)'
    BY DEF Locks
  <2>3. CASE t = th
    BY <2>1, <2>2, <2>3, <1>1, <1>2, <1>13 DEF Holds
  <2>4. CASE t # th
    <3>1. todo'[t] = todo[t] /\ Holds(t, i)
      BY <2>4, <1>1, <1>13 DEF Locks
    <3>2. todo[t][i].op # "unlock"
      BY <3>1, <1>14
    <3> QED
      BY <3>1, <3>2, <2>1 DEF Holds
  <2> QED
    BY <2>3, <2>4
<1>17. Undecided' \subseteq Undecided
  BY <1>1, <1>8, UndecidedSame DEF Dooming
<1>18. \A i \in DOMAIN M : Placed(M, i)
  <2>1. \A j \in DOMAIN L : Placed(L, j)
    BY DEF IInv, Places
  <2>2. ASSUME NEW i \in DOMAIN M, i \in 1..2 PROVE Placed(M, i)
    BY <1>6, <1>8, <1>11, <2>2 DEF Placed
  <2>3. ASSUME NEW i \in DOMAIN M, i \notin 1..2 PROVE Placed(M, i)
    BY <2>1, <2>3, <1>2, <1>8, <1>10, <1>15, PlacedTail
  <2> QED
    BY <2>2, <2>3
<1>19. \A i \in DOMAIN S : i \in DOMAIN M => Promised(M, i)'
  <2>1. \A p \in Range(list) : Free(p)'
    BY <1>1, <1>4, <1>17, FreeStays
  <2>2. Range(a.fit) = {}
    BY <1>6, ShortLists, ListFacts DEF Range
  <2>3. ASSUME NEW i \in DOMAIN S PROVE Promised(M, i)'
    BY <1>6, <1>8, <1>11, <2>1, <2>2 DEF Promised
  <2> QED
    BY <2>3
<1>20. \A i \in DOMAIN S : /\ Fits(S[i]) /\ Points(S[i])'
                           /\ S[i].op \in {"endgame", "ended"} => MayEnd(th)
  BY <1>6, <1>8
<1>21. Decided'
  <2>1. \A i \in DOMAIN S : Plain(S[i])
    BY <1>6, <1>8 DEF Plain
  <2> QED
    BY <2>1, <1>1, <1>8, PlainThen
<1> QED
  BY <1>1, <1>10, <1>16, <1>17, <1>18, <1>19, <1>20, <1>21, LockStep

LEMMA UnlockMatcherKeeps ==
  ASSUME IInv, NEW th \in Threads, UnlockMatcher(th)
  PROVE  IInv'
<1> DEFINE L == todo[th]
<1>1. /\ Do(th, "unlock") /\ matcher' = NoOne /\ Then(th, <<>>)
      /\ UNCHANGED <<rows, nextId, games, ending, slots>>
      /\ RowsOK' /\ GamesKept /\ RowsFrom /\ slots' \subseteq Players
      /\ Shape /\ Locks /\ RowsOK
  <2>1. /\ Do(th, "unlock") /\ matcher' = NoOne /\ Then(th, <<>>)
        /\ UNCHANGED <<rows, nextId, games, ending, slots>>
    BY DEF UnlockMatcher, Released, db, play, entry
  <2> QED
    BY <2>1, SameRows DEF IInv, Typed
<1>2. /\ L # <<>> /\ IsList(L) /\ L[1].op = "unlock" /\ matcher = th
      /\ \A j \in DOMAIN L : L[j].op = "unlock" => j = 1
  BY <1>1, Running DEF Holds
<1>3. IsList(<<>>) /\ DOMAIN <<>> = {} /\ Len(<<>>) = 0
  BY ShortLists, ListFacts
<1>4. PICK M : M = <<>> \o Tail(L)
  OBVIOUS
<1>5. Spliced(M, <<>>, L) /\ todo' = [todo EXCEPT ![th] = M]
  BY <1>1, <1>2, <1>3, <1>4, Splice DEF Then
<1>6. \A i \in DOMAIN M : i \in DOMAIN <<>> \/ \E j \in DOMAIN L : j # 1 /\ M[i] = L[j]
  BY <1>2, <1>5, OldRest
<1>7. todo'[th] = M /\ \A t \in Threads \ {th} : todo'[t] = todo[t]
  BY <1>1, <1>5, ShapeStep
<1>8. Locks'
  <2>1. \A t \in Threads : \A i \in DOMAIN todo'[t] : EndsAlone(t, i)'
    BY <1>1, <1>3, <1>5, EndsStep
  <2> SUFFICES ASSUME NEW t \in Threads, NEW i \in DOMAIN todo'[t] PROVE Holds(t, i)'
    BY DEF Locks
  <2>2. PICK j \in DOMAIN todo[t] : todo'[t][i] = todo[t][j] /\ (t = th => j # 1)
    BY <1>3, <1>6, <1>7
  <2>3. Holds(t, j)
    BY <1>1 DEF Locks
  <2>4. todo'[t][i].op # "unlock"
    BY <2>2, <2>3, <1>2 DEF Holds
  <2> QED
    BY <2>1, <2>2, <2>3, <2>4 DEF Holds
<1>9. Undecided' \subseteq Undecided
  BY <1>1, UndecidedSame DEF Dooming
<1>10. \A i \in DOMAIN M : Placed(M, i)
  <2>1. \A j \in DOMAIN L : Placed(L, j)
    BY DEF IInv, Places
  <2>2. \A i \in DOMAIN M : i \notin 1..Len(<<>>)
    BY <1>3
  <2>3. L[1].op # "insert" /\ \A i \in DOMAIN <<>> : <<>>[i].op # "ended"
    BY <1>2, <1>3
  <2> QED
    BY <2>1, <2>2, <2>3, <1>5, PlacedTail
<1>11. Decided'
  BY <1>1, <1>3, PlainThen
<1> QED
  BY <1>1, <1>3, <1>5, <1>8, <1>9, <1>10, <1>11, LockStep

\* The end of a game takes its lock, which nobody holds, and dooms its row.
LEMMA EndGameKeeps ==
  ASSUME IInv, NEW th \in Threads, EndGame(th)
  PROVE  IInv'
<1> DEFINE s == Now(th)
           g == s.game
           L == todo[th]
           w == Other(games[g].pair, s.loser)
<1>1. /\ Do(th, "endgame") /\ UNCHANGED <<rows, nextId, games, matcher, slots>>
      /\ RowsOK' /\ GamesKept /\ RowsFrom /\ slots' \subseteq Players
      /\ Shape /\ Locks /\ RowsOK
  <2>1. Do(th, "endgame") /\ UNCHANGED <<rows, nextId, games, matcher, slots>>
    BY DEF EndGame, db, play, entry
  <2> QED
    BY <2>1, SameRows DEF IInv, Typed
<1>2. /\ L # <<>> /\ IsList(L) /\ L[1].op = "endgame" /\ DOMAIN L = 1..1 /\ g \in DOMAIN games
      /\ MayEnd(th)
  <2>1. L # <<>> /\ IsList(L) /\ L[1] = s /\ s.op = "endgame" /\ Placed(L, 1) /\ Points(s)
        /\ 1 \in DOMAIN L
    BY <1>1, Running
  <2>2. Len(L) = 1 /\ DOMAIN L = 1..Len(L)
    BY <2>1, ListFacts DEF Placed
  <2>3. MayEnd(th)
    BY <2>1 DEF IInv, Battles
  <2> QED
    BY <2>1, <2>2, <2>3 DEF Points
<1>3. CASE Then(th, <<>>) /\ UNCHANGED ending
  BY <1>1, <1>3, QuietEmpty DEF Dooming
<1>4. CASE /\ g \notin ending /\ ending' = ending \cup {g}
           /\ Then(th, <<OnGame("insert", g), Result(g, w, games[g].pair, NoOne),
                         OnGame("ended", g)>>)
  <2>1. games[g].pair \in Players \X Players /\ w \in Players
    <3>1. games \in Seq(GameType)
      BY <1>1 DEF RowsOK
    <3>2. games[g] \in GameType
      BY <3>1, <1>2, LenProperties
    <3> QED
      BY <3>2, PairFacts DEF GameType
  <2> HIDE DEF w
  <2>2. PICK a, b, c : /\ a = OnGame("insert", g) /\ b = Result(g, w, games[g].pair, NoOne)
                       /\ c = OnGame("ended", g)
    OBVIOUS
  <2> HIDE DEF g
  <2>3. /\ a.op = "insert" /\ a.game = g /\ Fits(a) /\ Points(a)'
        /\ b.op = "result" /\ b.game = g /\ Fits(b) /\ Points(b)'
        /\ c.op = "ended" /\ c.game = g /\ Fits(c) /\ Points(c)'
    <3>1. a.op = "insert" /\ a.game = g /\ Fits(a) /\ Points(a)'
      BY <1>1, <1>2, <2>2 DEF Fits, Points, OnGame, WhoOps
    <3>2. b.op = "result" /\ b.game = g /\ Fits(b) /\ Points(b)'
      BY <2>1, <2>2 DEF Fits, Points, Result, WhoOps
    <3>3. c.op = "ended" /\ c.game = g /\ Fits(c) /\ Points(c)'
      BY <2>2 DEF Fits, Points, OnGame, WhoOps
    <3> QED
      BY <3>1, <3>2, <3>3
  <2>4. PICK S : S = <<a, b, c>>
    OBVIOUS
  <2>5. /\ IsList(S) /\ DOMAIN S = 1..3 /\ S[1] = a /\ S[2] = b /\ S[3] = c /\ Then(th, S)
        /\ Len(S) = 3 /\ \A i \in 1..3 : i = 1 \/ i = 2 \/ i = 3
    BY <1>4, <2>2, <2>4, ShortLists, ListFacts
  <2>6. PICK M : M = S \o Tail(L)
    OBVIOUS
  <2>7. Spliced(M, S, L) /\ todo' = [todo EXCEPT ![th] = M]
    BY <1>2, <2>5, <2>6, Splice DEF Then
  <2>8. \A i \in DOMAIN S : i \in DOMAIN M /\ M[i] = S[i]
    BY <1>2, <2>7, NewFirst
  <2>9. \A i \in DOMAIN M : i \in DOMAIN S \/ \E j \in DOMAIN L : j # 1 /\ M[i] = L[j]
    BY <1>2, <2>7, OldRest
  <2>10. DOMAIN M = 1..3 /\ M[1] = a /\ M[2] = b /\ M[3] = c
    <3>1. \A j \in DOMAIN L : j = 1
      BY <1>2
    <3>2. \A i \in DOMAIN M : i \in DOMAIN S
      BY <2>9, <3>1
    <3>3. DOMAIN M = DOMAIN S
      BY <2>8, <3>2
    <3> QED
      BY <2>5, <2>8, <3>3
  <2>11. todo'[th] = M /\ \A t \in Threads \ {th} : todo'[t] = todo[t]
    BY <1>1, <2>7, ShapeStep
  <2>12. \A i \in DOMAIN M : Placed(M, i)
    <3>1. Ends(M, g)
      BY <2>3, <2>10 DEF Ends
    <3>2. Placed(M, 1)
      BY <2>3, <2>10, <3>1 DEF Placed
    <3>3. Placed(M, 2)
      BY <2>3, <2>10 DEF Placed
    <3>4. Placed(M, 3)
      BY <2>3, <2>10 DEF Placed
    <3> QED
      BY <3>2, <3>3, <3>4, <2>5, <2>10
  <2>13. Locks'
    <3>1. \A t \in Threads : \A i \in DOMAIN todo[t] :
            todo[t][i].op = "ended" => todo[t][i].game \in ending
      BY <1>1 DEF Locks, Holds, EndsAlone
    <3>2. \A t \in Threads : \A i \in DOMAIN todo'[t] :
            todo'[t][i].op = "ended" /\ todo'[t][i].game = g => t = th /\ i = 3
      BY <1>4, <2>3, <2>5, <2>10, <2>11, <3>1 DEF g
    <3>3. ASSUME NEW t \in Threads, NEW i \in DOMAIN todo'[t], t # th PROVE Holds(t, i)'
      <4>1. todo'[t] = todo[t] /\ Holds(t, i)
        BY <3>3, <1>1, <2>11 DEF Locks
      <4>2. EndsAlone(t, i)'
        <5> SUFFICES ASSUME todo'[t][i].op = "ended"
                     PROVE  /\ todo'[t][i].game \in ending'
                            /\ \A u \in Threads : \A k \in DOMAIN todo'[u] :
                                 todo'[u][k].op = "ended" /\ todo'[u][k].game = todo'[t][i].game
                                   => u = t /\ k = i
          BY DEF EndsAlone
        <5>1. todo[t][i].game \in ending /\ todo[t][i].game # g
          BY <4>1, <3>1, <1>4 DEF g
        <5>2. ASSUME NEW u \in Threads, NEW k \in DOMAIN todo'[u], todo'[u][k].op = "ended",
                     todo'[u][k].game = todo'[t][i].game
              PROVE  u = t /\ k = i
          <6>1. u # th
            BY <5>1, <5>2, <4>1, <2>3, <2>5, <2>10, <2>11
          <6> QED
            BY <6>1, <5>2, <4>1, <2>11 DEF Holds, EndsAlone
        <5> QED
          BY <5>1, <5>2, <4>1, <1>4
      <4> QED
        BY <4>1, <4>2, <1>1 DEF Holds
    <3>4. ASSUME NEW i \in DOMAIN M PROVE Holds(th, i)'
      <4>1. M[i].op \notin Matching \cup {"unlock"} /\ (M[i].op = "ended" => M[i].game = g /\ i = 3)
        BY <2>3, <2>5, <2>10 DEF Matching
      <4>2. g \in ending'
        BY <1>4 DEF g
      <4>3. EndsAlone(th, i)'
        BY <4>1, <4>2, <3>2, <2>11 DEF EndsAlone
      <4> QED
        BY <4>1, <4>3, <2>11 DEF Holds
    <3> QED
      BY <3>3, <3>4, <2>11 DEF Locks
  <2>14. Undecided' \subseteq Undecided
    BY <1>1, <2>5, UndecidedSame DEF Dooming
  <2>15. \A i \in DOMAIN S : i \in DOMAIN M => Promised(M, i)'
    BY <2>3, <2>5, <2>10 DEF Promised
  <2>16. \A i \in DOMAIN S : /\ Fits(S[i]) /\ Points(S[i])'
                             /\ S[i].op \in {"endgame", "ended"} => MayEnd(th)
    BY <1>2, <2>3, <2>5
  <2>17. Decided'
    <3>1. Ends(M, g)
      BY <2>3, <2>10 DEF Ends
    <3>2. \A i \in DOMAIN S : Sound(M, S[i])'
      BY <3>1, <2>3, <2>5 DEF Sound, Ends
    <3>3. RowsStay /\ Places /\ Decided /\ Shape /\ RowsOK
      BY <1>1, FromIsStay DEF IInv, Typed
    <3> QED
      BY <3>2, <3>3, <2>7, DecidedStep
  <2> QED
    BY <1>1, <2>7, <2>12, <2>13, <2>14, <2>15, <2>16, <2>17, LockStep
<1> QED
  BY <1>3, <1>4 DEF EndGame

LEMMA GameEndedKeeps ==
  ASSUME IInv, NEW th \in Threads, GameEnded(th)
  PROVE  IInv'
<1> DEFINE L == todo[th]
<1>0. PICK g : g = Now(th).game
  OBVIOUS
<1>1. /\ Do(th, "ended") /\ UNCHANGED <<rows, nextId, matcher, slots>> /\ Then(th, <<>>)
      /\ games' = [games EXCEPT ![g].state = IF @ = "gone" THEN @ ELSE "ended"]
      /\ ending' = ending \ {g} /\ Shape /\ Locks /\ RowsOK /\ slots' \subseteq Players
  BY <1>0 DEF GameEnded, play, entry, IInv, Typed
<1>2. L # <<>> /\ IsList(L) /\ L[1].op = "ended" /\ L[1].game = g /\ EndsAlone(th, 1)
      /\ 1 \in DOMAIN L
  BY <1>0, <1>1, Running DEF Holds
<1>3. /\ DOMAIN games' = DOMAIN games /\ games' \in Seq(GameType)
      /\ \A h \in DOMAIN games : games'[h].pair = games[h].pair
  <2>1. games \in Seq(GameType)
    BY <1>1 DEF RowsOK
  <2>2. games \in [1..Len(games) -> GameType] /\ Len(games) \in Nat
    BY <2>1, LenProperties
  <2>3. games' \in [1..Len(games) -> GameType]
    BY <1>1, <2>2 DEF GameType
  <2>4. games' \in Seq(GameType)
    BY <2>2, <2>3, SeqDef
  <2>5. \A h \in DOMAIN games : games'[h].pair = games[h].pair
    BY <1>1, <2>2 DEF GameType
  <2> QED
    BY <2>2, <2>3, <2>4, <2>5
<1>4. RowsOK' /\ GamesKept /\ RowsFrom
  BY <1>1, <1>3 DEF RowsOK, GamesKept, RowsFrom
<1>5. IsList(<<>>) /\ DOMAIN <<>> = {} /\ Len(<<>>) = 0
  BY ShortLists, ListFacts
<1>6. PICK M : M = <<>> \o Tail(L)
  OBVIOUS
<1>7. Spliced(M, <<>>, L) /\ todo' = [todo EXCEPT ![th] = M]
  BY <1>1, <1>2, <1>5, <1>6, Splice DEF Then
<1>8. todo'[th] = M /\ \A t \in Threads \ {th} : todo'[t] = todo[t]
  BY <1>1, <1>7, ShapeStep
<1>9. \A i \in DOMAIN M : i + 1 \in DOMAIN L /\ M[i] = L[i + 1] /\ i + 1 # 1
  <2>1. DOMAIN M = 1..Len(M) /\ DOMAIN L = 1..Len(L) /\ Len(M) \in Nat /\ Len(L) \in Nat
    BY <1>7, ListFacts DEF Spliced
  <2>2. Len(M) = Len(L) - 1 /\ \A j \in 2..Len(L) : M[0 + j - 1] = L[j]
    BY <1>2, <1>5, <1>7, <2>1 DEF Spliced
  <2> SUFFICES ASSUME NEW i \in DOMAIN M PROVE i + 1 \in 2..Len(L) /\ M[i] = L[i + 1]
    BY <2>1
  <2>3. i + 1 \in 2..Len(L) /\ 0 + (i + 1) - 1 = i
    BY <2>1, <2>2
  <2> QED
    BY <2>2, <2>3
<1>10. ASSUME NEW t \in Threads, NEW i \in DOMAIN todo'[t]
       PROVE  \E j \in DOMAIN todo[t] : /\ todo'[t][i] = todo[t][j]
                                        /\ IF t = th THEN j = i + 1 /\ j # 1 ELSE j = i
  BY <1>8, <1>9
<1>11. \A t \in Threads : \A j \in DOMAIN todo[t] :
         todo[t][j].op = "ended" /\ todo[t][j].game = g => t = th /\ j = 1
  BY <1>2 DEF EndsAlone
<1>12. Locks'
  <2> SUFFICES ASSUME NEW t \in Threads, NEW i \in DOMAIN todo'[t] PROVE Holds(t, i)'
    BY DEF Locks
  <2>1. PICK j \in DOMAIN todo[t] : /\ todo'[t][i] = todo[t][j]
                                    /\ IF t = th THEN j = i + 1 /\ j # 1 ELSE j = i
    BY <1>10
  <2>2. Holds(t, j)
    BY <1>1 DEF Locks
  <2>3. EndsAlone(t, i)'
    <3> SUFFICES ASSUME todo'[t][i].op = "ended"
                 PROVE  /\ todo'[t][i].game \in ending'
                        /\ \A u \in Threads : \A k \in DOMAIN todo'[u] :
                             todo'[u][k].op = "ended" /\ todo'[u][k].game = todo'[t][i].game
                               => u = t /\ k = i
      BY DEF EndsAlone
    <3>1. EndsAlone(t, j)
      BY <2>2 DEF Holds
    <3>2. todo'[t][i].game \in ending'
      BY <3>1, <2>1, <1>1, <1>11 DEF EndsAlone
    <3>3. ASSUME NEW u \in Threads, NEW k \in DOMAIN todo'[u], todo'[u][k].op = "ended",
                 todo'[u][k].game = todo'[t][i].game
          PROVE  u = t /\ k = i
      <4>1. PICK m \in DOMAIN todo[u] : /\ todo'[u][k] = todo[u][m]
                                        /\ IF u = th THEN m = k + 1 /\ m # 1 ELSE m = k
        BY <1>10
      <4>2. u = t /\ m = j
        BY <4>1, <3>1, <3>3, <2>1 DEF EndsAlone
      <4>3. k \in Nat /\ i \in Nat
        <5>1. IsList(todo'[t]) /\ IsList(todo'[u])
          BY <1>1, <1>7, ShapeStep DEF Shape
        <5> QED
          BY <5>1, ListFacts
      <4> QED
        BY <4>1, <4>2, <4>3, <2>1
    <3> QED
      BY <3>2, <3>3
  <2>4. /\ todo'[t][i].op \in Matching => t \in Players
        /\ todo'[t][i].op = "unlock" =>
             matcher' = t /\ \A k \in DOMAIN todo'[t] : todo'[t][k].op = "unlock" => k = i
    <3>1. ASSUME todo'[t][i].op = "unlock", NEW k \in DOMAIN todo'[t], todo'[t][k].op = "unlock"
          PROVE  k = i
      <4>1. PICK m \in DOMAIN todo[t] : /\ todo'[t][k] = todo[t][m]
                                        /\ IF t = th THEN m = k + 1 /\ m # 1 ELSE m = k
        BY <1>10
      <4>2. m = j
        BY <4>1, <3>1, <2>1, <2>2 DEF Holds
      <4>3. k \in Nat /\ i \in Nat
        <5>1. IsList(todo'[t])
          BY <1>1, <1>7, ShapeStep DEF Shape
        <5> QED
          BY <5>1, ListFacts
      <4> QED
        BY <4>1, <4>2, <4>3, <2>1
    <3> QED
      BY <3>1, <2>1, <2>2, <1>1 DEF Holds
  <2> QED
    BY <2>3, <2>4 DEF Holds
<1>13. Undecided' \subseteq Undecided
  BY <1>1, <1>4, UndecidedSame DEF Dooming
<1>14. \A i \in DOMAIN M : Placed(M, i)
  <2>1. \A j \in DOMAIN L : Placed(L, j)
    BY DEF IInv, Places
  <2>2. \A i \in DOMAIN M : i \notin 1..Len(<<>>)
    BY <1>5
  <2>3. L[1].op # "insert" /\ \A i \in DOMAIN <<>> : <<>>[i].op # "ended"
    BY <1>2, <1>5
  <2> QED
    BY <2>1, <2>2, <2>3, <1>7, PlacedTail
<1>15. Decided'
  BY <1>1, <1>4, <1>5, PlainThen
<1> QED
  BY <1>1, <1>4, <1>5, <1>7, <1>12, <1>13, <1>14, <1>15, LockStep

\* A new row is the row of a game that had none.
LEMMA InsertedRows ==
  ASSUME RowsOK, NEW g \in DOMAIN games, ~HasRow(g), rows' = rows \cup {NewRow(g)},
         nextId' = nextId + 1, games' = games
  PROVE  RowsOK'
<1> DEFINE n == NewRow(g)
<1>1. games \in Seq(GameType) /\ nextId \in Nat /\ g \in Nat
      /\ games[g].pair \in Players \X Players
  <2>1. games \in Seq(GameType) /\ DOMAIN games = 1..Len(games)
    BY LenProperties DEF RowsOK
  <2>2. games[g] \in GameType
    BY <2>1, LenProperties
  <2> QED
    BY <2>1, <2>2 DEF RowsOK, GameType
<1>2. n \in Row /\ n.id = nextId /\ n.game = g /\ n.pair = games[g].pair
  BY <1>1, PairFacts DEF NewRow, Row
<1>3. \A r \in rows : r.id \in Nat /\ r.id < nextId /\ r.game # g
  BY DEF RowsOK, Row, HasRow
<1> HIDE DEF n
<1>4. rows' = rows \cup {n}
  BY DEF n
<1>5. \A r \in rows' : /\ r \in Row /\ r.id < nextId'
                       /\ r.game \in DOMAIN games' /\ r.pair = games'[r.game].pair
  <2> SUFFICES ASSUME NEW r \in rows'
               PROVE  /\ r \in Row /\ r.id < nextId'
                      /\ r.game \in DOMAIN games' /\ r.pair = games'[r.game].pair
    OBVIOUS
  <2>1. CASE r = n
    BY <2>1, <1>1, <1>2
  <2>2. CASE r \in rows
    BY <2>2, <1>1, <1>3 DEF RowsOK
  <2> QED
    BY <2>1, <2>2, <1>4
<1>6. ASSUME NEW r \in rows', NEW s \in rows', r.id = s.id \/ r.game = s.game PROVE r = s
  <2>1. CASE r \in rows /\ s \in rows
    BY <2>1, <1>6 DEF RowsOK
  <2>2. CASE r = n \/ s = n
    BY <2>2, <1>1, <1>2, <1>3, <1>4, <1>6
  <2> QED
    BY <2>1, <2>2, <1>4
<1> QED
  BY <1>1, <1>5, <1>6 DEF RowsOK

\* The row of a game that is being ended is doomed; that of a new match brings
\* its players, who had none, a match to play, and nobody else is about to get one.
LEMMA InsertKeeps ==
  ASSUME IInv, NEW th \in Threads, InsertRow(th)
  PROVE  IInv'
<1> DEFINE L == todo[th]
<1>0. PICK g : g = Now(th).game
  OBVIOUS
<1>1. /\ Do(th, "insert") /\ UNCHANGED <<games, matcher, ending, slots>> /\ Then(th, <<>>)
      /\ \/ UNCHANGED <<rows, nextId>>
         \/ ~HasRow(g) /\ rows' = rows \cup {NewRow(g)} /\ nextId' = nextId + 1
      /\ Shape /\ Contents /\ Places /\ Locks /\ Elected /\ Disjoint /\ RowsOK
      /\ slots' \subseteq Players
  BY <1>0 DEF InsertRow, entry, IInv, Typed
<1>2. /\ L # <<>> /\ IsList(L) /\ L[1].op = "insert" /\ L[1].game = g /\ g \in DOMAIN games
      /\ 2 \in DOMAIN L
      /\ \/ L[2].op = "unlock"
         \/ L[2].op = "result" /\ L[2].game = g /\ Ends(L, g)
  <2>1. L # <<>> /\ IsList(L) /\ L[1] = Now(th) /\ L[1].op = "insert" /\ Placed(L, 1) /\ Points(L[1])
    BY <1>1, Running
  <2> QED
    BY <2>1, <1>0 DEF Placed, Points
<1>3. RowsOK' /\ GamesKept
  <2>1. RowsOK'
    <3>1. CASE UNCHANGED <<rows, nextId>>
      BY <3>1, <1>1, SameRows
    <3>2. CASE ~HasRow(g) /\ rows' = rows \cup {NewRow(g)} /\ nextId' = nextId + 1
      BY <3>2, <1>1, <1>2, InsertedRows
    <3> QED
      BY <3>1, <3>2, <1>1
  <2> QED
    BY <2>1, <1>1 DEF GamesKept, RowsOK
<1>4. IsList(<<>>) /\ DOMAIN <<>> = {} /\ Len(<<>>) = 0
  BY ShortLists, ListFacts
<1>5. PICK M : M = <<>> \o Tail(L)
  OBVIOUS
<1>6. Spliced(M, <<>>, L) /\ todo' = [todo EXCEPT ![th] = M]
  BY <1>1, <1>2, <1>4, <1>5, Splice DEF Then
<1>7. todo'[th] = M /\ \A t \in Threads \ {th} : todo'[t] = todo[t]
  BY <1>1, <1>6, ShapeStep
<1>8. /\ DOMAIN M = 1..Len(M) /\ DOMAIN L = 1..Len(L) /\ Len(M) \in Nat /\ Len(L) \in Nat
      /\ Len(M) = Len(L) - 1
      /\ \A i \in DOMAIN M : i + 1 \in DOMAIN L /\ M[i] = L[i + 1] /\ i + 1 # 1
      /\ 1 \in DOMAIN M /\ M[1] = L[2]
  <2>1. DOMAIN M = 1..Len(M) /\ DOMAIN L = 1..Len(L) /\ Len(M) \in Nat /\ Len(L) \in Nat
    BY <1>6, ListFacts DEF Spliced
  <2>2. Len(M) = Len(L) - 1 /\ \A j \in 2..Len(L) : M[0 + j - 1] = L[j]
    BY <1>2, <1>4, <1>6, <2>1 DEF Spliced
  <2>3. ASSUME NEW i \in DOMAIN M PROVE i + 1 \in DOMAIN L /\ M[i] = L[i + 1] /\ i + 1 # 1
    <3>1. i + 1 \in 2..Len(L) /\ 0 + (i + 1) - 1 = i
      BY <2>1, <2>2
    <3> QED
      BY <2>1, <2>2, <3>1
  <2>4. 1 \in DOMAIN M /\ 1 + 1 = 2
    BY <2>1, <2>2, <1>2
  <2> QED
    BY <2>1, <2>2, <2>3, <2>4
<1>9. ASSUME NEW i \in DOMAIN M
      PROVE  M[i].op \notin {"insert", "complete", "endgame"} /\ (M[i].op = "result" => i = 1)
  <2>1. i + 1 \in DOMAIN L /\ M[i] = L[i + 1] /\ i + 1 # 1 /\ i \in Nat
    BY <1>8
  <2>2. Placed(L, i + 1)
    BY <2>1, <1>1 DEF Places
  <2> QED
    BY <2>1, <2>2 DEF Placed
<1>10. \A i \in DOMAIN M : Placed(M, i)
  <2> SUFFICES ASSUME NEW i \in DOMAIN M PROVE Placed(M, i)
    OBVIOUS
  <2>1. i + 1 \in DOMAIN L /\ M[i] = L[i + 1] /\ i \in Nat /\ Placed(L, i + 1)
    BY <1>1, <1>8 DEF Places
  <2>2. ASSUME M[i].op \in {"elect", "game"}
        PROVE  i + 1 \in DOMAIN M /\ M[i + 1].op = "unlock"
    <3>1. (i + 1) + 1 \in DOMAIN L /\ L[(i + 1) + 1].op = "unlock"
      BY <2>1, <2>2 DEF Placed
    <3>2. i + 1 \in DOMAIN M
      BY <3>1, <2>1, <1>8
    <3> QED
      BY <3>1, <3>2, <1>8
  <2>3. ASSUME NEW j \in DOMAIN M, M[j].op = "ended"
        PROVE  M[i].op # "forfeit" /\ (M[i].op = "result" => M[j].game = M[i].game)
    <3>1. j + 1 \in DOMAIN L /\ M[j] = L[j + 1]
      BY <1>8
    <3> QED
      BY <3>1, <2>1, <2>3 DEF Placed
  <2> QED
    BY <2>2, <2>3, <1>9 DEF Placed
<1>11. Locks'
  <2>1. \A i \in DOMAIN <<>> : Tame(<<>>[i], th)
    BY <1>4
  <2> QED
    BY <2>1, <1>1, <1>6, LocksStep
<1>12. Elected' /\ Disjoint'
  <2>1. CASE L[2].op = "result" /\ L[2].game = g /\ Ends(L, g)
    <3>1. M[1].op = "result" /\ Ends(M, g)
      <4>1. PICK j \in DOMAIN L : L[j].op = "ended" /\ L[j].game = g
        BY <2>1 DEF Ends
      <4>2. j # 1
        BY <4>1, <1>2
      <4>3. PICK i \in DOMAIN M : M[i] = L[j]
        BY <4>2, <1>2, <1>6, OldRest
      <4> QED
        BY <4>1, <4>3, <1>8, <2>1 DEF Ends
    <3>2. \A h, id : Doomed(h, id) => Doomed(h, id)'
      <4> SUFFICES ASSUME NEW h, NEW id, Doomed(h, id) PROVE Doomed(h, id)'
        OBVIOUS
      <4>1. PICK t \in Threads : /\ Ends(todo[t], h)
                                 /\ \/ todo[t][1].op = "insert" /\ todo[t][2].op = "result"
                                    \/ todo[t][1].op = "result"
                                    \/ todo[t][1].op = "complete" /\ todo[t][1].id = id
        BY DEF Doomed
      <4>2. CASE t = th
        <5>1. PICK j \in DOMAIN L : L[j].op = "ended" /\ L[j].game = h
          BY <4>1, <4>2 DEF Ends
        <5>2. j # 1
          BY <5>1, <1>2
        <5>3. PICK i \in DOMAIN M : M[i] = L[j]
          BY <5>2, <1>2, <1>6, OldRest
        <5>4. Ends(M, h)
          BY <5>1, <5>3 DEF Ends
        <5> QED
          BY <5>4, <3>1, <1>7 DEF Doomed
      <4>3. CASE t # th
        <5>1. todo'[t] = todo[t]
          BY <4>3, <1>7
        <5> QED
          BY <4>1, <5>1 DEF Doomed
      <4> QED
        BY <4>2, <4>3
    <3>3. \A id : Doomed(g, id)'
      BY <3>1, <1>7 DEF Doomed
    <3>4. Undecided' \subseteq Undecided
      <4> SUFFICES ASSUME NEW h \in Undecided' PROVE h \in Undecided
        OBVIOUS
      <4>1. PICK r \in rows' : r.game = h /\ ~r.done /\ ~Doomed(h, r.id)' /\ h \in DOMAIN games
        BY <1>1 DEF Undecided
      <4>2. h # g
        BY <3>3, <4>1
      <4>3. r \in rows
        BY <4>1, <4>2, <1>1 DEF NewRow
      <4> QED
        BY <4>1, <4>3, <3>2 DEF Undecided
    <3>5. Elected'
      <4>1. \A i \in DOMAIN <<>> : i \in DOMAIN M => Promised(M, i)'
        BY <1>4
      <4> QED
        BY <4>1, <3>4, <1>1, <1>3, <1>6, ElectedStep
    <3> QED
      BY <3>4, <3>5, <1>1, <1>3, DisjointStays
  <2>2. CASE L[2].op = "unlock"
    <3>1. Promised(L, 1) /\ \A p \in Pair(g) : Free(p)
      BY <2>2, <1>1, <1>2, Running DEF Promised
    <3>2. \A h, id : Doomed(h, id) => Doomed(h, id)'
      <4> SUFFICES ASSUME NEW h, NEW id, Doomed(h, id) PROVE Doomed(h, id)'
        OBVIOUS
      <4>1. PICK t \in Threads : /\ Ends(todo[t], h)
                                 /\ \/ todo[t][1].op = "insert" /\ todo[t][2].op = "result"
                                    \/ todo[t][1].op = "result"
                                    \/ todo[t][1].op = "complete" /\ todo[t][1].id = id
        BY DEF Doomed
      <4>2. t # th
        BY <4>1, <2>2, <1>2
      <4>3. todo'[t] = todo[t]
        BY <4>2, <1>7
      <4> QED
        BY <4>1, <4>3 DEF Doomed
    <3>3. Undecided' \subseteq Undecided \cup {g}
      <4> SUFFICES ASSUME NEW h \in Undecided', h # g PROVE h \in Undecided
        OBVIOUS
      <4>1. PICK r \in rows' : r.game = h /\ ~r.done /\ ~Doomed(h, r.id)' /\ h \in DOMAIN games
        BY <1>1 DEF Undecided
      <4>2. r \in rows
        BY <4>1, <1>1 DEF NewRow
      <4> QED
        BY <4>1, <4>2, <3>2 DEF Undecided
    <3>4. \A h \in DOMAIN games : Pair(h)' = Pair(h)
      BY <1>1 DEF Pair
    <3>5. Disjoint'
      <4> SUFFICES ASSUME NEW h \in Undecided', NEW k \in Undecided',
                          Pair(h) \cap Pair(k) # {}
                   PROVE  h = k
        BY <1>1, <3>4 DEF Disjoint, Pair
      <4>1. \A x \in Undecided : Pair(g) \cap Pair(x) = {}
        BY <3>1 DEF Free
      <4> QED
        BY <4>1, <3>3, <1>1 DEF Disjoint
    <3>6. ASSUME NEW t \in Threads, NEW i \in DOMAIN todo'[t]
          PROVE  /\ todo'[t][i].op \notin {"elect", "game"}
                 /\ ~(todo'[t][i].op = "insert" /\ todo'[t][2].op = "unlock")
      <4>1. matcher = th /\ \A j \in DOMAIN L : L[j].op = "unlock" => j = 2
        BY <2>2, <1>1, <1>2 DEF Locks, Holds
      <4>2. CASE t # th
        <5>1. todo'[t] = todo[t]
          BY <4>2, <1>7
        <5>2. \A j \in DOMAIN todo[t] : todo[t][j].op # "unlock"
          BY <4>1, <4>2, <1>1 DEF Locks, Holds
        <5>3. Placed(todo[t], i)
          BY <5>1, <1>1 DEF Places
        <5>4. todo[t][i].op \notin {"elect", "game"}
          BY <5>2, <5>3 DEF Placed
        <5>5. todo[t][i].op = "insert" => 2 \in DOMAIN todo[t]
          BY <5>3 DEF Placed
        <5> QED
          BY <5>1, <5>2, <5>4, <5>5
      <4>3. CASE t = th
        <5>1. i \in DOMAIN M /\ todo'[t] = M
          BY <4>3, <1>7
        <5>2. i + 1 \in DOMAIN L /\ M[i] = L[i + 1] /\ i + 1 # 1 /\ i \in Nat
          BY <5>1, <1>8
        <5>3. Placed(L, i + 1)
          BY <5>2, <1>1 DEF Places
        <5>4. M[i].op \notin {"elect", "game"}
          <6> SUFFICES ASSUME M[i].op \in {"elect", "game"} PROVE FALSE
            OBVIOUS
          <6>1. (i + 1) + 1 \in DOMAIN L /\ L[(i + 1) + 1].op = "unlock"
            BY <5>2, <5>3 DEF Placed
          <6> QED
            BY <6>1, <4>1, <5>2
        <5> QED
          BY <5>1, <5>4, <1>9
      <4> QED
        BY <4>2, <4>3
    <3>7. Elected'
      BY <3>6 DEF Elected, Promised
    <3> QED
      BY <3>5, <3>7
  <2> QED
    BY <2>1, <2>2, <1>2
<1>13. Decided'
  <2>1. RowsStay
    <3>1. nextId \in Nat
      BY <1>1 DEF RowsOK
    <3>2. CASE UNCHANGED <<rows, nextId>>
      BY <3>1, <3>2 DEF RowsStay
    <3>3. CASE ~HasRow(g) /\ rows' = rows \cup {NewRow(g)} /\ nextId' = nextId + 1
      <4>1. NewRow(g).id = nextId
        BY DEF NewRow
      <4> QED
        BY <3>1, <3>3, <4>1 DEF RowsStay
    <3> QED
      BY <3>2, <3>3, <1>1
  <2>2. Decided /\ \A i \in DOMAIN <<>> : Sound(M, <<>>[i])'
    BY <1>4 DEF IInv
  <2> QED
    BY <2>1, <2>2, <1>1, <1>6, DecidedStep
<1> QED
  BY <1>1, <1>3, <1>4, <1>6, <1>10, <1>11, <1>12, <1>13, CoreStep

LEMMA StillKeeps ==
  ASSUME IInv, UNCHANGED <<rows, nextId, games, matcher, ending, slots, todo>>
  PROVE  IInv'
<1>1. /\ Shape /\ Contents /\ RowsOK /\ Places /\ Locks /\ Elected /\ Disjoint /\ Battles
      /\ slots \subseteq Players
  BY DEF IInv, Typed
<1>2. Shape' /\ Places' /\ Battles'
  BY <1>1 DEF Shape, Places, Battles, MayEnd, BattlesEnd
<1>3. Contents'
  BY <1>1 DEF Contents, Points
<1>4. Locks'
  BY <1>1 DEF Locks, Holds, EndsAlone
<1>5. RowsOK' /\ GamesKept /\ RowsFrom
  BY <1>1, SameRows
<1>6. Undecided' \subseteq Undecided
  BY DEF Undecided, Undisturbed, BattlesEnd, Doomed
<1>7. Disjoint'
  BY <1>1, <1>5, <1>6, DisjointStays
<1>8. Elected'
  <2>1. ASSUME NEW t \in Threads, NEW i \in DOMAIN todo[t] PROVE Promised(todo[t], i)'
    <3>1. Promised(todo[t], i) /\ Points(todo[t][i])
      BY <1>1 DEF Elected, Contents
    <3> QED
      BY <3>1, <1>5, <1>6, PromisesStay
  <2> QED
    BY <2>1 DEF Elected
<1>9. Decided'
  BY DEF IInv, Decided, Sound, Ends
<1> QED
  BY <1>1, <1>2, <1>3, <1>4, <1>5, <1>7, <1>8, <1>9 DEF IInv, Typed

\* A restart cuts lists off.  Where no battle ends, that dooms and saves nobody.
LEMMA RestartKeeps ==
  ASSUME IInv, Undisturbed => ~BattlesEnd, RestartServer \/ RestartScheduler
  PROVE  IInv'
<1>1. /\ Shape /\ Contents /\ RowsOK /\ Places /\ Locks /\ Elected /\ Disjoint /\ Battles
      /\ slots \subseteq Players /\ UNCHANGED <<rows, nextId, games, slots>>
      /\ RowsOK' /\ GamesKept /\ RowsFrom
  <2>1. UNCHANGED <<rows, nextId, games, slots>>
    BY DEF RestartServer, RestartScheduler, db, play, entry
  <2> QED
    BY <2>1, SameRows DEF IInv, Typed
<1>2. \A i \in DOMAIN todo["scheduler"] : todo["scheduler"][i].op \notin {"endgame", "ended"}
  BY <1>1 DEF Battles, MayEnd, Threads
<1>3. Undisturbed => \A g, id : ~Doomed(g, id)
  BY <1>1 DEF Battles, MayEnd, Doomed, Ends
<1>4. Undecided' \subseteq Undecided
  BY <1>1, <1>3 DEF Undecided, Undisturbed, BattlesEnd
<1>5. IsList(<<>>) /\ DOMAIN <<>> = {}
  BY ShortLists, ListFacts
<1>6. CASE RestartServer
  <2>1. /\ todo' = [th \in Threads |-> IF th = "scheduler" THEN todo[th] ELSE <<>>]
        /\ matcher' = NoOne /\ ending' = {} /\ "scheduler" \in Threads
        /\ "scheduler" \notin Players
    BY <1>6, EventAssumption DEF RestartServer, Threads
  <2>2. ASSUME NEW t \in Threads, NEW i \in DOMAIN todo'[t]
        PROVE  t = "scheduler" /\ todo'[t] = todo[t]
    BY <2>1, <1>5
  <2>3. Shape'
    BY <2>1, <1>1, <1>5 DEF Shape
  <2>4. Places' /\ Battles'
    BY <2>2, <1>1, <1>2 DEF Places, Battles
  <2>5. Contents'
    BY <2>2, <1>1 DEF Contents, Points
  <2>6. Locks'
    <3> SUFFICES ASSUME NEW t \in Threads, NEW i \in DOMAIN todo'[t] PROVE Holds(t, i)'
      BY DEF Locks
    <3>1. todo'[t] = todo[t] /\ Holds(t, i) /\ t \notin Players
      BY <2>1, <2>2, <1>1 DEF Locks
    <3>2. todo'[t][i].op \notin Matching \cup {"ended"}
      BY <3>1, <2>2, <1>2 DEF Holds
    <3> QED
      BY <3>2 DEF Holds, EndsAlone, Matching
  <2>7. Elected'
    <3> SUFFICES ASSUME NEW t \in Threads, NEW i \in DOMAIN todo'[t] PROVE Promised(todo[t], i)'
      BY DEF Elected
    <3>1. todo'[t] = todo[t] /\ Promised(todo[t], i) /\ Points(todo[t][i])
      BY <2>2, <1>1 DEF Elected, Contents
    <3>2. PICK L : L = todo[t]
      OBVIOUS
    <3>3. Promised(L, i)'
      BY <3>1, <3>2, <1>1, <1>4, PromisesStay
    <3> QED
      BY <3>1, <3>2, <3>3
  <2>8. Disjoint'
    BY <1>1, <1>4, DisjointStays
  <2>9. Decided'
    <3> SUFFICES ASSUME NoForfeits, NEW t \in Threads, NEW i \in DOMAIN todo'[t]
                 PROVE  Sound(todo[t], todo[t][i])'
      BY DEF Decided
    <3>1. todo'[t] = todo[t] /\ Sound(todo[t], todo[t][i])
      BY <2>2 DEF IInv, Decided
    <3> QED
      BY <3>1, <1>1 DEF Sound, Ends
  <2> QED
    BY <2>3, <2>4, <2>5, <2>6, <2>7, <2>8, <2>9, <1>1 DEF IInv, Typed
<1>7. CASE RestartScheduler
  <2>1. PICK a, b : a = [op |-> "retire"] /\ b = [op |-> "orphans"]
    OBVIOUS
  <2>2. PICK S : S = <<a, b>>
    OBVIOUS
  <2>3. /\ todo' = [todo EXCEPT !["scheduler"] = S] /\ UNCHANGED <<matcher, ending>>
        /\ "scheduler" \in Threads
    BY <1>7, <2>1, <2>2 DEF RestartScheduler, Threads
  <2>4. Easy(a, "scheduler") /\ Easy(b, "scheduler")
    BY <2>1, EasyOthers
  <2>5. EasyList(S, "scheduler")
    BY <2>2, <2>4, EasyLists
  <2>6. Spliced(S, S, <<>>)
    BY <2>5, SpliceNew DEF EasyList
  <2>7. \A i \in DOMAIN S : /\ Fits(S[i]) /\ Points(S[i])' /\ Tame(S[i], "scheduler")
                            /\ S[i].op \notin Strict
    BY <2>5 DEF EasyList, Easy, Tame, Points, Strict
  <2>8. \A i \in DOMAIN S : Placed(S, i)
    <3>1. \A i \in DOMAIN <<>> : Placed(<<>>, i)
      BY <1>5
    <3> QED
      BY <2>5, <2>6, <3>1, PlacedEasy
  <2>9. \A i \in DOMAIN S : i \in DOMAIN S => Promised(S, i)'
    BY <2>7 DEF Promised, Strict
  <2>10. Decided'
    <3>1. \A i \in DOMAIN S : S[i] \in {a, b}
      BY <2>2, ShortLists, ListFacts
    <3>2. \A i \in DOMAIN S : Plain(S[i])
      BY <3>1, <2>1 DEF Plain
    <3> QED
      BY <3>2, <2>3, <2>6, <1>1, PlainStep
  <2> QED
    BY <2>3, <2>6, <2>7, <2>8, <2>9, <2>10, <1>1, <1>4, AnyStep
<1> QED
  BY <1>6, <1>7

--------------------------------------------------------------------------
\* The theorems.

LEMMA StartHolds == Init => IInv /\ restarts \in Nat
<1> SUFFICES ASSUME Init PROVE IInv /\ restarts \in Nat
  OBVIOUS
<1>1. IsList(<<>>) /\ DOMAIN <<>> = {}
  BY ShortLists, ListFacts
<1>2. /\ todo = [th \in Threads |-> <<>>] /\ rows = {} /\ nextId = 1 /\ games = <<>>
      /\ restarts = 0 /\ slots \subseteq Players
  BY EventAssumption DEF Init
<1>3. Shape /\ \A th \in Threads : DOMAIN todo[th] = {}
  BY <1>1, <1>2 DEF Shape
<1>4. Contents /\ Places /\ Locks /\ Elected /\ Battles /\ Decided
  BY <1>3 DEF Contents, Places, Locks, Elected, Battles, Decided
<1>5. RowsOK /\ Disjoint
  BY <1>2 DEF RowsOK, Disjoint, Undecided
<1> QED
  BY <1>2, <1>3, <1>4, <1>5 DEF IInv, Typed

LEMMA ThreadKeeps ==
  ASSUME IInv, NEW th \in Threads, ThreadStep(th)
  PROVE  IInv'
<1>1. CASE SignupStep(th)
  BY <1>1, SignupKeeps
<1>2. CASE MatchStep(th)
  BY <1>2, SearchKeeps, EnqueueKeeps, LockMatcherKeeps, ElectKeeps, UnlockMatcherKeeps,
     CreateKeeps, InsertKeeps, DiscardKeeps DEF MatchStep
<1>3. CASE ResultStep(th)
  BY <1>3, EndGameKeeps, GameEndedKeeps, ForfeitKeeps, ResultKeeps, CompleteKeeps, QuietKeeps
     DEF ResultStep
<1>4. CASE RetireStep(th)
  BY <1>4, LimitKeeps, FinalizeKeeps, RecordKeeps, ClearingKeeps, QuietKeeps, RetireKeeps,
     OverdueKeeps DEF RetireStep
<1> QED
  BY <1>1, <1>2, <1>3, <1>4 DEF ThreadStep

LEMMA StepKeeps ==
  ASSUME IInv, restarts \in Nat, [Next]_vars
  PROVE  IInv' /\ (restarts \in Nat)'
<1>1. CASE Request
  <2>1. restarts' = restarts
    BY <1>1 DEF Request, Enter, Reconnect, SaveDeck, Search, CancelSearch, Leave, Concede,
                Disconnect, Timeout, Sweep, bounds
  <2> QED
    BY <1>1, <2>1, RequestKeeps
<1>2. CASE \E th \in Threads : ThreadStep(th)
  <2>1. PICK th \in Threads : ThreadStep(th)
    BY <1>2
  <2>2. restarts' = restarts
    BY <2>1 DEF ThreadStep, SignupStep, MatchStep, ResultStep, RetireStep, bounds,
       Join, AddSignup, SetAsync, StopSearching, SignupStatus, WriteSlots, Revive, Register,
       WritePool, Drop, SearchStep, Enqueue, LockMatcher, Elect, UnlockMatcher, CreateGame,
       InsertRow, DiscardRow, EraseGame, EndGame, GameEnded, ForfeitStep, ReadResult,
       CompleteRow, StartRoom, CheckLimit, Finalize, RecordRun, ClearLive, PurgeRows,
       SendReward, RetireRuns, Overdue, ClearOrphans
  <2> QED
    BY <2>1, <2>2, ThreadKeeps
<1>3. CASE (\E g \in DOMAIN games : Age(g)) \/ UNCHANGED vars
  <2>1. UNCHANGED <<rows, nextId, games, matcher, ending, slots, todo, restarts>>
    BY <1>3 DEF Age, vars, db, play, entry, bounds
  <2> QED
    BY <2>1, StillKeeps
<1>4. CASE RestartServer \/ RestartScheduler
  <2>1. restarts < MaxRestarts /\ restarts' = restarts + 1
    BY <1>4 DEF RestartServer, RestartScheduler
  <2>2. Undisturbed => ~BattlesEnd
    BY <2>1 DEF Undisturbed
  <2> QED
    BY <2>1, <2>2, <1>4, RestartKeeps
<1> QED
  BY <1>1, <1>2, <1>3, <1>4 DEF Next

LEMMA Invariance == Spec => []IInv
<1>1. IInv /\ restarts \in Nat /\ [Next]_vars => IInv' /\ (restarts \in Nat)'
  BY StepKeeps
<1>2. Spec => [](IInv /\ restarts \in Nat)
  BY <1>1, StartHolds, PTL DEF Spec
<1> QED
  BY <1>2, PTL

LEMMA DoomedIsEnding ==
  ASSUME IInv, NEW g, NEW id, Doomed(g, id)
  PROVE  g \in ending
<1>1. PICK th \in Threads : Ends(todo[th], g)
  BY DEF Doomed
<1>2. PICK j \in DOMAIN todo[th] : todo[th][j].op = "ended" /\ todo[th][j].game = g
  BY <1>1 DEF Ends
<1> QED
  BY <1>2 DEF IInv, Locks, Holds, EndsAlone

LEMMA OneAtATime == IInv /\ Undisturbed => OneMatch
<1> SUFFICES ASSUME IInv, Undisturbed, NEW p \in Players
             PROVE  Cardinality({r \in Unfinished(p) : r.game \notin ending}) <= 1
  BY DEF OneMatch
<1> DEFINE U == {r \in Unfinished(p) : r.game \notin ending}
<1>1. ASSUME NEW r \in U, NEW s \in U PROVE r = s
  <2>1. r \in rows /\ s \in rows /\ r.game \in Undecided /\ s.game \in Undecided
        /\ p \in Pair(r.game) /\ p \in Pair(s.game)
    BY DoomedIsEnding DEF Unfinished, Plays, Undecided, Pair, IInv, Typed, RowsOK
  <2>2. r.game = s.game
    BY <2>1 DEF IInv, Disjoint
  <2> QED
    BY <2>1, <2>2 DEF IInv, Typed, RowsOK
<1> HIDE DEF U
<1>2. Cardinality(U) <= 1
  <2>1. CASE U = {}
    BY <2>1, FS_EmptySet
  <2>2. CASE U # {}
    <3>1. PICK r : r \in U
      BY <2>2
    <3>2. U = {r}
      BY <3>1, <1>1
    <3>3. Cardinality({r}) = 1
      BY FS_Singleton
    <3> QED
      BY <3>2, <3>3
  <2> QED
    BY <2>1, <2>2
<1> QED
  BY <1>2 DEF U

\* Nobody is in two matches that are still to be decided, whoever searches,
\* discards, plays or leaves at the same time: for every set of players, where
\* no restart happens or no battle comes to its end.
THEOREM OneMatchAtATime ==
  ASSUME Undisturbed
  PROVE  Spec => []OneMatch
BY Invariance, OneAtATime, PTL

\* Matches are inserted, discarded, completed and struck off, nothing else.
LEMMA RowsChange ==
  ASSUME [Next]_vars
  PROVE  \/ rows' = rows /\ nextId' = nextId
         \/ \E th \in Threads : \/ InsertRow(th) \/ DiscardRow(th) \/ CompleteRow(th)
                               \/ ClearLive(th) \/ PurgeRows(th)
<1>1. CASE Request
  BY <1>1 DEF Request, Enter, Reconnect, SaveDeck, Search, CancelSearch, Leave, Concede,
              Disconnect, Timeout, Sweep, db, play
<1>2. ASSUME NEW th \in Threads, ThreadStep(th)
      PROVE  \/ rows' = rows /\ nextId' = nextId
             \/ InsertRow(th) \/ DiscardRow(th) \/ CompleteRow(th) \/ ClearLive(th)
             \/ PurgeRows(th)
  BY <1>2 DEF ThreadStep, SignupStep, MatchStep, ResultStep, RetireStep, db, play,
     Join, AddSignup, SetAsync, StopSearching, SignupStatus, WriteSlots, Revive, Register,
     WritePool, Drop, SearchStep, Enqueue, LockMatcher, Elect, UnlockMatcher, CreateGame,
     EraseGame, EndGame, GameEnded, ForfeitStep, ReadResult, StartRoom, CheckLimit, Finalize,
     RecordRun, SendReward, RetireRuns, Overdue, ClearOrphans
<1>3. CASE (\E g \in DOMAIN games : Age(g)) \/ UNCHANGED vars
  BY <1>3 DEF Age, vars, db, play
<1>4. CASE RestartServer \/ RestartScheduler
  BY <1>4 DEF RestartServer, RestartScheduler, db, play
<1> QED
  BY <1>1, <1>2, <1>3, <1>4 DEF Next

\* The row a result completes was open, for nobody else ends that game.
LEMMA ResultStandsStep ==
  ASSUME IInv, NoForfeits, [Next]_vars
  PROVE  \A r \in rows, s \in rows' : r.done /\ s.id = r.id => s.done /\ s.winner = r.winner
<1> SUFFICES ASSUME NEW r \in rows, NEW s \in rows', r.done, s.id = r.id
             PROVE  s.done /\ s.winner = r.winner
  OBVIOUS
<1>0. /\ RowsOK /\ r \in Row /\ r.id < nextId /\ r.id \in Nat
      /\ \A x, y \in rows : x.id = y.id => x = y
  BY DEF IInv, Typed, RowsOK, Row
<1>1. CASE s \in rows
  BY <1>0, <1>1
<1>2. ASSUME NEW th \in Threads, InsertRow(th) PROVE s \in rows
  <2>1. s \in rows \/ s.id = nextId
    BY <1>2 DEF InsertRow, NewRow
  <2> QED
    BY <2>1, <1>0
<1>3. ASSUME NEW th \in Threads, DiscardRow(th) \/ PurgeRows(th) PROVE s \in rows
  BY <1>3 DEF DiscardRow, PurgeRows
<1>4. ASSUME NEW th \in Threads, ClearLive(th) PROVE s.done /\ s.winner = r.winner
  <2>1. PICK x \in rows : s = Cleared(x, Now(th).who)
    BY <1>4 DEF ClearLive
  <2>2. x \in Row
    BY <1>0 DEF RowsOK
  <2>3. s.id = x.id /\ s.done = x.done /\ s.winner = x.winner
    BY <2>1, <2>2, ClearedRow
  <2> QED
    BY <2>3, <1>0
<1>5. ASSUME NEW th \in Threads, CompleteRow(th) PROVE s \in rows
  <2>1. Do(th, "complete")
    BY <1>5 DEF CompleteRow
  <2>2. Sound(todo[th], Now(th)) /\ Now(th).op = "complete"
    BY <2>1, Running DEF IInv, Decided
  <2>3. r.id # Now(th).id
    BY <2>2 DEF Sound
  <2>4. PICK x \in rows : s = IF x.id # Now(th).id THEN x
                             ELSE [x EXCEPT !.done = TRUE, !.winner = Now(th).winner]
    BY <1>5 DEF CompleteRow
  <2>5. x \in Row
    BY <1>0 DEF RowsOK
  <2>6. x.id # Now(th).id
    BY <2>3, <2>4, <2>5 DEF Row
  <2> QED
    BY <2>4, <2>6
<1> QED
  BY <1>1, <1>2, <1>3, <1>4, <1>5, RowsChange

\* A match that has been decided keeps its winner, however searches, timeouts,
\* concessions, discards and restarts interleave: for every set of players,
\* where nobody leaves and the scheduler forfeits nobody
\* (db_tournament_match_result, tournament_db.py:488).
THEOREM DecidedIsFinal ==
  ASSUME NoForfeits
  PROVE  Spec => ResultStands
<1>1. IInv /\ [Next]_vars =>
        [\A r \in rows, s \in rows' : r.done /\ s.id = r.id
           => s.done /\ s.winner = r.winner]_vars
  BY ResultStandsStep
<1> QED
  BY <1>1, Invariance, PTL DEF Spec, ResultStands

--------------------------------------------------------------------------
\* Types.

SignupType == [status : {"none", "active", "withdrew"}, ready : BOOLEAN, searching : BOOLEAN]
Tables ==
  /\ started \in BOOLEAN /\ signup \in [Players -> SignupType]
  /\ pool \in [Players -> BOOLEAN] /\ online \in [Players -> BOOLEAN]
  /\ results \in [Players -> Seq(Run)] /\ mail \in [Players -> Seq(Nat)]
Sets ==
  /\ nextId \in Nat \ {0} /\ (\A r \in rows : r.id # 0)
  /\ matcher \in Threads \cup {NoOne} /\ ending \cup stale \subseteq DOMAIN games

LEMMA TablesFits ==
  ASSUME IInv, NEW th \in Threads, NEW op, Do(th, op), op \in WhoOps
  PROVE  Now(th).who \in Players /\ Fits(Now(th))
BY Running DEF Fits

LEMMA TablesSignup ==
  ASSUME IInv, Tables, NEW th \in Threads, SignupStep(th)
  PROVE  Tables'
<1>1. CASE AddSignup(th)
  <2>1. Now(th).who \in Players
    BY <1>1, TablesFits DEF AddSignup, WhoOps
  <2> QED
    BY <1>1, <2>1 DEF AddSignup, Tables, SignupType, NewSignup, outcome
<1>2. CASE SetAsync(th)
  <2>1. Now(th).who \in Players /\ Now(th).ready \in BOOLEAN /\ Now(th).searching \in BOOLEAN
    BY <1>2, Running DEF SetAsync, WhoOps, Fits
  <2> QED
    BY <1>2, <2>1 DEF SetAsync, Tables, SignupType, outcome
<1>3. CASE StopSearching(th)
  <2>1. Now(th).who \in Players
    BY <1>3, TablesFits DEF StopSearching, WhoOps
  <2> QED
    BY <1>3, <2>1 DEF StopSearching, Tables, SignupType, outcome
<1>4. CASE SignupStatus(th)
  <2>1. Now(th).who \in Players /\ Now(th).status \in {"active", "withdrew"}
    BY <1>4, Running DEF SignupStatus, WhoOps, Fits
  <2> QED
    BY <1>4, <2>1 DEF SignupStatus, Tables, SignupType, outcome
<1>5. CASE Drop(th)
  <2>1. Now(th).who \in Players
    BY <1>5, TablesFits DEF Drop, WhoOps
  <2>2. PICK p : p = Now(th).who
    OBVIOUS
  <2>a. PICK free \in BOOLEAN : free <=> ~(Active(p) /\ Unfinished(p) = {})
    OBVIOUS
  <2>3. /\ signup' = [signup EXCEPT ![p].searching = @ /\ free]
        /\ online' = [online EXCEPT ![p] = FALSE]
        /\ UNCHANGED <<started, pool, results, mail>>
    BY <1>5, <2>2, <2>a DEF Drop, outcome
  <2>4. online' \in [Players -> BOOLEAN]
    BY <2>3 DEF Tables
  <2>5. signup' \in [Players -> SignupType]
    <3>1. signup \in [Players -> SignupType] /\ signup[p] \in SignupType
      BY <2>1, <2>2 DEF Tables
    <3>2. [signup[p] EXCEPT !.searching = signup[p].searching /\ free]
            = [status |-> signup[p].status, ready |-> signup[p].ready,
               searching |-> signup[p].searching /\ free]
      BY <3>1 DEF SignupType
    <3>3. [signup[p] EXCEPT !.searching = signup[p].searching /\ free] \in SignupType
      BY <3>1, <3>2 DEF SignupType
    <3>4. signup' = [signup EXCEPT ![p] =
                       [signup[p] EXCEPT !.searching = signup[p].searching /\ free]]
      BY <2>3, <3>1
    <3> QED
      BY <3>1, <3>3, <3>4
  <2> QED
    BY <2>3, <2>4, <2>5 DEF Tables
<1>6. CASE Register(th)
  <2>1. Now(th).who \in Players
    BY <1>6, TablesFits DEF Register, WhoOps
  <2> QED
    BY <1>6, <2>1 DEF Register, Tables, db, entry, outcome
<1>7. CASE WritePool(th)
  <2>1. Now(th).who \in Players
    BY <1>7, TablesFits DEF WritePool, WhoOps
  <2>2. Active(Now(th).who) \in BOOLEAN
    BY DEF Active
  <2> QED
    BY <1>7, <2>1, <2>2 DEF WritePool, Tables, outcome
<1>8. CASE Join(th) \/ WriteSlots(th) \/ Revive(th)
  BY <1>8 DEF Join, WriteSlots, Revive, Tables, db, entry, outcome
<1> QED
  BY <1>1, <1>2, <1>3, <1>4, <1>5, <1>6, <1>7, <1>8 DEF SignupStep

LEMMA TablesOthers ==
  ASSUME IInv, Tables, NEW th \in Threads, MatchStep(th) \/ ResultStep(th) \/ RetireStep(th)
  PROVE  Tables'
<1>1. CASE MatchStep(th)
  BY <1>1 DEF MatchStep, SearchStep, Enqueue, LockMatcher, Elect, UnlockMatcher, CreateGame,
     InsertRow, DiscardRow, EraseGame, Tables, db, entry, outcome
<1>2. CASE ResultStep(th)
  BY <1>2 DEF ResultStep, EndGame, GameEnded, ForfeitStep, ReadResult, CompleteRow, StartRoom,
     Tables, db, entry, outcome
<1>3. CASE RecordRun(th)
  <2>1. Now(th).who \in Players /\ Now(th).run \in Run
    BY <1>3, Running DEF RecordRun, WhoOps, Fits
  <2>2. Append(results[Now(th).who], Now(th).run) \in Seq(Run)
    BY <2>1, AppendProperties DEF Tables
  <2>3. \/ results' = [results EXCEPT ![Now(th).who] = Append(@, Now(th).run)]
        \/ results' = results
    BY <1>3 DEF RecordRun
  <2>4. results' \in [Players -> Seq(Run)]
    BY <2>1, <2>2, <2>3 DEF Tables
  <2> QED
    BY <1>3, <2>4 DEF RecordRun, Tables, entry
<1>4. CASE SendReward(th)
  <2>1. Now(th).who \in Players /\ Now(th).final \in Nat
    BY <1>4, Running DEF SendReward, WhoOps, Fits
  <2> QED
    BY <1>4, <2>1, AppendProperties DEF SendReward, Tables, entry
<1>5. CASE ClearOrphans(th)
  <2>1. signup' = [p \in Players |->
                     [signup[p] EXCEPT !.searching = @ /\ ~(Active(p) /\ Unfinished(p) = {})]]
    BY <1>5 DEF ClearOrphans
  <2>2. ASSUME NEW p \in Players
        PROVE  [signup[p] EXCEPT !.searching = @ /\ ~(Active(p) /\ Unfinished(p) = {})]
                 \in SignupType
    <3>1. signup[p] \in SignupType
      BY DEF Tables
    <3>2. PICK free \in BOOLEAN : free <=> ~(Active(p) /\ Unfinished(p) = {})
      OBVIOUS
    <3>3. [signup[p] EXCEPT !.searching = @ /\ free] \in SignupType
      BY <3>1 DEF SignupType
    <3> QED
      BY <3>2, <3>3
  <2>3. signup' \in [Players -> SignupType]
    BY <2>1, <2>2
  <2> QED
    BY <1>5, <2>3 DEF ClearOrphans, Tables, outcome
<1>6. CASE RetireStep(th) /\ ~RecordRun(th) /\ ~SendReward(th) /\ ~ClearOrphans(th)
  BY <1>6 DEF RetireStep, CheckLimit, Finalize, ClearLive, PurgeRows, RetireRuns, Overdue,
     Tables, db, entry, outcome
<1> QED
  BY <1>1, <1>2, <1>3, <1>4, <1>5, <1>6

LEMMA TablesKept ==
  ASSUME IInv, Tables, [Next]_vars
  PROVE  Tables'
<1>1. CASE Request
  BY <1>1 DEF Request, Enter, Reconnect, SaveDeck, Search, CancelSearch, Leave, Concede,
              Disconnect, Timeout, Sweep, db, entry, outcome, Tables
<1>2. CASE \E th \in Threads : ThreadStep(th)
  BY <1>2, TablesSignup, TablesOthers DEF ThreadStep
<1>3. CASE (\E g \in DOMAIN games : Age(g)) \/ UNCHANGED vars
  BY <1>3 DEF Age, vars, db, entry, outcome, Tables
<1>4. CASE RestartServer \/ RestartScheduler
  BY <1>4 DEF RestartServer, RestartScheduler, db, entry, outcome, Tables
<1> QED
  BY <1>1, <1>2, <1>3, <1>4 DEF Next

\* Games are never forgotten, and their locks and ages are those of games.
LEMMA GamesGrow ==
  ASSUME IInv, [Next]_vars
  PROVE  DOMAIN games \subseteq DOMAIN games'
<1>1. CASE Request
  BY <1>1 DEF Request, Enter, Reconnect, SaveDeck, Search, CancelSearch, Leave, Concede,
              Disconnect, Timeout, Sweep, db, play
<1>2. ASSUME NEW th \in Threads, CreateGame(th) PROVE DOMAIN games \subseteq DOMAIN games'
  <2>1. games \in Seq(GameType) /\ games' = Append(games, [pair |-> Now(th).pair, state |-> "playing"])
        /\ Now(th).pair \in Players \X Players
    BY <1>2, Running DEF CreateGame, IInv, Typed, RowsOK, Fits
  <2>2. [pair |-> Now(th).pair, state |-> "playing"] \in GameType
    BY <2>1 DEF GameType
  <2>3. /\ games' \in Seq(GameType) /\ Len(games') = Len(games) + 1
        /\ DOMAIN games = 1..Len(games) /\ DOMAIN games' = 1..Len(games') /\ Len(games) \in Nat
    BY <2>1, <2>2, AppendProperties, LenProperties
  <2> QED
    BY <2>3
<1>3. ASSUME NEW th \in Threads, ThreadStep(th), ~CreateGame(th)
      PROVE  DOMAIN games \subseteq DOMAIN games'
  BY <1>3 DEF ThreadStep, SignupStep, MatchStep, ResultStep, RetireStep, db, play,
     Join, AddSignup, SetAsync, StopSearching, SignupStatus, WriteSlots, Revive, Register,
     WritePool, Drop, SearchStep, Enqueue, LockMatcher, Elect, UnlockMatcher, InsertRow,
     DiscardRow, EraseGame, EndGame, GameEnded, ForfeitStep, ReadResult, CompleteRow,
     StartRoom, CheckLimit, Finalize, RecordRun, ClearLive, PurgeRows, SendReward,
     RetireRuns, Overdue, ClearOrphans
<1>4. CASE \/ \E g \in DOMAIN games : Age(g)
           \/ UNCHANGED vars \/ RestartServer \/ RestartScheduler
  BY <1>4 DEF Age, vars, db, play, RestartServer, RestartScheduler
<1> QED
  BY <1>1, <1>2, <1>3, <1>4 DEF Next

LEMMA SetsKept ==
  ASSUME IInv, Sets, [Next]_vars
  PROVE  Sets'
<1>1. DOMAIN games \subseteq DOMAIN games'
  BY GamesGrow
<1>2. nextId' \in Nat \ {0} /\ (\A r \in rows' : r.id # 0)
  <2>1. CASE rows' = rows /\ nextId' = nextId
    BY <2>1 DEF Sets
  <2>2. ASSUME NEW th \in Threads, InsertRow(th)
        PROVE  nextId' \in Nat \ {0} /\ (\A r \in rows' : r.id # 0)
    BY <2>2 DEF InsertRow, NewRow, Sets
  <2>3. ASSUME NEW th \in Threads, DiscardRow(th) \/ PurgeRows(th)
        PROVE  nextId' \in Nat \ {0} /\ (\A r \in rows' : r.id # 0)
    BY <2>3 DEF DiscardRow, PurgeRows, Sets
  <2>4. ASSUME NEW th \in Threads, ClearLive(th) \/ CompleteRow(th)
        PROVE  nextId' \in Nat \ {0} /\ (\A r \in rows' : r.id # 0)
    <3>1. ASSUME NEW r \in rows' PROVE \E x \in rows : r.id = x.id
      <4>1. CASE ClearLive(th)
        BY <4>1, ClearedRow DEF ClearLive, IInv, Typed, RowsOK
      <4>2. CASE CompleteRow(th)
        <5>1. PICK x \in rows : r = IF x.id # Now(th).id THEN x
                                   ELSE [x EXCEPT !.done = TRUE, !.winner = Now(th).winner]
          BY <4>2 DEF CompleteRow
        <5>2. x \in Row
          BY DEF IInv, Typed, RowsOK
        <5> QED
          BY <5>1, <5>2 DEF Row
      <4> QED
        BY <2>4, <4>1, <4>2
    <3> QED
      BY <2>4, <3>1 DEF ClearLive, CompleteRow, Sets
  <2>5. \/ rows' = rows /\ nextId' = nextId
        \/ \E th \in Threads : \/ InsertRow(th) \/ DiscardRow(th) \/ CompleteRow(th)
                              \/ ClearLive(th) \/ PurgeRows(th)
    BY RowsChange DEF Sets
  <2> QED
    BY <2>1, <2>2, <2>3, <2>4, <2>5
<1>3. matcher' \in Threads \cup {NoOne} /\ ending' \cup stale' \subseteq DOMAIN games
  <2>1. CASE Request
    BY <2>1 DEF Request, Enter, Reconnect, SaveDeck, Search, CancelSearch, Leave, Concede,
                Disconnect, Timeout, Sweep, bounds, Sets
  <2>2. ASSUME NEW th \in Threads, ThreadStep(th)
        PROVE  matcher' \in Threads \cup {NoOne} /\ ending' \cup stale' \subseteq DOMAIN games
    <3>1. CASE EndGame(th)
      <4>1. Now(th).game \in DOMAIN games
        BY <3>1, Running DEF EndGame, Points
      <4> QED
        BY <3>1, <4>1 DEF EndGame, bounds, Sets
    <3>2. CASE GameEnded(th) \/ LockMatcher(th) \/ UnlockMatcher(th)
      BY <3>2 DEF GameEnded, LockMatcher, UnlockMatcher, Released, bounds, Sets
    <3>3. CASE ~EndGame(th) /\ ~GameEnded(th) /\ ~LockMatcher(th) /\ ~UnlockMatcher(th)
      BY <2>2, <3>3 DEF ThreadStep, SignupStep, MatchStep, ResultStep, RetireStep, bounds, Sets,
         Join, AddSignup, SetAsync, StopSearching, SignupStatus, WriteSlots, Revive, Register,
         WritePool, Drop, SearchStep, Enqueue, Elect, CreateGame, InsertRow, DiscardRow,
         EraseGame, ForfeitStep, ReadResult, CompleteRow, StartRoom, CheckLimit, Finalize,
         RecordRun, ClearLive, PurgeRows, SendReward, RetireRuns, Overdue, ClearOrphans
    <3> QED
      BY <3>1, <3>2, <3>3
  <2>3. CASE (\E g \in DOMAIN games : Age(g)) \/ UNCHANGED vars
    BY <2>3 DEF Age, vars, bounds, Sets
  <2>4. CASE RestartServer \/ RestartScheduler
    BY <2>4 DEF RestartServer, RestartScheduler, Sets
  <2> QED
    BY <2>1, <2>2, <2>3, <2>4 DEF Next
<1>4. ending' \cup stale' \subseteq DOMAIN games'
  BY <1>1, <1>3
<1> QED
  BY <1>2, <1>3, <1>4 DEF Sets

LEMMA TablesStart == Init => Tables /\ Sets
<1> SUFFICES ASSUME Init PROVE Tables /\ Sets
  OBVIOUS
<1>1. NewSignup \in SignupType /\ NoSignup \in SignupType
  BY DEF NewSignup, NoSignup, SignupType
<1>2. signup \in [Players -> SignupType]
  BY <1>1 DEF Init
<1>3. pool \in [Players -> BOOLEAN] /\ online \in [Players -> BOOLEAN]
  BY DEF Init
<1>4. results \in [Players -> Seq(Run)]
  BY EmptySeq DEF Init
<1>5. mail \in [Players -> Seq(Nat)]
  BY EmptySeq DEF Init
<1>6. started \in BOOLEAN
  BY DEF Init
<1>7. Sets
  BY DEF Init, Sets
<1> QED
  BY <1>2, <1>3, <1>4, <1>5, <1>6, <1>7 DEF Tables

\* Every table, lock and match of the event has its type, for every set of
\* players and whatever the threads, the scheduler and the restarts do.
THEOREM TypeCorrect == Spec => []TypeOK
<1>1. Init => Tables /\ Sets
  BY TablesStart
<1>2. IInv /\ Tables /\ Sets /\ [Next]_vars => Tables' /\ Sets'
  BY TablesKept, SetsKept
<1>3. IInv /\ Tables /\ Sets => TypeOK
  <2> SUFFICES ASSUME IInv, Tables, Sets PROVE TypeOK
    OBVIOUS
  <2>1. games \in Seq(GameType) /\ DOMAIN games = 1..Len(games) /\ Len(games) \in Nat
    BY LenProperties DEF IInv, Typed, RowsOK
  <2>2. \A g \in DOMAIN games : games[g].state \in {"playing", "ended", "gone"}
    <3>1. \A g \in DOMAIN games : games[g] \in GameType
      BY <2>1, LenProperties
    <3> QED
      BY <3>1 DEF GameType
  <2>3. ASSUME NEW r \in rows PROVE r \in Match /\ r.id < nextId
    <3>1. /\ r \in Row /\ r.id < nextId /\ r.game \in 1..Len(games) /\ r.id # 0
      BY <2>1 DEF IInv, Typed, RowsOK, Sets
    <3>2. r.pair \in Seq(Players)
      <4>1. PICK a \in Players, b \in Players : r.pair = <<a, b>>
        BY <3>1 DEF Row
      <4> QED
        BY <4>1
    <3>3. r.id \in Nat \ {0} /\ r.game \in Nat \ {0}
      BY <3>1, <2>1 DEF Row
    <3> QED
      BY <3>1, <3>2, <3>3 DEF Row, Match
  <2>4. \A p \in Players : results[p] \in Seq(Run) /\ mail[p] \in Seq(Nat)
    BY DEF Tables
  <2>5. slots \subseteq Players
    BY DEF IInv, Typed
  <2> QED
    BY <2>2, <2>3, <2>4, <2>5 DEF TypeOK, Tables, Sets, SignupType
<1> QED
  BY <1>1, <1>2, <1>3, Invariance, PTL DEF Spec


--------------------------------------------------------------------------
\* Requests served in turn: what a run leaves on record.

Serial == ~Overlap /\ MaxRestarts = 0
Alone == \A t, u \in Threads : ~Idle(t) /\ ~Idle(u) => t = u

\* A run is recorded, its rows are cleared, and its reward is sent, last.
Dues == {"record", "unlive", "mail"}
Retiring == {"record", "unlive", "purge", "unpool", "status"}

Won(run) == run.as = "completed" /\ run.wins >= RunWins
Due(p) == {results[p][i].final : i \in {k \in DOMAIN results[p] : Won(results[p][k])}}
Sent(p) == Range(mail[p])

Clears(L, p) == L # <<>> /\ L[1].op = "unlive" /\ L[1].who = p
Clearing(p) == \E th \in Threads : Clears(todo[th], p)

\* The runs of a player end in later and later matches, and what is live was
\* played after them.
RunsInOrder == \A p \in Players : \A i \in DOMAIN results[p] :
  /\ results[p][i].final < nextId
  /\ \A j \in DOMAIN results[p] : i < j => results[p][i].final < results[p][j].final
  /\ \A r \in rows : p \in r.live => results[p][i].final < r.id \/ Clearing(p)

\* What the run about to be recorded will be.
Recording(L) ==
  /\ 2 \in DOMAIN L /\ L[2].op = "unlive" /\ L[2].who = L[1].who
  /\ L[1].number = Len(results[L[1].who]) + 1
  /\ L[1].run.final < nextId
  /\ \A k \in DOMAIN results[L[1].who] : results[L[1].who][k].final < L[1].run.final
  /\ Won(L[1].run) => \E j \in DOMAIN L : L[j].op = "mail"
Rewarding(L, i) ==
  /\ \A j \in DOMAIN L : j < i => L[j].op \in Retiring
  /\ IF L[1].op = "record"
     THEN L[i].who = L[1].who /\ L[i].final = L[1].run.final /\ Won(L[1].run)
     ELSE L[i].final \in Due(L[i].who) \ Sent(L[i].who)
Settling(L, i) ==
  /\ L[i].op = "record" => i = 1 /\ Recording(L)
  /\ L[i].op = "unlive" => i = 1 \/ (i = 2 /\ L[1].op = "record")
  /\ L[i].op = "mail" => Rewarding(L, i)
Settlements == \A th \in Threads : \A i \in DOMAIN todo[th] : Settling(todo[th], i)

\* A reward is sent once, and what has not been sent is about to be.
Awaited(L, p, f) ==
  L # <<>> /\ L[1].op # "record"
  /\ \E i \in DOMAIN L : L[i].op = "mail" /\ L[i].who = p /\ L[i].final = f
Rewards == \A p \in Players :
  /\ Sent(p) \subseteq Due(p)
  /\ \A i, j \in DOMAIN mail[p] : mail[p][i] = mail[p][j] => i = j
  /\ \A f \in Due(p) \ Sent(p) : \E th \in Threads : Awaited(todo[th], p, f)

InTurn == Alone /\ RunsInOrder /\ Settlements /\ Rewards

\* Lists of statements none of which is of these.
Lacks(S, Ops) == IsList(S) /\ \A i \in DOMAIN S : S[i].op \notin Ops

LEMMA LacksLists ==
  ASSUME NEW Ops
  PROVE  /\ Lacks(<<>>, Ops)
         /\ \A a : a.op \notin Ops => Lacks(<<a>>, Ops)
         /\ \A a, b : a.op \notin Ops /\ b.op \notin Ops => Lacks(<<a, b>>, Ops)
         /\ \A a, b, c : a.op \notin Ops /\ b.op \notin Ops /\ c.op \notin Ops
                           => Lacks(<<a, b, c>>, Ops)
<1>1. Lacks(<<>>, Ops)
  BY ShortLists, ListFacts DEF Lacks
<1>2. ASSUME NEW a, a.op \notin Ops PROVE Lacks(<<a>>, Ops)
  BY <1>2, ShortLists DEF Lacks
<1>3. ASSUME NEW a, NEW b, a.op \notin Ops, b.op \notin Ops PROVE Lacks(<<a, b>>, Ops)
  BY <1>3, ShortLists DEF Lacks
<1>4. ASSUME NEW a, NEW b, NEW c, a.op \notin Ops, b.op \notin Ops, c.op \notin Ops
      PROVE  Lacks(<<a, b, c>>, Ops)
  BY <1>4, ShortLists DEF Lacks
<1> QED
  BY <1>1, <1>2, <1>3, <1>4

LEMMA LacksFive ==
  ASSUME NEW Ops, NEW a, NEW b, NEW c, NEW d, NEW e,
         {a.op, b.op, c.op, d.op, e.op} \cap Ops = {}
  PROVE  Lacks(<<a, b, c, d>>, Ops) /\ Lacks(<<a, b, c, d, e>>, Ops)
<1>1. ASSUME NEW n \in {4, 5}, NEW T \in Seq({a, b, c, d, e}), Len(T) = n PROVE Lacks(T, Ops)
  <2>1. IsList(T) /\ DOMAIN T = 1..n
    BY <1>1, SeqIsList, ListFacts
  <2>2. ASSUME NEW i \in DOMAIN T PROVE T[i] \in {a, b, c, d, e}
    BY <1>1, <2>1
  <2> QED
    BY <2>1, <2>2 DEF Lacks
<1>2. /\ <<a, b, c, d>> \in Seq({a, b, c, d, e}) /\ Len(<<a, b, c, d>>) = 4
      /\ <<a, b, c, d, e>> \in Seq({a, b, c, d, e}) /\ Len(<<a, b, c, d, e>>) = 5
  OBVIOUS
<1> QED
  BY <1>1, <1>2

LEMMA LacksConcat ==
  ASSUME NEW Ops, NEW A, NEW B, Lacks(A, Ops), Lacks(B, Ops)
  PROVE  Lacks(A \o B, Ops)
<1>1. /\ IsList(A \o B) /\ Len(A \o B) = Len(A) + Len(B)
      /\ \A i \in 1..Len(A) : (A \o B)[i] = A[i]
      /\ \A i \in 1..Len(B) : (A \o B)[Len(A) + i] = B[i]
  BY ListConcat DEF Lacks
<1>2. /\ DOMAIN (A \o B) = 1..Len(A \o B) /\ DOMAIN A = 1..Len(A) /\ DOMAIN B = 1..Len(B)
      /\ Len(A) \in Nat /\ Len(B) \in Nat
  BY <1>1, ListFacts DEF Lacks
<1>3. ASSUME NEW i \in DOMAIN (A \o B)
      PROVE  \/ i \in DOMAIN A /\ (A \o B)[i] = A[i]
             \/ \E j \in DOMAIN B : (A \o B)[i] = B[j]
  <2>1. CASE i \in 1..Len(A)
    BY <2>1, <1>1, <1>2
  <2>2. CASE i \notin 1..Len(A)
    <3>1. i - Len(A) \in 1..Len(B) /\ Len(A) + (i - Len(A)) = i
      BY <2>2, <1>1, <1>2
    <3> QED
      BY <3>1, <1>1, <1>2
  <2> QED
    BY <2>1, <2>2
<1> QED
  BY <1>1, <1>3 DEF Lacks

\* Lists that retire nobody.
Lazy(S) == IsList(S) /\ \A i \in DOMAIN S : S[i].op \notin Dues

LEMMA LazyIsLacking == \A S : Lazy(S) <=> Lacks(S, Dues)
BY DEF Lazy, Lacks

LEMMA LazyLists ==
  /\ Lazy(<<>>)
  /\ \A a : a.op \notin Dues => Lazy(<<a>>)
  /\ \A a, b : a.op \notin Dues /\ b.op \notin Dues => Lazy(<<a, b>>)
  /\ \A a, b, c : a.op \notin Dues /\ b.op \notin Dues /\ c.op \notin Dues => Lazy(<<a, b, c>>)
BY LazyIsLacking, LacksLists

LEMMA LazyConcat ==
  ASSUME NEW A, NEW B, Lazy(A), Lazy(B)
  PROVE  Lazy(A \o B)
BY LazyIsLacking, LacksConcat

\* Lists that decide nothing about a match either.
Weighty == {"result", "complete", "insert", "discard", "erase"}
Calm(S) == Lacks(S, Dues \cup Weighty)

LEMMA CalmLists ==
  /\ Calm(<<>>)
  /\ \A a : a.op \notin Dues \cup Weighty => Calm(<<a>>)
  /\ \A a, b : a.op \notin Dues \cup Weighty /\ b.op \notin Dues \cup Weighty => Calm(<<a, b>>)
  /\ \A a, b, c : a.op \notin Dues \cup Weighty /\ b.op \notin Dues \cup Weighty
                    /\ c.op \notin Dues \cup Weighty => Calm(<<a, b, c>>)
BY LacksLists DEF Calm

LEMMA CalmConcat ==
  ASSUME NEW A, NEW B, Calm(A), Calm(B)
  PROVE  Calm(A \o B)
BY LacksConcat DEF Calm

LEMMA CalmIsLazy ==
  ASSUME NEW S, Calm(S)
  PROVE  Lazy(S)
BY DEF Calm, Lacks, Lazy

\* What is left of a list without its first statement.
LEMMA TailOf ==
  ASSUME NEW L, IsList(L), L # <<>>, NEW M, M = <<>> \o Tail(L)
  PROVE  /\ IsList(M) /\ Len(M) = Len(L) - 1
         /\ \A i \in DOMAIN M : i \in Nat \ {0} /\ i + 1 \in DOMAIN L /\ M[i] = L[i + 1]
         /\ \A j \in DOMAIN L : j \in Nat \ {0} /\ (j # 1 => j - 1 \in DOMAIN M /\ M[j - 1] = L[j])
<1>1. IsList(<<>>) /\ Len(<<>>) = 0
  BY ShortLists
<1>2. Spliced(M, <<>>, L)
  BY <1>1, Splice
<1>3. /\ IsList(M) /\ Len(M) = Len(L) - 1 /\ \A j \in 2..Len(L) : M[j - 1] = L[j]
      /\ Len(M) \in Nat /\ Len(L) \in Nat /\ DOMAIN M = 1..Len(M) /\ DOMAIN L = 1..Len(L)
  BY <1>1, <1>2, ListFacts DEF Spliced
<1>4. ASSUME NEW i \in DOMAIN M
      PROVE  i \in Nat \ {0} /\ i + 1 \in DOMAIN L /\ M[i] = L[i + 1]
  <2>1. i + 1 \in 2..Len(L) /\ i = (i + 1) - 1
    BY <1>3
  <2> QED
    BY <2>1, <1>3
<1> QED
  BY <1>3, <1>4

\* What a step may do to the rows: old ones lose players, new ones are newer.
RowsAged ==
  /\ nextId \in Nat /\ nextId' \in Nat /\ nextId <= nextId'
  /\ \A r \in rows' : \/ r.id \in Nat /\ nextId <= r.id
                      \/ \E s \in rows : s.id = r.id /\ r.live \subseteq s.live

\* A thread that runs is alone.
LEMMA TheOthersRest ==
  ASSUME IInv, Alone, NEW th \in Threads, NEW op, Do(th, op), NEW M,
         todo' = [todo EXCEPT ![th] = M]
  PROVE  /\ todo'[th] = M /\ Alone'
         /\ \A t \in Threads : t # th => todo[t] = <<>> /\ todo'[t] = <<>>
         /\ \A p : Clearing(p) => op = "unlive" /\ Now(th).who = p
<1>1. todo[th] # <<>> /\ Now(th) = todo[th][1] /\ Now(th).op = op
  BY Running
<1>2. todo = [t \in Threads |-> todo[t]]
  BY DEF IInv, Typed, Shape
<1>3. \A t \in Threads : t # th => todo[t] = <<>>
  BY <1>1 DEF Alone, Idle
<1>4. todo'[th] = M /\ \A t \in Threads : t # th => todo'[t] = <<>>
  BY <1>2, <1>3
<1>5. Alone'
  BY <1>4 DEF Alone, Idle
<1>6. \A p : Clearing(p) => op = "unlive" /\ Now(th).who = p
  BY <1>1, <1>3 DEF Clearing, Clears
<1> QED
  BY <1>3, <1>4, <1>5, <1>6

LEMMA RunsStayInOrder ==
  ASSUME Tables, RunsInOrder, RowsAged, results' = results,
         \A p \in Players : ~Clearing(p)
  PROVE  RunsInOrder'
<1> SUFFICES ASSUME NEW p \in Players, NEW i \in DOMAIN results[p]
             PROVE  /\ results[p][i].final < nextId'
                    /\ \A j \in DOMAIN results[p] :
                         i < j => results[p][i].final < results[p][j].final
                    /\ \A r \in rows' : p \in r.live => results[p][i].final < r.id
  BY DEF RunsInOrder
<1>1. results[p][i].final \in Nat
  <2>1. results[p] \in Seq(Run)
    BY DEF Tables
  <2>2. results[p][i] \in Run
    BY <2>1
  <2> QED
    BY <2>2 DEF Run
<1>2. /\ results[p][i].final < nextId
      /\ \A j \in DOMAIN results[p] : i < j => results[p][i].final < results[p][j].final
      /\ \A r \in rows : p \in r.live => results[p][i].final < r.id
  BY DEF RunsInOrder
<1>3. ASSUME NEW r \in rows', p \in r.live PROVE results[p][i].final < r.id
  <2>1. CASE r.id \in Nat /\ nextId <= r.id
    BY <2>1, <1>1, <1>2 DEF RowsAged
  <2>2. CASE \E s \in rows : s.id = r.id /\ r.live \subseteq s.live
    BY <2>2, <1>2, <1>3
  <2> QED
    BY <2>1, <2>2 DEF RowsAged
<1> QED
  BY <1>1, <1>2, <1>3 DEF RowsAged

\* Where no retirement is under way, nothing of a thread's list retires.
LEMMA LazyList ==
  ASSUME IInv, InTurn, NEW th \in Threads, NEW op, Do(th, op), op \notin Dues \cup Retiring
  PROVE  Lazy(todo[th])
<1> DEFINE L == todo[th]
<1>1. L # <<>> /\ 1 \in DOMAIN L /\ IsList(L) /\ L[1].op = op
  BY Running
<1>2. ASSUME NEW i \in DOMAIN L PROVE L[i].op \notin Dues
  <2>1. Settling(L, i)
    BY DEF InTurn, Settlements
  <2>2. i \in Nat \ {0}
    BY <1>1, ListFacts
  <2>3. CASE L[i].op = "mail"
    <3>1. i # 1 => L[1].op \in Retiring
      BY <2>1, <2>2, <2>3, <1>1 DEF Settling, Rewarding
    <3> QED
      BY <3>1, <2>3, <1>1 DEF Dues
  <2>4. CASE L[i].op \in {"record", "unlive"}
    BY <2>1, <2>4, <1>1 DEF Settling, Dues
  <2> QED
    BY <2>3, <2>4 DEF Dues
<1> QED
  BY <1>1, <1>2 DEF Lazy

\* What is due has been sent when nothing that runs retires.
LEMMA NothingDue ==
  ASSUME InTurn, \A t \in Threads : Lazy(todo[t])
  PROVE  \A p \in Players : Due(p) \ Sent(p) = {} /\ ~Clearing(p)
<1> SUFFICES ASSUME NEW p \in Players PROVE Due(p) \ Sent(p) = {} /\ ~Clearing(p)
  OBVIOUS
<1>1. ~Clearing(p)
  <2>1. ASSUME NEW t \in Threads, Clears(todo[t], p) PROVE FALSE
    <3>1. IsList(todo[t]) /\ todo[t] # <<>> /\ todo[t][1].op = "unlive"
      BY <2>1 DEF Lazy, Clears
    <3>2. 1 \in DOMAIN todo[t]
      BY <3>1, ListFacts
    <3> QED
      BY <3>1, <3>2 DEF Lazy, Dues
  <2> QED
    BY <2>1 DEF Clearing
<1>2. \A t \in Threads : \A f : ~Awaited(todo[t], p, f)
  BY DEF Awaited, Lazy, Dues
<1> QED
  BY <1>1, <1>2 DEF InTurn, Rewards

\* From such a list to another.
LEMMA LazyMoves ==
  ASSUME IInv, Tables, InTurn, NEW th \in Threads, Lazy(todo[th]),
         \A t \in Threads : t # th => todo[t] = <<>>,
         NEW M, Lazy(M), todo' = [todo EXCEPT ![th] = M],
         results' = results, mail' = mail, RowsAged
  PROVE  InTurn'
<1>1. todo = [t \in Threads |-> todo[t]]
  BY DEF IInv, Typed, Shape
<1>2. todo'[th] = M /\ \A t \in Threads : t # th => todo'[t] = <<>>
  BY <1>1
<1>3. Alone'
  BY <1>2 DEF Alone, Idle
<1>4. \A p \in Players : Due(p) \ Sent(p) = {} /\ ~Clearing(p)
  BY NothingDue, LazyLists
<1>5. Settlements'
  <2>1. ASSUME NEW t \in Threads, NEW i \in DOMAIN todo'[t] PROVE todo'[t][i].op \notin Dues
    <3>1. t = th
      BY <1>2, ShortLists, ListFacts
    <3> QED
      BY <3>1, <1>2 DEF Lazy
  <2> QED
    BY <2>1 DEF Settlements, Settling, Dues
<1>6. Rewards'
  <2>1. \A p \in Players : Due(p)' = Due(p) /\ Sent(p)' = Sent(p)
    BY DEF Due, Sent
  <2> QED
    BY <1>4, <2>1 DEF Rewards, InTurn
<1>7. RunsInOrder'
  BY <1>4, RunsStayInOrder DEF InTurn
<1> QED
  BY <1>3, <1>5, <1>6, <1>7 DEF InTurn

\* A statement that adds such a list, where no retirement is under way.
LEMMA LazyKeeps ==
  ASSUME IInv, Tables, InTurn, NEW th \in Threads, NEW op, Do(th, op), op \notin Dues \cup Retiring,
         NEW S, Lazy(S), Then(th, S), results' = results, mail' = mail, RowsAged
  PROVE  InTurn'
<1> DEFINE L == todo[th]
           M == S \o Tail(L)
<1>1. L # <<>> /\ IsList(L) /\ IsList(S) /\ Lazy(L)
  BY Running, LazyList DEF Lazy
<1>2. todo' = [todo EXCEPT ![th] = M]
  BY DEF Then
<1>3. Spliced(M, S, L)
  BY <1>1, Splice
<1> HIDE DEF M
<1>4. Lazy(M)
  <2>1. IsList(M)
    BY <1>3 DEF Spliced
  <2>2. ASSUME NEW i \in DOMAIN M PROVE M[i].op \notin Dues
    <3>1. \/ i \in 1..Len(S) /\ M[i] = S[i]
          \/ \E j \in DOMAIN L : M[i] = L[j]
      BY <1>3, SplicedFrom
    <3>2. DOMAIN S = 1..Len(S)
      BY <1>1, ListFacts
    <3> QED
      BY <3>1, <3>2, <1>1 DEF Lazy
  <2> QED
    BY <2>1, <2>2 DEF Lazy
<1>5. \A t \in Threads : t # th => todo[t] = <<>>
  BY <1>1 DEF InTurn, Alone, Idle
<1> QED
  BY <1>1, <1>2, <1>4, <1>5, LazyMoves

\* The list of a retirement moves on, when nothing else is settled by it.
LEMMA SettledTail ==
  ASSUME NEW L, IsList(L), L # <<>>, L[1].op # "record", NEW M, M = <<>> \o Tail(L),
         \A i \in DOMAIN L : Settling(L, i)
  PROVE  /\ \A i \in DOMAIN M : M[i].op \notin {"record", "unlive"}
         /\ \A i \in DOMAIN M : M[i].op = "mail" =>
              /\ \A j \in DOMAIN M : j < i => M[j].op \in Retiring
              /\ M[i].final \in Due(M[i].who) \ Sent(M[i].who)
              /\ M[1].op # "record"
<1>1. /\ IsList(M)
      /\ \A i \in DOMAIN M : i \in Nat \ {0} /\ i + 1 \in DOMAIN L /\ M[i] = L[i + 1]
  <2>1. \A K : K = <<>> \o Tail(L) =>
          /\ IsList(K)
          /\ \A i \in DOMAIN K : i \in Nat \ {0} /\ i + 1 \in DOMAIN L /\ K[i] = L[i + 1]
    BY TailOf
  <2> QED
    BY <2>1
<1>2. ASSUME NEW i \in DOMAIN M PROVE M[i].op \notin {"record", "unlive"}
  <2>1. Settling(L, i + 1) /\ M[i] = L[i + 1] /\ i + 1 # 1
    BY <1>1
  <2> QED
    BY <2>1 DEF Settling
<1>3. ASSUME NEW i \in DOMAIN M, M[i].op = "mail"
      PROVE  /\ \A j \in DOMAIN M : j < i => M[j].op \in Retiring
             /\ M[i].final \in Due(M[i].who) \ Sent(M[i].who)
             /\ M[1].op # "record"
  <2>1. Rewarding(L, i + 1) /\ M[i] = L[i + 1]
    BY <1>1, <1>3 DEF Settling
  <2>2. ASSUME NEW j \in DOMAIN M, j < i PROVE M[j].op \in Retiring
    <3>1. j + 1 \in DOMAIN L /\ j + 1 < i + 1 /\ M[j] = L[j + 1]
      BY <1>1, <2>2
    <3> QED
      BY <2>1, <3>1 DEF Rewarding
  <2>3. 1 \in DOMAIN M
    BY <1>1, <1>3, ListFacts
  <2> QED
    BY <2>1, <2>2, <2>3, <1>2 DEF Rewarding
<1> QED
  BY <1>2, <1>3

LEMMA TailKeeps ==
  ASSUME IInv, Tables, InTurn, NEW th \in Threads, NEW op, Do(th, op), op \notin Dues,
         Then(th, <<>>), results' = results, mail' = mail, RowsAged
  PROVE  InTurn'
<1> DEFINE L == todo[th]
           M == <<>> \o Tail(L)
<1>1. /\ L # <<>> /\ 1 \in DOMAIN L /\ IsList(L) /\ L[1].op = op
  BY Running
<1>2. todo' = [todo EXCEPT ![th] = M]
  BY DEF Then
<1>3. /\ \A i \in DOMAIN M : M[i].op \notin {"record", "unlive"}
      /\ \A i \in DOMAIN M : M[i].op = "mail" =>
           /\ \A j \in DOMAIN M : j < i => M[j].op \in Retiring
           /\ M[i].final \in Due(M[i].who) \ Sent(M[i].who)
           /\ M[1].op # "record"
  <2>1. \A i \in DOMAIN L : Settling(L, i)
    BY DEF InTurn, Settlements
  <2> QED
    BY <1>1, <2>1, SettledTail DEF Dues
<1>4. \A j \in DOMAIN L : j \in Nat \ {0} /\ (j # 1 => j - 1 \in DOMAIN M /\ M[j - 1] = L[j])
  BY <1>1, TailOf
<1> HIDE DEF M
<1>5. /\ todo'[th] = M /\ Alone'
      /\ \A t \in Threads : t # th => todo[t] = <<>> /\ todo'[t] = <<>>
      /\ \A p : ~Clearing(p)
  BY <1>2, TheOthersRest DEF InTurn, Dues
<1>6. \A p : Due(p)' = Due(p) /\ Sent(p)' = Sent(p)
  BY DEF Due, Sent
<1>7. Settlements'
  <2>1. ASSUME NEW t \in Threads, NEW i \in DOMAIN todo'[t]
        PROVE  /\ todo'[t][i].op \notin {"record", "unlive"}
               /\ todo'[t][i].op = "mail" =>
                    /\ \A j \in DOMAIN todo'[t] : j < i => todo'[t][j].op \in Retiring
                    /\ todo'[t][i].final \in Due(todo'[t][i].who) \ Sent(todo'[t][i].who)
                    /\ todo'[t][1].op # "record"
    <3>1. t = th
      BY <1>5, ShortLists, ListFacts
    <3> QED
      BY <3>1, <1>5, <1>3
  <2>2. ASSUME NEW t \in Threads, NEW i \in DOMAIN todo'[t] PROVE Settling(todo[t], i)'
    <3>1. todo'[t][i].op = "mail" =>
            todo'[t][i].final \in Due(todo[t][i].who)' \ Sent(todo[t][i].who)'
      BY <2>1 DEF Due, Sent
    <3> QED
      BY <2>1, <3>1 DEF Settling, Rewarding
  <2> QED
    BY <2>2 DEF Settlements
<1>8. Rewards'
  <2>1. ASSUME NEW p \in Players, NEW f \in Due(p) \ Sent(p)
        PROVE  \E t \in Threads : Awaited(todo'[t], p, f)
    <3>1. PICK t \in Threads : Awaited(todo[t], p, f)
      BY DEF InTurn, Rewards
    <3>2. t = th
      BY <3>1, <1>5 DEF Awaited
    <3>3. PICK i \in DOMAIN L : L[i].op = "mail" /\ L[i].who = p /\ L[i].final = f
      BY <3>1, <3>2 DEF Awaited
    <3>4. i # 1 /\ i - 1 \in DOMAIN M /\ M[i - 1] = L[i]
      BY <3>3, <1>1, <1>4 DEF Dues
    <3>5. M[1].op # "record" /\ M # <<>>
      BY <3>3, <3>4, <1>3, ShortLists, ListFacts
    <3> QED
      BY <3>3, <3>4, <3>5, <1>5 DEF Awaited
  <2> QED
    BY <2>1, <1>6 DEF Rewards, InTurn
<1>9. RunsInOrder'
  BY <1>5, RunsStayInOrder DEF InTurn
<1> QED
  BY <1>5, <1>7, <1>8, <1>9 DEF InTurn

\* The rows of a recorded run are cleared: nothing of it is live.
LEMMA ClearLiveKeeps ==
  ASSUME IInv, Tables, InTurn, NEW th \in Threads, ClearLive(th)
  PROVE  InTurn'
<1> DEFINE L == todo[th]
           M == <<>> \o Tail(L)
<1>0. PICK p : p = Now(th).who
  OBVIOUS
<1>1. /\ L # <<>> /\ 1 \in DOMAIN L /\ IsList(L) /\ L[1].op = "unlive" /\ p \in Players
      /\ Now(th) = L[1]
  BY <1>0, Running DEF ClearLive, Fits, WhoOps
<1>2. /\ todo' = [todo EXCEPT ![th] = M] /\ UNCHANGED <<results, mail, nextId>>
      /\ rows' = {Cleared(r, p) : r \in rows}
  BY <1>0 DEF ClearLive, Then, outcome
<1>3. /\ \A i \in DOMAIN M : M[i].op \notin {"record", "unlive"}
      /\ \A i \in DOMAIN M : M[i].op = "mail" =>
           /\ \A j \in DOMAIN M : j < i => M[j].op \in Retiring
           /\ M[i].final \in Due(M[i].who) \ Sent(M[i].who)
           /\ M[1].op # "record"
  <2>1. \A i \in DOMAIN L : Settling(L, i)
    BY DEF InTurn, Settlements
  <2> QED
    BY <1>1, <2>1, SettledTail
<1>4. \A j \in DOMAIN L : j \in Nat \ {0} /\ (j # 1 => j - 1 \in DOMAIN M /\ M[j - 1] = L[j])
  <2>1. IsList(L) /\ L # <<>>
    BY <1>1
  <2> QED
    BY <2>1, TailOf
<1> HIDE DEF M
<1>5. /\ todo'[th] = M /\ Alone'
      /\ \A t \in Threads : t # th => todo[t] = <<>> /\ todo'[t] = <<>>
      /\ \A q : Clearing(q) => q = p
  BY <1>0, <1>2, TheOthersRest DEF InTurn, ClearLive
<1>6. \A q : Due(q)' = Due(q) /\ Sent(q)' = Sent(q)
  BY <1>2 DEF Due, Sent
<1>7. Settlements'
  <2>1. ASSUME NEW t \in Threads, NEW i \in DOMAIN todo'[t]
        PROVE  /\ todo'[t][i].op \notin {"record", "unlive"}
               /\ todo'[t][i].op = "mail" =>
                    /\ \A j \in DOMAIN todo'[t] : j < i => todo'[t][j].op \in Retiring
                    /\ todo'[t][i].final \in Due(todo'[t][i].who) \ Sent(todo'[t][i].who)
                    /\ todo'[t][1].op # "record"
    <3>1. t = th
      BY <1>5, ShortLists, ListFacts
    <3> QED
      BY <3>1, <1>5, <1>3
  <2>2. ASSUME NEW t \in Threads, NEW i \in DOMAIN todo'[t] PROVE Settling(todo[t], i)'
    <3>1. todo'[t][i].op = "mail" =>
            todo'[t][i].final \in Due(todo[t][i].who)' \ Sent(todo[t][i].who)'
      BY <1>2, <2>1 DEF Due, Sent
    <3> QED
      BY <2>1, <3>1 DEF Settling, Rewarding
  <2> QED
    BY <2>2 DEF Settlements
<1>8. Rewards'
  <2>1. ASSUME NEW q \in Players, NEW f \in Due(q) \ Sent(q)
        PROVE  \E t \in Threads : Awaited(todo'[t], q, f)
    <3>1. PICK t \in Threads : Awaited(todo[t], q, f)
      BY DEF InTurn, Rewards
    <3>2. t = th
      BY <3>1, <1>5 DEF Awaited
    <3>3. PICK i \in DOMAIN L : L[i].op = "mail" /\ L[i].who = q /\ L[i].final = f
      BY <3>1, <3>2 DEF Awaited
    <3>4. i # 1 /\ i - 1 \in DOMAIN M /\ M[i - 1] = L[i]
      BY <3>3, <1>1, <1>4
    <3>5. M[1].op # "record" /\ M # <<>>
      BY <3>3, <3>4, <1>3, ShortLists, ListFacts
    <3> QED
      BY <3>3, <3>4, <3>5, <1>5 DEF Awaited
  <2> QED
    BY <2>1, <1>2, <1>6 DEF Rewards, InTurn
<1>9. RunsInOrder'
  <2>1. ASSUME NEW q \in Players, NEW i \in DOMAIN results[q], NEW r \in rows', q \in r.live
        PROVE  results[q][i].final < r.id
    <3>1. PICK s \in rows : r = Cleared(s, p)
      BY <1>2
    <3>2. s \in Row
      BY DEF IInv, Typed, RowsOK
    <3>3. r.id = s.id /\ r.live = s.live \ {p}
      BY <3>1, <3>2 DEF Cleared, Row
    <3> QED
      BY <2>1, <3>3, <1>5 DEF InTurn, RunsInOrder
  <2> QED
    BY <2>1, <1>2 DEF InTurn, RunsInOrder
<1> QED
  BY <1>5, <1>7, <1>8, <1>9 DEF InTurn

\* The reward of the run that ended last is sent.
LEMMA SendRewardKeeps ==
  ASSUME IInv, Tables, InTurn, NEW th \in Threads, SendReward(th)
  PROVE  InTurn'
<1> DEFINE L == todo[th]
           M == <<>> \o Tail(L)
<1>0. PICK p, f : p = Now(th).who /\ f = Now(th).final
  OBVIOUS
<1>1. /\ L # <<>> /\ 1 \in DOMAIN L /\ IsList(L) /\ L[1].op = "mail" /\ p \in Players
      /\ Now(th) = L[1] /\ f \in Nat
  BY <1>0, Running DEF SendReward, Fits, WhoOps
<1>2. /\ todo' = [todo EXCEPT ![th] = M] /\ UNCHANGED <<results, rows, nextId>>
      /\ mail' = [mail EXCEPT ![p] = Append(mail[p], f)]
  BY <1>0 DEF SendReward, Then, play
<1>3. \A i \in DOMAIN L : Settling(L, i) /\ i \in Nat \ {0}
  BY <1>1, ListFacts DEF InTurn, Settlements
<1>4. f \in Due(p) \ Sent(p)
  BY <1>0, <1>1, <1>3 DEF Settling, Rewarding
<1>5. ASSUME NEW i \in DOMAIN L, i # 1 PROVE L[i].op \notin Dues
  BY <1>1, <1>3, <1>5 DEF Settling, Rewarding, Retiring, Dues
<1>6. \A i \in DOMAIN M : M[i].op \notin Dues
  <2>1. \A i \in DOMAIN M : i \in Nat \ {0} /\ i + 1 \in DOMAIN L /\ M[i] = L[i + 1]
    BY <1>1, TailOf
  <2> QED
    BY <2>1, <1>5
<1> HIDE DEF M
<1>7. /\ todo'[th] = M /\ Alone'
      /\ \A t \in Threads : t # th => todo[t] = <<>> /\ todo'[t] = <<>>
      /\ \A q : ~Clearing(q)
  <2>1. Do(th, "mail") /\ Alone
    BY DEF InTurn, SendReward
  <2>2. /\ todo'[th] = M /\ Alone'
        /\ \A t \in Threads : t # th => todo[t] = <<>> /\ todo'[t] = <<>>
    BY <2>1, <1>2, TheOthersRest
  <2>3. ASSUME NEW q, NEW t \in Threads, Clears(todo[t], q) PROVE FALSE
    <3>1. t = th
      BY <2>2, <2>3 DEF Clears
    <3> QED
      BY <3>1, <2>3, <1>1 DEF Clears
  <2> QED
    BY <2>2, <2>3 DEF Clearing
<1>8. Settlements'
  <2>1. ASSUME NEW t \in Threads, NEW i \in DOMAIN todo'[t] PROVE todo'[t][i].op \notin Dues
    <3>1. t = th
      BY <1>7, ShortLists, ListFacts
    <3> QED
      BY <3>1, <1>7, <1>6
  <2> QED
    BY <2>1 DEF Settlements, Settling, Dues
<1>9. RunsInOrder'
  <2>1. RowsAged
    BY <1>2 DEF RowsAged, IInv, Typed, RowsOK
  <2> QED
    BY <2>1, <1>2, <1>7, RunsStayInOrder DEF InTurn
<1>10. ASSUME NEW q \in Players, NEW g \in Due(q) \ Sent(q) PROVE q = p /\ g = f
  <2>1. PICK t \in Threads : Awaited(todo[t], q, g)
    BY DEF InTurn, Rewards
  <2>2. t = th
    BY <2>1, <1>7 DEF Awaited
  <2>3. PICK i \in DOMAIN L : L[i].op = "mail" /\ L[i].who = q /\ L[i].final = g
    BY <2>1, <2>2 DEF Awaited
  <2> QED
    BY <2>3, <1>0, <1>1, <1>5 DEF Dues
<1>11. /\ mail'[p] = Append(mail[p], f) /\ \A q \in Players : q # p => mail'[q] = mail[q]
       /\ mail[p] \in Seq(Nat)
  BY <1>1, <1>2 DEF Tables
<1>12. PICK n \in Nat : /\ n = Len(mail[p]) /\ DOMAIN mail[p] = 1..n /\ DOMAIN mail'[p] = 1..(n + 1)
                        /\ \A i \in 1..n : mail'[p][i] = mail[p][i]
                        /\ mail'[p][n + 1] = f
  <2>1. Len(mail[p]) \in Nat /\ DOMAIN mail[p] = 1..Len(mail[p])
    BY <1>11, LenProperties
  <2>2. /\ DOMAIN mail'[p] = 1..(Len(mail[p]) + 1)
        /\ \A i \in 1..Len(mail[p]) : mail'[p][i] = mail[p][i]
        /\ mail'[p][Len(mail[p]) + 1] = f
    BY <1>1, <1>11, <2>1
  <2> QED
    BY <2>1, <2>2
<1>13. Range(mail'[p]) = Range(mail[p]) \cup {f}
  <2>1. \A i \in 1..(n + 1) : i \in 1..n \/ i = n + 1
    BY <1>12
  <2>2. \A i \in 1..n : i \in 1..(n + 1)
    BY <1>12
  <2>3. n + 1 \in 1..(n + 1)
    BY <1>12
  <2> QED
    BY <2>1, <2>2, <2>3, <1>12 DEF Range
<1>14. Rewards'
  <2> SUFFICES ASSUME NEW q \in Players
               PROVE  /\ Range(mail'[q]) \subseteq Due(q)
                      /\ \A i, j \in DOMAIN mail'[q] : mail'[q][i] = mail'[q][j] => i = j
                      /\ Due(q) \ Range(mail'[q]) = {}
    BY <1>2 DEF Rewards, Sent, Due
  <2>1. /\ Range(mail[q]) \subseteq Due(q)
        /\ \A i, j \in DOMAIN mail[q] : mail[q][i] = mail[q][j] => i = j
    BY DEF InTurn, Rewards, Sent
  <2>2. CASE q # p
    BY <2>1, <2>2, <1>10, <1>11 DEF Sent
  <2>3. CASE q = p
    <3>1. Range(mail'[p]) \subseteq Due(p) /\ Due(p) \ Range(mail'[p]) = {}
      BY <2>1, <2>3, <1>1, <1>4, <1>10, <1>13 DEF Sent
    <3>2. ASSUME NEW i \in 1..(n + 1), NEW j \in 1..(n + 1), mail'[p][i] = mail'[p][j]
          PROVE  i = j
      <4>1. \A k \in 1..n : mail[p][k] # f
        BY <1>4, <1>12 DEF Sent, Range
      <4>2. (i \in 1..n \/ i = n + 1) /\ (j \in 1..n \/ j = n + 1)
        BY <1>12
      <4> QED
        BY <4>1, <4>2, <3>2, <2>1, <2>3, <1>12
    <3> QED
      BY <2>3, <3>1, <3>2, <1>12
  <2> QED
    BY <2>2, <2>3
<1> QED
  BY <1>7, <1>8, <1>9, <1>14 DEF InTurn

\* The newest match of a run was played after the runs on record.
LEMMA FinalIsNew ==
  ASSUME IInv, Tables, RunsInOrder, NEW p \in Players, ~Clearing(p),
         RunLive(p) \/ CompletedRun(p) # {}
  PROVE  /\ FinalMatch(p) < nextId
         /\ \A k \in DOMAIN results[p] : results[p][k].final < FinalMatch(p)
<1> DEFINE live == {r.id : r \in {s \in rows : p \in s.live}}
<1>0. RowsOK
  BY DEF IInv, Typed
<1>1. live # {}
  BY DEF RunLive, Unfinished, CompletedRun
<1>2. nextId \in Nat /\ \A i \in live : i \in Nat /\ i < nextId
  BY <1>0 DEF RowsOK, Row
<1>3. \A i \in live : \A k \in DOMAIN results[p] : results[p][k].final < i
  BY DEF RunsInOrder
<1> HIDE DEF live
<1>4. \E i \in live : \A j \in live : j <= i
  BY <1>1, <1>2, NewestExists
<1>5. (CHOOSE i \in live : \A j \in live : j <= i) \in live
  BY <1>4
<1>6. FinalMatch(p) \in live
  BY <1>5 DEF FinalMatch, live
<1> QED
  BY <1>2, <1>3, <1>6

\* The statements a retirement writes, and what is left of the list behind them.
RetirementOf(M, a, b, c, d, e, f, yes) ==
  /\ IsList(M) /\ {1, 2, 3, 4, 5} \subseteq DOMAIN M
  /\ M[1] = a /\ M[2] = b /\ M[3] = c /\ M[4] = d /\ M[5] = e
  /\ yes => 6 \in DOMAIN M /\ M[6] = f
  /\ \A i \in DOMAIN M : /\ i \in Nat \ {0}
                         /\ i \in {1, 2, 3, 4, 5} \/ (yes /\ i = 6) \/ M[i].op \notin Dues

LEMMA RetiringList ==
  ASSUME NEW a, NEW b, NEW c, NEW d, NEW e, NEW f, NEW yes \in BOOLEAN, NEW T, Lazy(T), NEW R,
         R = IF yes THEN <<f>> ELSE <<>>
  PROVE  RetirementOf((<<a, b, c, d, e>> \o R) \o T, a, b, c, d, e, f, yes)
<1>0. PICK M : M = (<<a, b, c, d, e>> \o R) \o T
  OBVIOUS
<1>1. PICK F : F = <<a, b, c, d, e>>
  OBVIOUS
<1>3. /\ IsList(F) /\ Len(F) = 5
      /\ F[1] = a /\ F[2] = b /\ F[3] = c /\ F[4] = d /\ F[5] = e
  <2>1. F \in Seq({a, b, c, d, e}) /\ Len(F) = 5
    BY <1>1
  <2> QED
    BY <1>1, <2>1, SeqIsList
<1>4. /\ IsList(R) /\ Len(R) \in {0, 1} /\ (yes => Len(R) = 1 /\ R[1] = f)
      /\ (~yes => Len(R) = 0)
  BY ShortLists
<1>5. PICK S : S = F \o R
  OBVIOUS
<1>6. /\ IsList(S) /\ Len(S) = 5 + Len(R)
      /\ \A i \in 1..5 : S[i] = F[i]
      /\ \A i \in 1..Len(R) : S[5 + i] = R[i]
  <2>1. /\ IsList(F \o R) /\ Len(F \o R) = Len(F) + Len(R)
        /\ \A i \in 1..Len(F) : (F \o R)[i] = F[i]
        /\ \A i \in 1..Len(R) : (F \o R)[Len(F) + i] = R[i]
    <3>1. IsList(F) /\ IsList(R)
      BY <1>3, <1>4
    <3> QED
      BY <3>1, ListConcat
  <2> QED
    BY <2>1, <1>3, <1>5
<1>7. M = S \o T /\ IsList(T)
  BY <1>0, <1>1, <1>5 DEF Lazy
<1>8. /\ IsList(M) /\ Len(M) = Len(S) + Len(T)
      /\ \A i \in 1..Len(S) : M[i] = S[i]
      /\ \A i \in 1..Len(T) : M[Len(S) + i] = T[i]
  <2>1. /\ IsList(S \o T) /\ Len(S \o T) = Len(S) + Len(T)
        /\ \A i \in 1..Len(S) : (S \o T)[i] = S[i]
        /\ \A i \in 1..Len(T) : (S \o T)[Len(S) + i] = T[i]
    <3>1. IsList(S) /\ IsList(T)
      BY <1>6, <1>7
    <3> QED
      BY <3>1, ListConcat
  <2> QED
    BY <2>1, <1>7
<1>9. /\ DOMAIN M = 1..Len(M) /\ Len(M) \in Nat /\ Len(T) \in Nat /\ DOMAIN T = 1..Len(T)
      /\ Len(S) \in {5, 6}
  BY <1>4, <1>6, <1>7, <1>8, ListFacts
<1>10. /\ {1, 2, 3, 4, 5} \subseteq DOMAIN M
       /\ M[1] = a /\ M[2] = b /\ M[3] = c /\ M[4] = d /\ M[5] = e
  BY <1>3, <1>6, <1>8, <1>9
<1>11. yes => 6 \in DOMAIN M /\ M[6] = f
  BY <1>4, <1>6, <1>8, <1>9
<1>12. ASSUME NEW i \in DOMAIN M
       PROVE  /\ i \in Nat \ {0}
              /\ i \in {1, 2, 3, 4, 5} \/ (yes /\ i = 6) \/ M[i].op \notin Dues
  <2>1. CASE i \in 1..Len(S)
    BY <2>1, <1>4, <1>6, <1>9
  <2>2. CASE i \notin 1..Len(S)
    <3>1. i - Len(S) \in DOMAIN T /\ Len(S) + (i - Len(S)) = i
      BY <2>2, <1>8, <1>9
    <3>2. M[i] = T[i - Len(S)]
      BY <3>1, <1>8, <1>9
    <3>3. M[i].op \notin Dues
      BY <3>1, <3>2 DEF Lazy
    <3> QED
      BY <3>3, <1>9
  <2> QED
    BY <2>1, <2>2
<1>13. RetirementOf(M, a, b, c, d, e, f, yes)
  BY <1>8, <1>10, <1>11, <1>12 DEF RetirementOf
<1> QED
  BY <1>0, <1>13

\* A retirement begins: nothing was under way, and it is of a new run.
LEMMA FinalizeBegins ==
  ASSUME IInv, Tables, InTurn, NEW th \in Threads, Finalize(th)
  PROVE  InTurn'
<1> DEFINE L == todo[th]
<1>0. PICK p : p = Now(th).who
  OBVIOUS
<1>1. /\ Do(th, "final") /\ UNCHANGED <<rows, nextId, results, mail>> /\ p \in Players
  <2>1. Do(th, "final") /\ UNCHANGED <<rows, nextId, results, mail>>
    BY DEF Finalize, db, play, outcome
  <2> QED
    BY <2>1, <1>0, Running DEF Fits, WhoOps
<1>2. Lazy(L) /\ L # <<>> /\ \A t \in Threads : t # th => todo[t] = <<>>
  <2>1. Lazy(L) /\ L # <<>>
    BY <1>1, LazyList, Running DEF Dues, Retiring
  <2> QED
    BY <2>1 DEF InTurn, Alone, Idle
<1>3. RowsAged
  BY <1>1 DEF RowsAged, IInv, Typed, RowsOK, Row
<1>4. PICK run : run = [wins |-> Wins(p), losses |-> Losses(p), as |-> Now(th).as,
                        final |-> FinalMatch(p)]
  OBVIOUS
<1>5. PICK a, b, c, d, e, f :
        /\ a = [op |-> "record", who |-> p, run |-> run, number |-> Len(results[p]) + 1]
        /\ b = On("unlive", p) /\ c = [op |-> "purge"] /\ d = On("unpool", p)
        /\ e = SetStatus(p, "withdrew") /\ f = [op |-> "mail", who |-> p, final |-> run.final]
  OBVIOUS
<1>6. PICK yes \in BOOLEAN : yes <=> Rewarded(run)
  OBVIOUS
<1>r. PICK R : R = IF yes THEN <<f>> ELSE <<>>
  OBVIOUS
<1>7. \/ Then(th, <<>>)
      \/ /\ RunLive(p) \/ CompletedRun(p) # {}
         /\ Then(th, <<a, b, c, d, e>> \o R)
  BY <1>0, <1>4, <1>5, <1>6, <1>r DEF Finalize
<1>8. CASE Then(th, <<>>)
  BY <1>1, <1>3, <1>8, TailKeeps DEF Dues
<1>9. ASSUME RunLive(p) \/ CompletedRun(p) # {},
             Then(th, <<a, b, c, d, e>> \o R)
      PROVE  InTurn'
  <2>1. PICK T : T = Tail(L)
    OBVIOUS
  <2>2. PICK M : M = (<<a, b, c, d, e>> \o R) \o T
    OBVIOUS
  <2>3. Lazy(T)
    <3>1. L \in Seq({L[i] : i \in DOMAIN L})
      BY <1>2 DEF Lazy, IsList
    <3>2. /\ T \in Seq({L[i] : i \in DOMAIN L}) /\ Len(T) = Len(L) - 1 /\ Len(L) \in Nat
          /\ \A i \in 1 .. Len(T) : T[i] = L[i + 1]
      BY <3>1, <2>1, <1>2, HeadTailProperties, LenProperties
    <3>3. IsList(T) /\ DOMAIN T = 1..Len(T) /\ DOMAIN L = 1..Len(L)
      BY <3>1, <3>2, SeqIsList, LenProperties
    <3>4. ASSUME NEW i \in DOMAIN T PROVE T[i].op \notin Dues
      <4>1. i + 1 \in DOMAIN L /\ T[i] = L[i + 1]
        BY <3>2, <3>3
      <4> QED
        BY <4>1, <1>2 DEF Lazy
    <3> QED
      BY <3>3, <3>4 DEF Lazy
  <2>4. /\ IsList(M) /\ {1, 2, 3, 4, 5} \subseteq DOMAIN M
        /\ M[1] = a /\ M[2] = b /\ M[3] = c /\ M[4] = d /\ M[5] = e
        /\ yes => 6 \in DOMAIN M /\ M[6] = f
        /\ \A i \in DOMAIN M : /\ i \in Nat \ {0}
                               /\ \/ i \in {1, 2, 3, 4, 5} \/ (yes /\ i = 6)
                                  \/ M[i].op \notin Dues
    <3>1. RetirementOf((<<a, b, c, d, e>> \o R) \o T, a, b, c, d, e, f, yes)
      BY <1>r, <2>3, RetiringList
    <3>2. RetirementOf(M, a, b, c, d, e, f, yes)
      BY <2>2, <3>1
    <3> QED
      BY <3>2 DEF RetirementOf
  <2>5. todo' = [todo EXCEPT ![th] = M]
    BY <1>9, <2>1, <2>2 DEF Then
  <2>6. todo'[th] = M /\ Alone' /\ \A t \in Threads : t # th => todo'[t] = <<>>
    BY <1>1, <2>5, TheOthersRest DEF InTurn
  <2>7. \A q \in Players : Due(q) \ Sent(q) = {} /\ ~Clearing(q)
    BY <1>2, NothingDue, LazyLists
  <2>8. Rewards'
    <3>1. \A q \in Players : Due(q)' = Due(q) /\ Sent(q)' = Sent(q)
      BY <1>1 DEF Due, Sent
    <3> QED
      BY <1>1, <2>7, <3>1 DEF Rewards, InTurn
  <2>9. RunsInOrder'
    BY <1>1, <1>3, <2>7, RunsStayInOrder DEF InTurn
  <2>10. FinalMatch(p) < nextId /\ \A k \in DOMAIN results[p] : results[p][k].final < FinalMatch(p)
    BY <1>1, <1>9, <2>7, FinalIsNew DEF InTurn
  <2>11. /\ a.op = "record" /\ a.who = p /\ a.run = run /\ a.number = Len(results[p]) + 1
         /\ b.op = "unlive" /\ b.who = p /\ c.op = "purge" /\ d.op = "unpool" /\ e.op = "status"
         /\ f.op = "mail" /\ f.who = p /\ f.final = run.final /\ run.final = FinalMatch(p)
         /\ yes <=> Won(run)
    BY <1>4, <1>5, <1>6 DEF On, SetStatus, Rewarded, Won
  <2>12. /\ M[2].op = "unlive" /\ M[2].who = M[1].who /\ 2 \in DOMAIN M
         /\ M[1].number = Len(results[M[1].who]) + 1 /\ M[1].run.final < nextId
         /\ \A k \in DOMAIN results[M[1].who] : results[M[1].who][k].final < M[1].run.final
         /\ Won(M[1].run) => \E j \in DOMAIN M : M[j].op = "mail"
    <3>1. Won(M[1].run) => \E j \in DOMAIN M : M[j].op = "mail"
      BY <2>4, <2>11
    <3> QED
      BY <2>4, <2>10, <2>11, <3>1
  <2>13. Recording(M)'
    BY <1>1, <2>12 DEF Recording, Won
  <2>14. ASSUME NEW i \in DOMAIN M
         PROVE  /\ M[i].op = "record" => i = 1
                /\ M[i].op = "unlive" => i = 2 /\ M[1].op = "record"
                /\ M[i].op = "mail" => i = 6 /\ yes
    BY <2>4, <2>11 DEF Dues
  <2>15. ASSUME NEW i \in DOMAIN M, M[i].op = "mail" PROVE Rewarding(M, i)'
    <3>1. i = 6 /\ yes
      BY <2>14, <2>15
    <3>2. ASSUME NEW j \in DOMAIN M, j < i PROVE M[j].op \in Retiring
      <4>1. j \in {1, 2, 3, 4, 5}
        BY <2>4, <3>1, <3>2
      <4> QED
        BY <4>1, <2>4, <2>11 DEF Retiring
    <3>3. /\ M[1].op = "record" /\ M[i].who = M[1].who /\ M[i].final = M[1].run.final
          /\ Won(M[1].run)
      BY <3>1, <2>4, <2>11
    <3> QED
      BY <3>2, <3>3 DEF Rewarding, Won
  <2>16. Settlements'
    <3>1. ASSUME NEW t \in Threads, NEW i \in DOMAIN todo'[t] PROVE Settling(todo[t], i)'
      <4>1. t = th
        BY <2>6, ShortLists, ListFacts
      <4>2. i \in DOMAIN M /\ todo'[t] = M
        BY <2>6, <4>1
      <4>3. /\ M[i].op = "record" => i = 1 /\ Recording(M)'
            /\ M[i].op = "unlive" => i = 2 /\ M[1].op = "record"
            /\ M[i].op = "mail" => Rewarding(M, i)'
        BY <4>2, <2>13, <2>14, <2>15
      <4> QED
        BY <4>2, <4>3 DEF Settling, Recording, Rewarding, Due, Sent, Won
    <3> QED
      BY <3>1 DEF Settlements
  <2> QED
    BY <2>6, <2>8, <2>9, <2>16 DEF InTurn
<1> QED
  BY <1>7, <1>8, <1>9

\* The run is put on record: its rows are cleared next, and its reward is due.
LEMMA RecordRunKeeps ==
  ASSUME IInv, Tables, InTurn, NEW th \in Threads, RecordRun(th)
  PROVE  InTurn'
<1> DEFINE L == todo[th]
<1>0. PICK p, run : p = Now(th).who /\ run = Now(th).run
  OBVIOUS
<1>1. /\ L # <<>> /\ 1 \in DOMAIN L /\ IsList(L) /\ Now(th) = L[1] /\ L[1].op = "record"
      /\ p \in Players /\ run \in Run /\ Do(th, "record")
  BY <1>0, Running DEF RecordRun, Fits, WhoOps
<1>2. \A i \in DOMAIN L : Settling(L, i) /\ i \in Nat \ {0}
  BY <1>1, ListFacts DEF InTurn, Settlements
<1>3. Recording(L) /\ L[1].who = p /\ L[1].run = run
  BY <1>0, <1>1, <1>2 DEF Settling
<1>4. /\ results' = [results EXCEPT ![p] = Append(results[p], run)]
      /\ Then(th, <<>>) /\ UNCHANGED <<mail, rows, nextId>>
  BY <1>0, <1>1, <1>3 DEF RecordRun, Recording, play
<1>5. PICK M : M = <<>> \o Tail(L)
  OBVIOUS
<1>6. /\ IsList(M)
      /\ \A i \in DOMAIN M : i \in Nat \ {0} /\ i + 1 \in DOMAIN L /\ M[i] = L[i + 1]
      /\ \A j \in DOMAIN L : j \in Nat \ {0} /\ (j # 1 => j - 1 \in DOMAIN M /\ M[j - 1] = L[j])
  <2> DEFINE K == <<>> \o Tail(L)
  <2>1. IsList(L) /\ L # <<>>
    BY <1>1
  <2>2. /\ IsList(K)
        /\ \A i \in DOMAIN K : i \in Nat \ {0} /\ i + 1 \in DOMAIN L /\ K[i] = L[i + 1]
    BY <2>1, TailOf
  <2>3. \A j \in DOMAIN L : j \in Nat \ {0} /\ (j # 1 => j - 1 \in DOMAIN K /\ K[j - 1] = L[j])
    BY <2>1, TailOf
  <2>4. M = K
    BY <1>5
  <2> HIDE DEF K
  <2> QED
    BY <2>2, <2>3, <2>4
<1>7. todo' = [todo EXCEPT ![th] = M]
  BY <1>4, <1>5 DEF Then
<1>8. /\ todo'[th] = M /\ Alone'
      /\ \A t \in Threads : t # th => todo[t] = <<>> /\ todo'[t] = <<>>
      /\ \A q : ~Clearing(q)
  <2>1. /\ todo'[th] = M /\ Alone'
        /\ \A t \in Threads : t # th => todo[t] = <<>> /\ todo'[t] = <<>>
    BY <1>1, <1>7, TheOthersRest DEF InTurn
  <2>2. ASSUME NEW q, NEW t \in Threads, Clears(todo[t], q) PROVE FALSE
    <3>1. t = th
      BY <2>1, <2>2 DEF Clears
    <3> QED
      BY <3>1, <2>2, <1>1 DEF Clears
  <2> QED
    BY <2>1, <2>2 DEF Clearing
<1>9. M # <<>> /\ 1 \in DOMAIN M /\ M[1].op = "unlive" /\ M[1].who = p
  <2>1. 2 \in DOMAIN L /\ L[2].op = "unlive" /\ L[2].who = p
    BY <1>3 DEF Recording
  <2>2. 2 - 1 \in DOMAIN M /\ M[2 - 1] = L[2]
    BY <2>1, <1>6
  <2> QED
    BY <2>1, <2>2, ShortLists, ListFacts
<1>10. PICK n \in Nat :
         /\ n = Len(results[p]) /\ DOMAIN results[p] = 1..n /\ DOMAIN results'[p] = 1..(n + 1)
         /\ \A i \in 1..n : results'[p][i] = results[p][i]
         /\ results'[p][n + 1] = run
  <2>1. results \in [Players -> Seq(Run)] /\ results[p] \in Seq(Run)
    BY <1>1 DEF Tables
  <2>2. Len(results[p]) \in Nat /\ DOMAIN results[p] = 1..Len(results[p])
    BY <2>1, LenProperties
  <2>3. results'[p] = Append(results[p], run)
    BY <2>1, <1>1, <1>4
  <2>4. /\ DOMAIN Append(results[p], run) = 1..(Len(results[p]) + 1)
        /\ \A i \in 1..Len(results[p]) : Append(results[p], run)[i] = results[p][i]
        /\ Append(results[p], run)[Len(results[p]) + 1] = run
    BY <2>1, <2>2, <1>1
  <2> QED
    BY <2>2, <2>3, <2>4
<1>11. \A q \in Players : q # p => results'[q] = results[q]
  BY <1>4 DEF Tables
<1>12. \A k \in 1..n : results[p][k].final < run.final
  BY <1>3, <1>10 DEF Recording
<1>13. /\ \A f : f \in Due(p)' <=> f \in Due(p) \/ (f = run.final /\ Won(run))
       /\ \A q \in Players : q # p => Due(q)' = Due(q)
       /\ \A q : Sent(q)' = Sent(q)
  <2>1. \A k : k \in 1..(n + 1) <=> k \in 1..n \/ k = n + 1
    BY <1>10
  <2>2. ASSUME NEW f PROVE f \in Due(p)' <=> f \in Due(p) \/ (f = run.final /\ Won(run))
    <3>1. f \in Due(p)' <=> \E k \in 1..(n + 1) : Won(results'[p][k]) /\ f = results'[p][k].final
      BY <1>10 DEF Due, Won
    <3>2. f \in Due(p) <=> \E k \in 1..n : Won(results[p][k]) /\ f = results[p][k].final
      BY <1>10 DEF Due
    <3> QED
      BY <3>1, <3>2, <2>1, <1>10
  <2> QED
    BY <2>2, <1>4, <1>11 DEF Due, Sent, Won
<1>14. ASSUME NEW q \in Players PROVE Due(q) \ Sent(q) = {}
  <2>1. ASSUME NEW f, NEW t \in Threads, Awaited(todo[t], q, f) PROVE FALSE
    <3>1. t = th
      BY <2>1, <1>8 DEF Awaited
    <3> QED
      BY <3>1, <2>1, <1>1 DEF Awaited
  <2> QED
    BY <2>1 DEF InTurn, Rewards
<1>15. run.final \notin Sent(p)
  <2>1. ASSUME run.final \in Due(p) PROVE FALSE
    <3>1. PICK k \in 1..n : results[p][k].final = run.final
      BY <2>1, <1>10 DEF Due
    <3>2. run.final \in Nat
      BY <1>1 DEF Run
    <3> QED
      BY <3>1, <3>2, <1>12
  <2> QED
    BY <2>1, <1>1 DEF InTurn, Rewards
<1>16. ASSUME NEW i \in DOMAIN M
       PROVE  /\ M[i].op # "record"
              /\ M[i].op = "unlive" => i = 1
              /\ M[i].op = "mail" =>
                   /\ \A j \in DOMAIN M : j < i => M[j].op \in Retiring
                   /\ M[i].who = p /\ M[i].final = run.final /\ Won(run)
  <2>1. i + 1 \in DOMAIN L /\ M[i] = L[i + 1] /\ i \in Nat \ {0} /\ Settling(L, i + 1)
    BY <1>2, <1>6
  <2>2. M[i].op # "record" /\ (M[i].op = "unlive" => i = 1)
    BY <2>1 DEF Settling
  <2>3. ASSUME M[i].op = "mail"
        PROVE  /\ \A j \in DOMAIN M : j < i => M[j].op \in Retiring
               /\ M[i].who = p /\ M[i].final = run.final /\ Won(run)
    <3>1. Rewarding(L, i + 1)
      BY <2>1, <2>3 DEF Settling
    <3>2. M[i].who = p /\ M[i].final = run.final /\ Won(run)
      BY <3>1, <2>1, <1>1, <1>3 DEF Rewarding
    <3>3. ASSUME NEW j \in DOMAIN M, j < i PROVE M[j].op \in Retiring
      <4>1. j + 1 \in DOMAIN L /\ M[j] = L[j + 1] /\ j + 1 < i + 1
        BY <1>6, <2>1, <3>3
      <4> QED
        BY <4>1, <3>1 DEF Rewarding
    <3> QED
      BY <3>2, <3>3
  <2> QED
    BY <2>2, <2>3
<1>17. Settlements'
  <2>1. ASSUME NEW t \in Threads, NEW i \in DOMAIN todo'[t] PROVE Settling(todo[t], i)'
    <3>1. t = th
      BY <1>8, ShortLists, ListFacts
    <3>2. i \in DOMAIN M /\ todo'[t] = M
      BY <1>8, <3>1
    <3>3. /\ M[i].op # "record" /\ M[1].op # "record"
          /\ M[i].op = "unlive" => i = 1
      BY <3>2, <1>9, <1>16
    <3>4. M[i].op = "mail" =>
            /\ \A j \in DOMAIN M : j < i => M[j].op \in Retiring
            /\ M[i].final \in Due(M[i].who)' \ Sent(M[i].who)'
      BY <3>2, <1>13, <1>15, <1>16
    <3> QED
      BY <3>2, <3>3, <3>4 DEF Settling, Rewarding, Due, Sent, Won
  <2> QED
    BY <2>1 DEF Settlements
<1>18. Rewards'
  <2>1. ASSUME NEW q \in Players, NEW f, f \in Due(q)', f \notin Sent(q)'
        PROVE  \E t \in Threads : Awaited(todo'[t], q, f)
    <3>1. q = p /\ f = run.final /\ Won(run)
      BY <2>1, <1>13, <1>14
    <3>2. PICK j \in DOMAIN L : L[j].op = "mail"
      BY <3>1, <1>3 DEF Recording
    <3>3. j # 1 /\ j - 1 \in DOMAIN M /\ M[j - 1] = L[j]
      BY <3>2, <1>1, <1>6
    <3>4. M[j - 1].who = p /\ M[j - 1].final = run.final
      BY <3>2, <3>3, <1>16
    <3> QED
      BY <3>1, <3>2, <3>3, <3>4, <1>8, <1>9 DEF Awaited
  <2>2. ASSUME NEW q \in Players PROVE Sent(q)' \subseteq Due(q)'
    BY <1>13 DEF InTurn, Rewards
  <2>3. ASSUME NEW q \in Players
        PROVE  \A i, j \in DOMAIN mail'[q] : mail'[q][i] = mail'[q][j] => i = j
    BY <1>4 DEF InTurn, Rewards
  <2> QED
    BY <2>1, <2>2, <2>3 DEF Rewards
<1>19. RunsInOrder'
  <2>1. Clearing(p)'
    BY <1>8, <1>9 DEF Clearing, Clears
  <2>2. ASSUME NEW q \in Players, q # p, NEW i \in DOMAIN results'[q]
        PROVE  /\ results'[q][i].final < nextId
               /\ \A j \in DOMAIN results'[q] : i < j => results'[q][i].final < results'[q][j].final
               /\ \A r \in rows : q \in r.live => results'[q][i].final < r.id
    BY <2>2, <1>8, <1>11 DEF InTurn, RunsInOrder
  <2>3. ASSUME NEW i \in DOMAIN results'[p]
        PROVE  /\ results'[p][i].final < nextId
               /\ \A j \in DOMAIN results'[p] : i < j => results'[p][i].final < results'[p][j].final
    <3>1. run.final < nextId
      BY <1>3 DEF Recording
    <3>2. \A k \in 1..n : /\ results[p][k].final < nextId
                          /\ \A j \in 1..n : k < j => results[p][k].final < results[p][j].final
      BY <1>1, <1>10 DEF InTurn, RunsInOrder
    <3>3. i \in 1..n \/ i = n + 1
      BY <1>10
    <3>4. results'[p][i].final < nextId
      BY <3>1, <3>2, <3>3, <1>10
    <3>5. ASSUME NEW j \in DOMAIN results'[p], i < j
          PROVE  results'[p][i].final < results'[p][j].final
      <4>1. i \in 1..n /\ (j \in 1..n \/ j = n + 1)
        BY <3>5, <1>10
      <4>2. results'[p][i] = results[p][i]
        BY <4>1, <1>10
      <4>3. CASE j \in 1..n
        BY <4>1, <4>2, <4>3, <3>2, <3>5, <1>10
      <4>4. CASE j = n + 1
        BY <4>1, <4>2, <4>4, <1>10, <1>12
      <4> QED
        BY <4>1, <4>3, <4>4
    <3> QED
      BY <3>4, <3>5
  <2> QED
    BY <2>1, <2>2, <2>3, <1>4 DEF RunsInOrder
<1> QED
  BY <1>8, <1>17, <1>18, <1>19 DEF InTurn

LEMMA RowsRest ==
  ASSUME IInv, UNCHANGED <<rows, nextId>>
  PROVE  RowsAged
BY DEF RowsAged, IInv, Typed, RowsOK, Row

\* The statements that add nothing to a list.
LEMMA PlainStatementKeeps ==
  ASSUME IInv, Tables, InTurn, NEW th \in Threads,
         \/ AddSignup(th) \/ SetAsync(th) \/ StopSearching(th) \/ SignupStatus(th)
         \/ WriteSlots(th) \/ Register(th) \/ WritePool(th) \/ Drop(th) \/ UnlockMatcher(th)
         \/ EraseGame(th) \/ GameEnded(th) \/ StartRoom(th) \/ ClearOrphans(th)
  PROVE  InTurn'
<1>1. PICK op \in {"signup", "async", "cancel", "status", "slots", "register", "unpool", "seed",
                   "fill", "return", "drop", "unlock", "erase", "ended", "start", "orphans"} :
        Do(th, op) /\ Then(th, <<>>)
  BY DEF AddSignup, SetAsync, StopSearching, SignupStatus, WriteSlots, Register, WritePool,
     Drop, UnlockMatcher, EraseGame, GameEnded, StartRoom, ClearOrphans
<1>2. UNCHANGED <<results, mail, rows, nextId>>
  BY DEF AddSignup, SetAsync, StopSearching, SignupStatus, WriteSlots, Register, WritePool,
     Drop, UnlockMatcher, EraseGame, GameEnded, StartRoom, ClearOrphans, db, play, outcome
<1> QED
  BY <1>1, <1>2, RowsRest, TailKeeps DEF Dues

LEMMA RowStatementKeeps ==
  ASSUME IInv, Tables, InTurn, NEW th \in Threads,
         InsertRow(th) \/ DiscardRow(th) \/ CompleteRow(th) \/ PurgeRows(th)
  PROVE  InTurn'
<1>1. PICK op \in {"insert", "discard", "complete", "purge"} : Do(th, op) /\ Then(th, <<>>)
  BY DEF InsertRow, DiscardRow, CompleteRow, PurgeRows
<1>2. UNCHANGED <<results, mail>>
  BY DEF InsertRow, DiscardRow, CompleteRow, PurgeRows, outcome
<1>3. nextId \in Nat /\ rows \subseteq Row
  BY DEF IInv, Typed, RowsOK
<1>4. RowsAged
  <2>1. CASE InsertRow(th)
    <3>1. \/ UNCHANGED <<rows, nextId>>
          \/ nextId' = nextId + 1 /\ rows' = rows \cup {NewRow(Now(th).game)}
      BY <2>1 DEF InsertRow
    <3>2. NewRow(Now(th).game).id = nextId
      BY DEF NewRow
    <3> QED
      BY <3>1, <3>2, <1>3 DEF RowsAged
  <2>2. CASE DiscardRow(th) \/ PurgeRows(th)
    BY <2>2, <1>3 DEF DiscardRow, PurgeRows, RowsAged
  <2>3. CASE CompleteRow(th)
    <3>1. PICK id, w : id = Now(th).id /\ w = Now(th).winner
      OBVIOUS
    <3>2. /\ nextId' = nextId
          /\ rows' = {IF r.id # id THEN r ELSE [r EXCEPT !.done = TRUE, !.winner = w] : r \in rows}
      BY <2>3, <3>1 DEF CompleteRow
    <3>3. ASSUME NEW r \in rows
          PROVE  LET s == [r EXCEPT !.done = TRUE, !.winner = w] IN s.id = r.id /\ s.live = r.live
      BY <1>3 DEF Row
    <3>4. ASSUME NEW r \in rows' PROVE \E s \in rows : s.id = r.id /\ r.live \subseteq s.live
      BY <3>2, <3>3, <3>4
    <3>5. nextId' = nextId
      BY <3>2
    <3> QED
      BY <1>3, <3>4, <3>5 DEF RowsAged
  <2> QED
    BY <2>1, <2>2, <2>3
<1> QED
  BY <1>1, <1>2, <1>4, TailKeeps DEF Dues

\* The statements that add such a list, or give up.
LEMMA CalmStatements ==
  ASSUME IInv, NEW th \in Threads,
         Join(th) \/ Revive(th) \/ Enqueue(th) \/ LockMatcher(th) \/ Elect(th) \/ RetireRuns(th)
  PROVE  (\E S : Calm(S) /\ Then(th, S)) \/ todo' = [todo EXCEPT ![th] = <<>>]
<1> DEFINE Goal == (\E S : Calm(S) /\ Then(th, S)) \/ todo' = [todo EXCEPT ![th] = <<>>]
<1>0. PICK p : p = Now(th).who
  OBVIOUS
<1>3. ASSUME NEW S, Then(th, S), Calm(S) PROVE Goal
  BY <1>3
<1>4. /\ \A op2 \in {"signup", "register", "seed", "overdue", "limit", "cancel"} :
           \A q : On(op2, q).op \notin Dues \cup Weighty
      /\ \A q, b, c : Async(q, b, c).op \notin Dues \cup Weighty
      /\ \A q, st : SetStatus(q, st).op \notin Dues \cup Weighty
      /\ \A P : [op |-> "slots", to |-> P].op \notin Dues \cup Weighty
      /\ [op |-> "pair"].op \notin Dues \cup Weighty
      /\ [op |-> "unlock"].op \notin Dues \cup Weighty
      /\ \A l, f : [op |-> "elect", list |-> l, fit |-> f].op \notin Dues \cup Weighty
      /\ \A q : [op |-> "game", pair |-> q].op \notin Dues \cup Weighty
  BY DEF On, Async, SetStatus, Dues, Weighty
<1>g. (todo' = [todo EXCEPT ![th] = <<>>]) => Goal
  OBVIOUS
<1> HIDE DEF Goal
<1>5. CASE Join(th)
  <2> DEFINE add == On("signup", p)
             fresh == Async(p, FALSE, FALSE)
             to(P) == [op |-> "slots", to |-> P]
  <2>1. \/ Then(th, <<add>> \o (IF RunLive(p) THEN <<>> ELSE <<fresh>>))
        \/ Then(th, <<add, fresh, to(slots \cup {p})>>)
        \/ \E q \in FreeSlots :
             Then(th, <<SetStatus(q, "withdrew"), add, fresh, to((slots \ {q}) \cup {p})>>)
        \/ todo' = [todo EXCEPT ![th] = <<>>]
        \/ Then(th, <<>>)
    BY <1>0, <1>5 DEF Join
  <2>2. add.op \notin Dues \cup Weighty /\ fresh.op \notin Dues \cup Weighty /\ \A P : to(P).op \notin Dues \cup Weighty
    BY <1>4
  <2> HIDE DEF add, fresh, to
  <2>3. Calm(<<add>> \o (IF RunLive(p) THEN <<>> ELSE <<fresh>>))
    <3>1. PICK R : R = IF RunLive(p) THEN <<>> ELSE <<fresh>>
      OBVIOUS
    <3>2. Calm(R) /\ Calm(<<add>>)
      BY <2>2, <3>1, CalmLists
    <3>3. Calm(<<add>> \o R)
      BY <3>2, CalmConcat
    <3> QED
      BY <3>1, <3>3
  <2>4. \A P : Calm(<<add, fresh, to(P)>>)
    BY <2>2, CalmLists
  <2>5. \A q, P : Calm(<<SetStatus(q, "withdrew"), add, fresh, to(P)>>)
    <3> SUFFICES ASSUME NEW q, NEW P
                 PROVE  Calm(<<SetStatus(q, "withdrew"), add, fresh, to(P)>>)
      OBVIOUS
    <3>1. PICK x, y : x = SetStatus(q, "withdrew") /\ y = to(P)
      OBVIOUS
    <3>2. x.op \notin Dues \cup Weighty /\ y.op \notin Dues \cup Weighty
      BY <3>1, <1>4, <2>2
    <3>3. {x.op, add.op, fresh.op, y.op, y.op} \cap (Dues \cup Weighty) = {}
      BY <3>2, <2>2
    <3>4. Lacks(<<x, add, fresh, y>>, Dues \cup Weighty)
      BY <3>3, LacksFive
    <3> QED
      BY <3>1, <3>4 DEF Calm
  <2>7. CASE Then(th, <<>>)
    BY <2>7, <1>3, CalmLists
  <2> QED
    BY <2>1, <2>3, <2>4, <2>5, <2>7, <1>3, <1>g
<1>6. CASE Revive(th)
  <2> DEFINE tail == <<On("register", p), On("seed", p)>>
             head == IF Active(p) THEN <<>>
                     ELSE <<SetStatus(p, "active"), Async(p, FALSE, FALSE)>>
  <2>1. Then(th, <<>>) \/ Then(th, head \o tail)
    BY <1>0, <1>6 DEF Revive
  <2>2. Calm(tail) /\ Calm(head)
    BY <1>4, CalmLists
  <2> HIDE DEF tail, head
  <2>3. Calm(head \o tail)
    BY <2>2, CalmConcat
  <2> QED
    BY <2>1, <2>3, <1>3, CalmLists
<1>7. CASE Enqueue(th)
  <2> DEFINE back == IF Active(p) \/ signup[p] = NoSignup THEN <<>>
                     ELSE <<SetStatus(p, "active")>>
             ready == IF signup[p] = NoSignup THEN <<>> ELSE <<Async(p, TRUE, TRUE)>>
             pair == <<[op |-> "pair"]>>
  <2>1. Then(th, <<>>) \/ Then(th, back \o ready \o pair)
    BY <1>0, <1>7 DEF Enqueue
  <2>2. Calm(back) /\ Calm(ready) /\ Calm(pair)
    BY <1>4, CalmLists
  <2> HIDE DEF back, ready, pair
  <2>3. Calm(back \o ready)
    BY <2>2, CalmConcat
  <2>4. Calm((back \o ready) \o pair)
    BY <2>2, <2>3, CalmConcat
  <2> QED
    BY <2>1, <2>4, <1>3, CalmLists
<1>8. CASE LockMatcher(th)
  <2>1. PICK list : Then(th, <<[op |-> "elect", list |-> list, fit |-> <<>>], [op |-> "unlock"]>>)
    BY <1>8 DEF LockMatcher
  <2>2. Calm(<<[op |-> "elect", list |-> list, fit |-> <<>>], [op |-> "unlock"]>>)
    BY <1>4, CalmLists
  <2> QED
    BY <2>1, <2>2, <1>3
<1>9. CASE Elect(th)
  <2>1. \/ Then(th, <<>>)
        \/ \E l, f : Then(th, <<[op |-> "elect", list |-> l, fit |-> f]>>)
        \/ \E q, l, f : Then(th, <<On("limit", q), [op |-> "elect", list |-> l, fit |-> f]>>)
        \/ \E q, r, z : Then(th, <<On("cancel", q), On("cancel", r), [op |-> "game", pair |-> z]>>)
    BY <1>9 DEF Elect
  <2>2. /\ \A l, f : Calm(<<[op |-> "elect", list |-> l, fit |-> f]>>)
        /\ \A q, l, f : Calm(<<On("limit", q), [op |-> "elect", list |-> l, fit |-> f]>>)
        /\ \A q, r, z : Calm(<<On("cancel", q), On("cancel", r), [op |-> "game", pair |-> z]>>)
    BY <1>4, CalmLists
  <2> QED
    BY <2>1, <2>2, <1>3, CalmLists
<1>10. CASE RetireRuns(th)
  <2>1. PICK list \in SetToSeqs(Candidates) :
          Then(th, [i \in DOMAIN list |-> On("overdue", list[i])])
    BY <1>10 DEF RetireRuns
  <2>2. IsFiniteSet(Candidates)
    BY EventAssumption, FS_Subset DEF Candidates
  <2>3. DOMAIN list = 1..Len(list) /\ Len(list) \in Nat
    BY <2>2, Listed
  <2>4. PICK F : F = [i \in DOMAIN list |-> On("overdue", list[i])]
    OBVIOUS
  <2>5. IsList(F) /\ DOMAIN F = DOMAIN list
    <3>1. F = [i \in 1..Len(list) |-> F[i]] /\ DOMAIN F = DOMAIN list
      BY <2>3, <2>4
    <3> QED
      BY <3>1, <2>3, FunIsList
  <2>6. Calm(F)
    BY <1>4, <2>4, <2>5 DEF Calm, Lacks
  <2> QED
    BY <2>1, <2>4, <2>6, <1>3
<1> QED
  BY <1>5, <1>6, <1>7, <1>8, <1>9, <1>10 DEF Goal

LEMMA CalmStatementsKeep ==
  ASSUME IInv, Tables, InTurn, NEW th \in Threads,
         Join(th) \/ Revive(th) \/ Enqueue(th) \/ LockMatcher(th) \/ Elect(th) \/ RetireRuns(th)
  PROVE  InTurn'
<1>1. UNCHANGED <<results, mail, rows, nextId>>
  BY DEF Join, Revive, Enqueue, LockMatcher, Elect, RetireRuns, db, play, outcome
<1>2. RowsAged
  BY <1>1, RowsRest
<1>3. PICK op \in {"join", "revive", "queue", "pair", "elect", "retire"} : Do(th, op)
  BY DEF Join, Revive, Enqueue, LockMatcher, Elect, RetireRuns
<1>4. ASSUME NEW S, Then(th, S), Calm(S) PROVE InTurn'
  BY <1>1, <1>2, <1>3, <1>4, CalmIsLazy, LazyKeeps DEF Dues, Retiring
<1>5. CASE todo' = [todo EXCEPT ![th] = <<>>]
  <2>1. Lazy(todo[th]) /\ todo[th] # <<>>
    BY <1>3, LazyList, Running DEF Dues, Retiring
  <2>2. \A t \in Threads : t # th => todo[t] = <<>>
    BY <2>1 DEF InTurn, Alone, Idle
  <2> QED
    BY <2>1, <2>2, <1>5, <1>1, <1>2, LazyMoves, LazyLists
<1> QED
  BY <1>4, <1>5, CalmStatements

LEMMA MatchListsKeep ==
  ASSUME IInv, Tables, InTurn, NEW th \in Threads, SearchStep(th) \/ CreateGame(th)
  PROVE  InTurn'
<1>0. PICK p : p = Now(th).who
  OBVIOUS
<1>1. UNCHANGED <<results, mail, rows, nextId>> /\ RowsAged
  <2>1. UNCHANGED <<results, mail, rows, nextId>>
    BY DEF SearchStep, CreateGame, db, play, outcome
  <2> QED
    BY <2>1, RowsRest
<1>2. PICK op \in {"search", "game"} : Do(th, op)
  BY DEF SearchStep, CreateGame
<1>3. ASSUME NEW S, Then(th, S), Lazy(S) PROVE InTurn'
  BY <1>1, <1>2, <1>3, LazyKeeps DEF Dues, Retiring
<1>4. /\ \A q, b, c : Async(q, b, c).op \notin Dues
      /\ \A g : OnGame("discard", g).op \notin Dues /\ OnGame("erase", g).op \notin Dues
                /\ OnGame("insert", g).op \notin Dues
      /\ \A q, d : [op |-> "queue", who |-> q, deck |-> d].op \notin Dues
  BY DEF Async, OnGame, Dues
<1>5. CASE SearchStep(th)
  <2> DEFINE queue == <<[op |-> "queue", who |-> p, deck |-> Now(th).deck]>>
             again == <<Async(p, TRUE, TRUE)>>
             Discard(r) == <<OnGame("discard", r.game), OnGame("erase", r.game)>>
  <2>1. \/ Then(th, queue)
        \/ \E r \in Unfinished(p) : Then(th, Discard(r) \o queue)
        \/ Then(th, again \o queue)
    BY <1>0, <1>5 DEF SearchStep
  <2>2. Lazy(queue) /\ Lazy(again) /\ \A r : Lazy(Discard(r))
    BY <1>4, LazyLists
  <2> HIDE DEF queue, again, Discard
  <2>3. Lazy(again \o queue) /\ \A r : Lazy(Discard(r) \o queue)
    BY <2>2, LazyConcat
  <2> QED
    BY <2>1, <2>2, <2>3, <1>3
<1>6. CASE CreateGame(th)
  <2>1. PICK g : Then(th, <<OnGame("insert", g)>>)
    BY <1>6 DEF CreateGame
  <2>2. Lazy(<<OnGame("insert", g)>>)
    BY <1>4, LazyLists
  <2> QED
    BY <2>1, <2>2, <1>3
<1> QED
  BY <1>5, <1>6

LEMMA ResultListsKeep ==
  ASSUME IInv, Tables, InTurn, NEW th \in Threads,
         EndGame(th) \/ ForfeitStep(th) \/ ReadResult(th)
  PROVE  InTurn'
<1>1. UNCHANGED <<results, mail, rows, nextId>> /\ RowsAged
  <2>1. UNCHANGED <<results, mail, rows, nextId>>
    BY DEF EndGame, ForfeitStep, ReadResult, db, play, outcome
  <2> QED
    BY <2>1, RowsRest
<1>2. PICK op \in {"endgame", "forfeit", "result"} : Do(th, op)
  BY DEF EndGame, ForfeitStep, ReadResult
<1>3. ASSUME NEW S, Then(th, S), Lazy(S) PROVE InTurn'
  BY <1>1, <1>2, <1>3, LazyKeeps DEF Dues, Retiring
<1>4. /\ \A g : OnGame("insert", g).op \notin Dues /\ OnGame("ended", g).op \notin Dues
      /\ \A g, w, z, q : Result(g, w, z, q).op \notin Dues
      /\ \A i, w : [op |-> "complete", id |-> i, winner |-> w].op \notin Dues
      /\ \A q : On("limit", q).op \notin Dues /\ On("return", q).op \notin Dues
                /\ Final(q, "quit").op \notin Dues
      /\ [op |-> "start"].op \notin Dues
  BY DEF OnGame, Result, Final, On, Dues
<1>5. \A q : Lazy(Quit(q))
  <2> SUFFICES ASSUME NEW q PROVE Lazy(Quit(q))
    OBVIOUS
  <2>1. Lazy(<<Final(q, "quit")>>)
    BY <1>4, LazyLists
  <2> QED
    BY <2>1, LazyLists DEF Quit
<1>6. CASE EndGame(th)
  <2>1. Then(th, <<>>) \/ \E g, w, z, q :
          Then(th, <<OnGame("insert", g), Result(g, w, z, q), OnGame("ended", g)>>)
    BY <1>6 DEF EndGame
  <2>2. \A g, w, z, q : Lazy(<<OnGame("insert", g), Result(g, w, z, q), OnGame("ended", g)>>)
    BY <1>4, LazyLists
  <2> QED
    BY <2>1, <2>2, <1>3, LazyLists
<1>7. CASE ForfeitStep(th)
  <2>1. \/ \E q : Then(th, Quit(q))
        \/ \E g, w, z, q : Then(th, <<Result(g, w, z, q)>>)
    BY <1>7 DEF ForfeitStep
  <2>2. \A g, w, z, q : Lazy(<<Result(g, w, z, q)>>)
    BY <1>4, LazyLists
  <2> QED
    BY <2>1, <2>2, <1>3, <1>5
<1>8. CASE ReadResult(th)
  <2>1. PICK z : z = Now(th).pair
    OBVIOUS
  <2>2. Lazy(AfterResult(z))
    <3>1. PICK a, b, c, d, e : /\ a = On("limit", z[1]) /\ b = On("limit", z[2])
                               /\ c = [op |-> "start"]
                               /\ d = On("return", z[1]) /\ e = On("return", z[2])
      OBVIOUS
    <3>2. {a.op, b.op, c.op, d.op, e.op} \cap Dues = {}
      BY <3>1, <1>4
    <3>3. Lazy(<<a, b, c, d, e>>)
      BY <3>2, LacksFive, LazyIsLacking
    <3> QED
      BY <3>1, <3>3 DEF AfterResult
  <2>3. \/ \E q : Then(th, Quit(q))
        \/ Then(th, <<>> \o AfterResult(z))
        \/ \E i, w : Then(th, <<[op |-> "complete", id |-> i, winner |-> w]>> \o AfterResult(z))
    BY <1>8, <2>1 DEF ReadResult
  <2>4. \A i, w : Lazy(<<[op |-> "complete", id |-> i, winner |-> w]>>)
    BY <1>4, LazyLists
  <2>5. Lazy(<<>> \o AfterResult(z))
    BY <2>2, LazyLists, LazyConcat
  <2>6. \A i, w : Lazy(<<[op |-> "complete", id |-> i, winner |-> w]>> \o AfterResult(z))
    BY <2>2, <2>4, LazyConcat
  <2> QED
    BY <2>3, <2>5, <2>6, <1>3, <1>5
<1> QED
  BY <1>6, <1>7, <1>8

LEMMA RetireListsKeep ==
  ASSUME IInv, Tables, InTurn, NEW th \in Threads,
         CheckLimit(th) \/ Overdue(th)
  PROVE  InTurn'
<1>0. PICK p : p = Now(th).who
  OBVIOUS
<1>1. UNCHANGED <<results, mail, rows, nextId>> /\ RowsAged
  <2>1. UNCHANGED <<results, mail, rows, nextId>>
    BY DEF CheckLimit, Overdue, db, play, outcome
  <2> QED
    BY <2>1, RowsRest
<1>2. PICK op \in {"limit", "overdue"} : Do(th, op)
  BY DEF CheckLimit, Overdue
<1>3. ASSUME NEW S, Then(th, S), Lazy(S) PROVE InTurn'
  BY <1>1, <1>2, <1>3, LazyKeeps DEF Dues, Retiring
<1>4. /\ \A g : OnGame("discard", g).op \notin Dues /\ OnGame("erase", g).op \notin Dues
      /\ \A q : On("limit", q).op \notin Dues /\ Final(q, "completed").op \notin Dues
  BY DEF OnGame, Final, On, Dues
<1>5. CASE CheckLimit(th)
  <2>1. Then(th, <<Final(p, "completed")>>) \/ Then(th, <<>>)
    BY <1>0, <1>5 DEF CheckLimit
  <2>2. Lazy(<<Final(p, "completed")>>)
    BY <1>4, LazyLists
  <2> QED
    BY <2>1, <2>2, <1>3, LazyLists
<1>6. CASE Overdue(th)
  <2> DEFINE Dump(own) == [i \in 1..2 * Len(own) |->
                             IF i % 2 = 1 THEN OnGame("discard", own[(i + 1) \div 2].game)
                             ELSE OnGame("erase", own[i \div 2].game)]
  <2>1. \/ Then(th, <<>>)
        \/ \E own \in NewestFirst(Unfinished(p)) : Then(th, Dump(own) \o <<On("limit", p)>>)
    BY <1>0, <1>6 DEF Overdue
  <2>2. ASSUME NEW own \in NewestFirst(Unfinished(p)), Then(th, Dump(own) \o <<On("limit", p)>>)
        PROVE  InTurn'
    <3>1. IsFiniteSet(Unfinished(p)) /\ own \in SetToSeqs(Unfinished(p))
      <4>1. IsFiniteSet(rows)
        BY RowsFinite DEF IInv, Typed
      <4> QED
        BY <4>1, FS_Subset DEF Unfinished, NewestFirst
    <3>2. 2 * Len(own) \in Nat
      BY <3>1, Listed
    <3>3. PICK D : D = Dump(own)
      OBVIOUS
    <3>4. D = [i \in 1..2 * Len(own) |-> D[i]]
      BY <3>3
    <3>5. \A i \in 1..2 * Len(own) : \E g : D[i] = OnGame("discard", g) \/ D[i] = OnGame("erase", g)
      <4> SUFFICES ASSUME NEW i \in 1..2 * Len(own)
                   PROVE  \E g : D[i] = OnGame("discard", g) \/ D[i] = OnGame("erase", g)
        OBVIOUS
      <4>1. D[i] = IF i % 2 = 1 THEN OnGame("discard", own[(i + 1) \div 2].game)
                   ELSE OnGame("erase", own[i \div 2].game)
        BY <3>3
      <4> QED
        BY <4>1
    <3> HIDE DEF Dump
    <3>6. IsList(D) /\ DOMAIN D = 1..2 * Len(own)
      BY <3>2, <3>4, FunIsList
    <3>7. Lazy(D)
      BY <1>4, <3>5, <3>6 DEF Lazy
    <3>8. Lazy(<<On("limit", p)>>)
      BY <1>4, LazyLists
    <3>9. Lazy(D \o <<On("limit", p)>>)
      BY <3>7, <3>8, LazyConcat
    <3> QED
      BY <2>2, <3>3, <3>9, <1>3
  <2> QED
    BY <2>1, <2>2, <1>3, LazyLists
<1> QED
  BY <1>5, <1>6, <1>6

\* A request, where the others are served: nothing runs besides it.
LEMMA TurnTaken ==
  ASSUME Serial, IInv, Tables, InTurn, NEW th \in Threads, Overlap \/ AtRest,
         NEW S, Lazy(S), todo' = [todo EXCEPT ![th] = S], UNCHANGED db
  PROVE  InTurn'
<1>1. \A t \in Threads : todo[t] = <<>>
  BY DEF Serial, AtRest, Idle
<1>2. UNCHANGED <<rows, nextId, results, mail>>
  BY DEF db, play, outcome
<1>3. RowsAged
  BY <1>2, RowsRest
<1>4. Lazy(todo[th])
  BY <1>1, LazyLists
<1> QED
  BY <1>1, <1>2, <1>3, <1>4, LazyMoves

\* A request that takes its turn.
Taken(th, S) == /\ Calm(S) /\ (Overlap \/ AtRest)
                /\ todo' = [todo EXCEPT ![th] = S] /\ UNCHANGED db

LEMMA CalmRequests ==
  ASSUME IInv, Request
  PROVE  \E th \in Threads : \E S : Taken(th, S)
<1> DEFINE Goal == \E th \in Threads : \E S : Taken(th, S)
<1>1. ASSUME NEW th \in Threads, NEW kind, NEW S, Begin(th, kind, S), Calm(S), UNCHANGED db
      PROVE  Goal
  BY <1>1 DEF Begin, MayBegin, Taken
<1>t. ASSUME NEW th \in Threads, NEW S, Taken(th, S)
      PROVE  Goal
  BY <1>t
<1> HIDE DEF Goal
<1>2. /\ Players \subseteq Threads /\ "watchdog" \in Threads /\ "scheduler" \in Threads
  BY DEF Threads
<1>3. /\ \A op \in {"join", "register", "seed", "revive", "unpool", "fill", "cancel", "drop"} :
           \A p : On(op, p).op \notin Dues \cup Weighty
      /\ \A p, a, b : Async(p, a, b).op \notin Dues \cup Weighty
      /\ \A p, q : Forfeit(p, q).op \notin Dues \cup Weighty
      /\ \A p, d : [op |-> "search", who |-> p, deck |-> d].op \notin Dues \cup Weighty
      /\ \A g, p : [op |-> "endgame", game |-> g, loser |-> p].op \notin Dues \cup Weighty
      /\ [op |-> "retire"].op \notin Dues \cup Weighty
  BY DEF On, Async, Forfeit, Dues, Weighty
<1>4. ASSUME NEW p \in Players,
             \/ Enter(p) \/ Reconnect(p) \/ SaveDeck(p) \/ Search(p) \/ CancelSearch(p)
             \/ Leave(p) \/ Concede(p) \/ Disconnect(p)
      PROVE  Goal
  <2>1. UNCHANGED db
    BY <1>4 DEF Enter, Reconnect, SaveDeck, Search, CancelSearch, Leave, Concede, Disconnect
  <2> DEFINE new == IF signup[p] = NoSignup THEN <<On("join", p)>> ELSE <<>>
             revive == <<On("revive", p)>>
  <2>2. \/ Begin(p, "enter", <<On("join", p), On("register", p), On("seed", p)>>)
        \/ Begin(p, "reconnect", new \o revive)
        \/ Begin(p, "save", <<On("unpool", p), On("fill", p), Async(p, TRUE, FALSE)>>)
        \/ \E d : Begin(p, "search", <<[op |-> "search", who |-> p, deck |-> d]>>)
        \/ Begin(p, "cancel", <<On("cancel", p)>>)
        \/ Begin(p, "leave", <<Forfeit(p, p)>>)
        \/ \E g : Begin(p, "concede", <<[op |-> "endgame", game |-> g, loser |-> p]>>)
        \/ Begin(p, "disconnect", <<On("drop", p)>>)
    BY <1>4 DEF Enter, Reconnect, SaveDeck, Search, CancelSearch, Leave, Concede, Disconnect
  <2>3. Calm(new) /\ Calm(revive)
    BY <1>3, CalmLists
  <2> HIDE DEF new, revive
  <2>4. Calm(new \o revive)
    BY <2>3, CalmConcat
  <2>5. /\ Calm(<<On("join", p), On("register", p), On("seed", p)>>)
        /\ Calm(<<On("unpool", p), On("fill", p), Async(p, TRUE, FALSE)>>)
        /\ \A d : Calm(<<[op |-> "search", who |-> p, deck |-> d]>>)
        /\ Calm(<<On("cancel", p)>>) /\ Calm(<<Forfeit(p, p)>>) /\ Calm(<<On("drop", p)>>)
        /\ \A g : Calm(<<[op |-> "endgame", game |-> g, loser |-> p]>>)
    BY <1>3, CalmLists
  <2> QED
    BY <2>1, <2>2, <2>4, <2>5, <1>1, <1>2
<1>5. ASSUME NEW g \in DOMAIN games, NEW p \in Players, Timeout(g, p) PROVE Goal
  <2>1. Calm(<<[op |-> "endgame", game |-> g, loser |-> p]>>)
    BY <1>3, CalmLists
  <2> QED
    BY <2>1, <1>1, <1>2, <1>5 DEF Timeout
<1>6. CASE Sweep
  <2>1. PICK list \in SetToSeqs(StaleRows), loser \in [StaleRows -> Players] :
          /\ Overlap \/ AtRest
          /\ todo' = [todo EXCEPT !["scheduler"] =
                        [i \in DOMAIN list |-> Forfeit(loser[list[i]], NoOne)]
                          \o <<[op |-> "retire"]>>]
    BY <1>6 DEF Sweep
  <2>2. UNCHANGED db
    BY <1>6 DEF Sweep
  <2>3. IsFiniteSet(StaleRows)
    <3>1. IsFiniteSet(rows)
      BY RowsFinite DEF IInv, Typed
    <3> QED
      BY <3>1, FS_Subset DEF StaleRows
  <2>4. DOMAIN list = 1..Len(list) /\ Len(list) \in Nat
    BY <2>3, Listed
  <2>5. PICK F : F = [i \in DOMAIN list |-> Forfeit(loser[list[i]], NoOne)]
    OBVIOUS
  <2>6. IsList(F) /\ DOMAIN F = DOMAIN list
    <3>1. F = [i \in 1..Len(list) |-> F[i]] /\ DOMAIN F = DOMAIN list
      BY <2>4, <2>5
    <3> QED
      BY <3>1, <2>4, FunIsList
  <2>7. Calm(F)
    BY <1>3, <2>5, <2>6 DEF Calm, Lacks
  <2>8. Calm(<<[op |-> "retire"]>>)
    BY <1>3, CalmLists
  <2>9. Calm(F \o <<[op |-> "retire"]>>)
    BY <2>7, <2>8, CalmConcat
  <2> QED
    BY <2>1, <2>2, <2>5, <2>9, <1>2, <1>t DEF Taken
<1> QED
  BY <1>4, <1>5, <1>6 DEF Request, Goal

LEMMA RequestTakesTurn ==
  ASSUME Serial, IInv, Tables, InTurn, Request
  PROVE  InTurn'
<1>1. PICK th \in Threads : \E S : Taken(th, S)
  BY CalmRequests
<1>2. PICK S : Taken(th, S)
  BY <1>1
<1> QED
  BY <1>2, CalmIsLazy, TurnTaken DEF Taken

LEMMA ThreadKeepsTurn ==
  ASSUME IInv, Tables, InTurn, NEW th \in Threads, ThreadStep(th)
  PROVE  InTurn'
<1>1. CASE SignupStep(th)
  BY <1>1, CalmStatementsKeep, PlainStatementKeeps DEF SignupStep
<1>2. CASE MatchStep(th)
  BY <1>2, CalmStatementsKeep, MatchListsKeep, PlainStatementKeeps, RowStatementKeeps DEF MatchStep
<1>3. CASE ResultStep(th)
  BY <1>3, ResultListsKeep, PlainStatementKeeps, RowStatementKeeps DEF ResultStep
<1>4. CASE RetireStep(th)
  BY <1>4, CalmStatementsKeep, RetireListsKeep, PlainStatementKeeps, RowStatementKeeps, FinalizeBegins,
     RecordRunKeeps, ClearLiveKeeps, SendRewardKeeps DEF RetireStep
<1> QED
  BY <1>1, <1>2, <1>3, <1>4 DEF ThreadStep

LEMMA TurnsKept ==
  ASSUME Serial, IInv, Tables, InTurn, restarts \in Nat, [Next]_vars
  PROVE  InTurn'
<1>1. CASE Request
  BY <1>1, RequestTakesTurn
<1>2. CASE \E th \in Threads : ThreadStep(th)
  BY <1>2, ThreadKeepsTurn
<1>3. CASE (\E g \in DOMAIN games : Age(g)) \/ UNCHANGED vars
  <2>1. UNCHANGED <<rows, nextId, todo, results, mail>>
    BY <1>3 DEF Age, vars, db, play, outcome
  <2>2. Alone' /\ RunsInOrder'
    BY <2>1 DEF InTurn, Alone, Idle, RunsInOrder, Clearing
  <2>3. Rewards'
    BY <2>1 DEF InTurn, Rewards, Awaited, Due, Sent
  <2>4. \A t \in Threads : \A i \in DOMAIN todo'[t] : Settling(todo[t], i)'
    BY <2>1 DEF InTurn, Settlements, Settling, Recording, Rewarding, Due, Sent, Won
  <2> QED
    BY <2>2, <2>3, <2>4 DEF InTurn, Settlements
<1>4. CASE RestartServer \/ RestartScheduler
  BY <1>4 DEF RestartServer, RestartScheduler, Serial
<1> QED
  BY <1>1, <1>2, <1>3, <1>4 DEF Next

LEMMA TurnsBegin == Init => InTurn
<1> SUFFICES ASSUME Init PROVE InTurn
  OBVIOUS
<1>1. /\ todo = [th \in Threads |-> <<>>] /\ results = [p \in Players |-> <<>>]
      /\ mail = [p \in Players |-> <<>>]
  BY DEF Init
<1>2. DOMAIN <<>> = {}
  BY ShortLists, ListFacts
<1>3. \A p \in Players : Due(p) = {} /\ Sent(p) = {}
  BY <1>1, <1>2 DEF Due, Sent, Range
<1> QED
  BY <1>1, <1>2, <1>3 DEF InTurn, Alone, Idle, RunsInOrder, Settlements, Rewards

\* What the invariant says of the results and the mail.
LEMMA TurnsSettle ==
  ASSUME Tables, InTurn
  PROVE  RunOnce /\ RewardPerRun
<1>1. RunOnce
  <2> SUFFICES ASSUME NEW p \in Players, NEW i \in DOMAIN results[p], NEW j \in DOMAIN results[p],
                      results[p][i].final = results[p][j].final
               PROVE  i = j
    BY DEF RunOnce
  <2>1. results[p] \in Seq(Run)
    BY DEF Tables
  <2>2. i \in Nat /\ j \in Nat /\ results[p][i] \in Run /\ results[p][j] \in Run
    BY <2>1, LenProperties
  <2>3. results[p][i].final \in Nat
    BY <2>2 DEF Run
  <2>4. ~(i < j) /\ ~(j < i)
    BY <2>3 DEF InTurn, RunsInOrder
  <2> QED
    BY <2>2, <2>4
<1>2. RewardPerRun
  <2> SUFFICES ASSUME AtRest, NEW p \in Players
               PROVE  LET won == {run \in Range(results[p]) :
                                    run.as = "completed" /\ run.wins >= RunWins}
                      IN  /\ Range(mail[p]) = {run.final : run \in won}
                          /\ \A i, j \in DOMAIN mail[p] : mail[p][i] = mail[p][j] => i = j
    BY DEF RewardPerRun
  <2>1. \A t \in Threads : \A f : ~Awaited(todo[t], p, f)
    BY DEF AtRest, Idle, Awaited
  <2>2. Sent(p) = Due(p)
    BY <2>1 DEF InTurn, Rewards
  <2>3. Due(p) = {run.final : run \in {x \in Range(results[p]) :
                                         x.as = "completed" /\ x.wins >= RunWins}}
    BY DEF Due, Won, Range
  <2>4. \A i, j \in DOMAIN mail[p] : mail[p][i] = mail[p][j] => i = j
    BY DEF InTurn, Rewards
  <2> QED
    BY <2>2, <2>3, <2>4 DEF Sent
<1> QED
  BY <1>1, <1>2

--------------------------------------------------------------------------
\* The scores, where requests are served in turn.

\* What may run between a result and the retirement it calls for.
Counting == {"limit", "final", "record", "unlive", "purge", "unpool", "status", "mail"}
Settlers == {"limit", "final", "unlive"}
Settles(L, p) ==
  \E i \in DOMAIN L : /\ L[i].op \in Settlers /\ L[i].who = p
                      /\ \A j \in DOMAIN L : j < i => L[j].op \in Counting

\* Nobody scores past the limits, and who is at one is about to be retired.
Within == \A p \in Players : Wins(p) <= RunWins /\ Losses(p) <= RunLosses
Limited == \A p \in Players : AtLimit(p) => \E th \in Threads : Settles(todo[th], p)

\* A match is live for its two players at most, and its game is there.
Theirs == \A r \in rows : r.live \subseteq Range(r.pair)
Kept == \A r \in rows : games[r.game].state # "gone"

\* A result is that of the game's players, who are checked against the limits.
Counted(L, i) ==
  /\ L[i].op = "result" => L[i].game \in DOMAIN games /\ L[i].pair = games[L[i].game].pair
  /\ L[i].op = "complete" =>
       /\ {2, 3} \subseteq DOMAIN L /\ L[2].op = "limit" /\ L[3].op = "limit"
       /\ \A r \in rows : r.id = L[i].id => Range(r.pair) \subseteq {L[2].who, L[3].who}
  /\ L[i].op = "record" => L[i].run.wins <= RunWins /\ L[i].run.losses <= RunLosses

\* A game is erased when its row, still open, has been discarded.
Dumping == {"discard", "erase"}
Dumped(L, i) ==
  /\ L[i].op \in Dumping => \A j \in DOMAIN L : j < i => L[j].op \in Dumping
  /\ L[i].op = "discard" => \A r \in rows : r.game = L[i].game => ~r.done
  /\ L[i].op = "erase" =>
       \/ i - 1 \in DOMAIN L /\ L[i - 1].op = "discard" /\ L[i - 1].game = L[i].game
       \/ \A r \in rows : r.game # L[i].game
  /\ L[i].op = "insert" => games[L[i].game].state # "gone"
Counts == \A th \in Threads : \A i \in DOMAIN todo[th] :
            Counted(todo[th], i) /\ Dumped(todo[th], i)

Tally == Within /\ Limited /\ Theirs /\ Kept /\ Counts /\ ScoreInLimits

\* A step that brings nobody nearer to a limit.
Lower(p) == /\ {Wins(p), Losses(p), Wins(p)', Losses(p)'} \subseteq Nat
            /\ Wins(p)' <= Wins(p) /\ Losses(p)' <= Losses(p)

LEMMA ScoresFall ==
  ASSUME RowsOK, NEW p, CompletedRun(p)' \subseteq CompletedRun(p)
  PROVE  Lower(p)
<1> DEFINE W == {r \in CompletedRun(p) : r.winner = p}
           B == {r \in CompletedRun(p) : r.winner # p}
<1>1. IsFiniteSet(W) /\ IsFiniteSet(B)
  <2>1. IsFiniteSet(rows) /\ W \in SUBSET rows /\ B \in SUBSET rows
    BY RowsFinite DEF CompletedRun
  <2> HIDE DEF W, B
  <2> QED
    BY <2>1, FS_Subset
<1>2. W' \in SUBSET W /\ B' \in SUBSET B
  OBVIOUS
<1>3. Wins(p) = Cardinality(W) /\ Losses(p) = Cardinality(B)
  BY DEF Wins, Losses
<1>4. Wins(p)' = Cardinality(W') /\ Losses(p)' = Cardinality(B')
  BY DEF Wins, Losses
<1> HIDE DEF W, B
<1>5. IsFiniteSet(W') /\ IsFiniteSet(B') /\ Cardinality(W') <= Cardinality(W)
      /\ Cardinality(B') <= Cardinality(B)
  BY <1>1, <1>2, FS_Subset
<1>6. /\ Cardinality(W) \in Nat /\ Cardinality(B) \in Nat
      /\ Cardinality(W') \in Nat /\ Cardinality(B') \in Nat
  BY <1>1, <1>5, FS_CardinalityType
<1> QED
  BY <1>3, <1>4, <1>5, <1>6 DEF Lower

LEMMA LowerIsWithin ==
  ASSUME Within, \A p \in Players : Lower(p)
  PROVE  Within' /\ \A p \in Players : AtLimit(p)' => AtLimit(p)
<1>1. RunWins \in Nat /\ RunLosses \in Nat
  BY EventAssumption
<1> QED
  BY <1>1 DEF Within, Lower, AtLimit

\* Who is at a limit is settled by the list that runs.
LEMMA SettledBy ==
  ASSUME Limited, NEW th \in Threads, \A t \in Threads : t # th => todo[t] = <<>>,
         NEW p \in Players, AtLimit(p)
  PROVE  Settles(todo[th], p)
<1>1. PICK t \in Threads : Settles(todo[t], p)
  BY DEF Limited
<1>2. t = th
  BY <1>1, ShortLists, ListFacts DEF Settles
<1> QED
  BY <1>1, <1>2

LEMMA NobodyAtLimit ==
  ASSUME IInv, Limited, Alone, NEW th \in Threads, NEW op, Do(th, op), op \notin Counting
  PROVE  \A p \in Players : ~AtLimit(p)
<1>1. 1 \in DOMAIN todo[th] /\ todo[th][1].op = op /\ IsList(todo[th]) /\ todo[th] # <<>>
  BY Running
<1>2. \A t \in Threads : t # th => todo[t] = <<>>
  BY <1>1 DEF Alone, Idle
<1>3. ASSUME NEW p \in Players, AtLimit(p) PROVE FALSE
  <2>1. PICK i \in DOMAIN todo[th] : /\ todo[th][i].op \in Settlers
                                     /\ \A j \in DOMAIN todo[th] : j < i => todo[th][j].op \in Counting
    BY <1>2, <1>3, SettledBy DEF Settles
  <2>2. i = 1 \/ 1 < i
    BY <1>1, ListFacts
  <2> QED
    BY <1>1, <2>1, <2>2 DEF Settlers, Counting
<1> QED
  BY <1>3

LEMMA NobodyAtRest ==
  ASSUME Limited, \A t \in Threads : todo[t] = <<>>
  PROVE  \A p \in Players : ~AtLimit(p)
BY ShortLists, ListFacts DEF Limited, Settles

\* From a thread's list to another.
LEMMA TallyMoves ==
  ASSUME IInv, NEW th \in Threads, \A t \in Threads : t # th => todo[t] = <<>>,
         NEW M, todo' = [todo EXCEPT ![th] = M],
         Within', Theirs', Kept', ScoreInLimits',
         \A p \in Players : AtLimit(p)' => Settles(M, p),
         \A i \in DOMAIN M : Counted(M, i)' /\ Dumped(M, i)'
  PROVE  Tally'
<1>1. todo = [t \in Threads |-> todo[t]]
  BY DEF IInv, Typed, Shape
<1>2. todo'[th] = M /\ \A t \in Threads : t # th => todo'[t] = <<>>
  BY <1>1
<1>3. Limited'
  <2>1. ASSUME NEW p \in Players, AtLimit(p)' PROVE Settles(todo'[th], p)
    BY <2>1, <1>2
  <2> QED
    BY <2>1 DEF Limited, Settles
<1>4. Counts'
  <2>1. ASSUME NEW t \in Threads, NEW i \in DOMAIN todo'[t]
        PROVE  Counted(todo[t], i)' /\ Dumped(todo[t], i)'
    <3>1. t = th /\ i \in DOMAIN M
      BY <1>2, <2>1, ShortLists, ListFacts
    <3>2. Counted(M, i)' /\ Dumped(M, i)'
      BY <3>1
    <3>3. todo'[t] = M
      BY <1>2, <3>1
    <3>4. Counted(todo[t], i)'
      BY <3>2, <3>3 DEF Counted
    <3>5. Dumped(todo[t], i)'
      BY <3>2, <3>3 DEF Dumped
    <3> QED
      BY <3>4, <3>5
  <2> QED
    BY <2>1 DEF Counts
<1> QED
  BY <1>3, <1>4 DEF Tally

\* What is left of a list stands, when nothing is being discarded.
LEMMA WhatIsLeftStands ==
  ASSUME IInv, Counts, NEW th \in Threads, NEW op, Do(th, op), op \notin Dumping, GamesKept,
         NEW j \in DOMAIN todo[th], j # 1, NEW M, NEW i, M[i] = todo[th][j]
  PROVE  Counted(M, i)' /\ Dumped(M, i)'
<1> DEFINE L == todo[th]
<1>1. 1 \in DOMAIN L /\ L[1].op = op /\ IsList(L) /\ j \in Nat \ {0}
  BY Running, ListFacts
<1>2. 1 < j /\ Placed(L, j) /\ Counted(L, j) /\ Dumped(L, j)
  BY <1>1 DEF Counts, IInv, Places
<1>3. L[j].op \notin {"insert", "complete"}
  BY <1>2 DEF Placed
<1>4. L[j].op \notin Dumping
  BY <1>1, <1>2 DEF Dumped
<1>5. Counted(M, i)'
  BY <1>2, <1>3 DEF Counted, GamesKept
<1>6. Dumped(M, i)'
  BY <1>3, <1>4 DEF Dumped, Dumping
<1> QED
  BY <1>5, <1>6

LEMMA ListMoves ==
  ASSUME IInv, Alone, Tally, NEW th \in Threads, NEW op, Do(th, op), op \notin Dumping,
         NEW S, NEW M, Spliced(M, S, todo[th]), todo' = [todo EXCEPT ![th] = M],
         Within', Theirs', Kept', ScoreInLimits', GamesKept,
         \A p \in Players : AtLimit(p)' => Settles(M, p),
         \A i \in 1..Len(S) : Counted(M, i)' /\ Dumped(M, i)'
  PROVE  Tally'
<1> DEFINE L == todo[th]
<1>1. L # <<>> /\ IsList(L)
  BY Running
<1>2. \A t \in Threads : t # th => todo[t] = <<>>
  BY <1>1 DEF Alone, Idle
<1>3. ASSUME NEW i \in DOMAIN M PROVE Counted(M, i)' /\ Dumped(M, i)'
  <2>1. \/ i \in 1..Len(S) /\ M[i] = S[i]
        \/ \E j \in DOMAIN L : j \in 2..Len(L) /\ i = Len(S) + j - 1 /\ M[i] = L[j]
    BY SplicedFrom
  <2>2. ASSUME NEW j \in DOMAIN L, j \in 2..Len(L), M[i] = L[j]
        PROVE  Counted(M, i)' /\ Dumped(M, i)'
    <3>1. j # 1
      BY <2>2
    <3> QED
      BY <2>2, <3>1, WhatIsLeftStands DEF Tally
  <2> QED
    BY <2>1, <2>2
<1> QED
  BY <1>2, <1>3, TallyMoves

LEMMA ThenMoves ==
  ASSUME IInv, NEW th \in Threads, NEW op, Do(th, op), NEW S, IsList(S), Then(th, S)
  PROVE  \E M : Spliced(M, S, todo[th]) /\ todo' = [todo EXCEPT ![th] = M]
<1> DEFINE M == S \o Tail(todo[th])
<1>1. Spliced(M, S, todo[th])
  BY Running, Splice
<1>2. todo' = [todo EXCEPT ![th] = M]
  BY DEF Then
<1> HIDE DEF M
<1> QED
  BY <1>1, <1>2

\* Statements that leave the scores, and decide nothing.
LEMMA CalmTally ==
  ASSUME IInv, Alone, Tally, NEW th \in Threads, NEW op, Do(th, op),
         op \notin Counting \cup Dumping, NEW S, Calm(S), Then(th, S),
         \A p \in Players : Lower(p), Theirs', Kept', GamesKept, results' = results
  PROVE  Tally'
<1>1. IsList(S) /\ \A i \in DOMAIN S : S[i].op \notin Dues \cup Weighty
  BY DEF Calm, Lacks
<1>2. PICK M : Spliced(M, S, todo[th]) /\ todo' = [todo EXCEPT ![th] = M]
  BY <1>1, ThenMoves
<1>3. Within' /\ \A p \in Players : ~AtLimit(p)'
  BY LowerIsWithin, NobodyAtLimit DEF Tally
<1>4. ASSUME NEW i \in 1..Len(S) PROVE Counted(M, i)' /\ Dumped(M, i)'
  <2>1. M[i] = S[i] /\ i \in DOMAIN S
    BY <1>1, <1>2, ListFacts DEF Spliced
  <2>2. M[i].op \notin {"record", "result", "complete", "insert", "discard", "erase"}
    BY <2>1, <1>1 DEF Dues, Weighty
  <2> QED
    BY <2>2 DEF Counted, Dumped, Dumping
<1>5. ScoreInLimits'
  BY DEF Tally, ScoreInLimits
<1> QED
  BY <1>2, <1>3, <1>4, <1>5, ListMoves

\* Statements of a retirement: who is at a limit is still about to be retired.
LEMMA CountingTally ==
  ASSUME IInv, Alone, Tally, NEW th \in Threads, NEW op, Do(th, op), op \notin Dumping,
         NEW S, IsList(S), Then(th, S),
         \A i \in DOMAIN S : /\ S[i].op \in Counting
                             /\ S[i].op = "record" => S[i].run.wins <= RunWins
                                                      /\ S[i].run.losses <= RunLosses,
         \A p \in Players : AtLimit(p)' /\ op \in Settlers /\ Now(th).who = p =>
                              \E i \in DOMAIN S : S[i].op \in Settlers /\ S[i].who = p,
         \A p \in Players : Lower(p), Theirs', Kept', GamesKept, ScoreInLimits'
  PROVE  Tally'
<1> DEFINE L == todo[th]
<1>1. PICK M : Spliced(M, S, L) /\ todo' = [todo EXCEPT ![th] = M]
  BY ThenMoves
<1>2. Within' /\ \A p \in Players : AtLimit(p)' => AtLimit(p)
  BY LowerIsWithin DEF Tally
<1>3. /\ 1 \in DOMAIN L /\ L[1] = Now(th) /\ L[1].op = op /\ L # <<>> /\ IsList(L)
      /\ \A t \in Threads : t # th => todo[t] = <<>>
  <2>1. 1 \in DOMAIN L /\ L[1] = Now(th) /\ L[1].op = op /\ L # <<>> /\ IsList(L)
    BY Running
  <2> QED
    BY <2>1 DEF Alone, Idle
<1>4. /\ Len(S) \in Nat /\ DOMAIN S = 1..Len(S) /\ Len(L) \in Nat /\ DOMAIN L = 1..Len(L)
      /\ IsList(M) /\ DOMAIN M = 1..Len(M) /\ Len(M) = Len(S) + Len(L) - 1
      /\ \A i \in 1..Len(S) : M[i] = S[i]
      /\ \A j \in 2..Len(L) : M[Len(S) + j - 1] = L[j]
  <2>1. /\ Len(S) \in Nat /\ DOMAIN S = 1..Len(S) /\ Len(L) \in Nat /\ DOMAIN L = 1..Len(L)
    BY <1>3, ListFacts
  <2>2. IsList(M) /\ DOMAIN M = 1..Len(M)
    BY <1>1, ListFacts DEF Spliced
  <2> QED
    BY <1>1, <1>3, <2>1, <2>2 DEF Spliced
<1> HIDE DEF L
<1>5. ASSUME NEW i \in 1..Len(S) PROVE Counted(M, i)' /\ Dumped(M, i)'
  <2>1. M[i] = S[i] /\ i \in DOMAIN S
    BY <1>4
  <2>2. /\ M[i].op \notin {"result", "complete", "insert", "discard", "erase"}
        /\ M[i].op = "record" => M[i].run.wins <= RunWins /\ M[i].run.losses <= RunLosses
    BY <2>1 DEF Counting
  <2> QED
    BY <2>2 DEF Counted, Dumped, Dumping
<1>6. ASSUME NEW p \in Players, AtLimit(p)' PROVE Settles(M, p)
  <2>1. Settles(L, p)
    BY <1>2, <1>3, <1>6, SettledBy DEF Tally, L
  <2>2. PICK k \in DOMAIN L : /\ L[k].op \in Settlers /\ L[k].who = p
                              /\ \A j \in DOMAIN L : j < k => L[j].op \in Counting
    BY <2>1 DEF Settles
  <2>3. CASE k = 1
    <3>1. PICK i \in DOMAIN S : S[i].op \in Settlers /\ S[i].who = p
      BY <1>3, <1>6, <2>2, <2>3
    <3>2. i \in DOMAIN M /\ M[i] = S[i]
      BY <1>3, <1>4
    <3>3. ASSUME NEW j \in DOMAIN M, j < i PROVE M[j].op \in Counting
      <4>1. j \in 1..Len(S)
        BY <3>3, <1>4
      <4>2. j \in DOMAIN S /\ M[j] = S[j]
        BY <4>1, <1>4
      <4> QED
        BY <4>2
    <3> QED
      BY <3>1, <3>2, <3>3 DEF Settles
  <2>4. CASE k # 1
    <3>1. k \in 2..Len(L) /\ Len(S) + k - 1 \in DOMAIN M
      BY <2>4, <1>4
    <3>2. M[Len(S) + k - 1] = L[k]
      BY <3>1, <1>4
    <3>3. ASSUME NEW j \in DOMAIN M, j < Len(S) + k - 1 PROVE M[j].op \in Counting
      <4>1. CASE j \in 1..Len(S)
        BY <4>1, <1>4
      <4>2. CASE j \notin 1..Len(S)
        <5>0. PICK l : l = j - Len(S) + 1
          OBVIOUS
        <5>1. j \in Nat \ {0} /\ Len(S) \in Nat /\ Len(L) \in Nat /\ k \in Nat
          BY <3>1, <3>3, <1>4
        <5>2. Len(S) < j /\ k <= Len(L)
          BY <5>1, <4>2, <3>1
        <5>3. l \in 2..Len(L) /\ l < k /\ j = Len(S) + l - 1
          <6>1. \A a, b, c, d \in Nat : b < a /\ c <= d /\ a < b + c - 1 =>
                  a - b + 1 \in 2..d /\ a - b + 1 < c /\ a = b + (a - b + 1) - 1
            OBVIOUS
          <6> QED
            BY <5>0, <5>1, <5>2, <3>3, <6>1
        <5>4. M[j] = L[l] /\ l \in DOMAIN L
          BY <5>3, <1>4
        <5> QED
          BY <5>3, <5>4, <2>2
      <4> QED
        BY <4>1, <4>2
    <3> QED
      BY <2>2, <3>1, <3>2, <3>3 DEF Settles
  <2> QED
    BY <2>3, <2>4
<1> QED
  BY <1>1, <1>2, <1>5, <1>6, ListMoves DEF L

LEMMA SameScores ==
  ASSUME IInv, rows' = rows
  PROVE  \A p : Lower(p)
<1>1. RowsOK /\ \A p : CompletedRun(p)' = CompletedRun(p)
  BY DEF IInv, Typed, CompletedRun
<1> QED
  BY <1>1, ScoresFall

LEMMA SameTables ==
  ASSUME IInv, Tally, UNCHANGED <<rows, games>>
  PROVE  (\A p \in Players : Lower(p)) /\ Theirs' /\ Kept' /\ GamesKept
<1>1. games \in Seq(GameType)
  BY DEF IInv, Typed, RowsOK
<1> QED
  BY <1>1, SameScores DEF Tally, Theirs, Kept, GamesKept

LEMMA SameResults ==
  ASSUME Tally, results' = results
  PROVE  ScoreInLimits'
BY DEF Tally, ScoreInLimits

LEMMA NothingMore == IsList(<<>>) /\ DOMAIN <<>> = {} /\ Calm(<<>>)
BY ShortLists, ListFacts, CalmLists

\* The statements that add nothing to a list.
LEMMA PlainTally ==
  ASSUME IInv, Alone, Tally, NEW th \in Threads,
         \/ AddSignup(th) \/ SetAsync(th) \/ StopSearching(th) \/ SignupStatus(th)
         \/ WriteSlots(th) \/ Register(th) \/ WritePool(th) \/ Drop(th) \/ UnlockMatcher(th)
         \/ StartRoom(th) \/ ClearOrphans(th) \/ SendReward(th)
  PROVE  Tally'
<1>1. PICK op \in {"signup", "async", "cancel", "status", "slots", "register", "unpool", "seed",
                   "fill", "return", "drop", "unlock", "start", "orphans", "mail"} :
        Do(th, op) /\ Then(th, <<>>)
  BY DEF AddSignup, SetAsync, StopSearching, SignupStatus, WriteSlots, Register, WritePool,
     Drop, UnlockMatcher, StartRoom, ClearOrphans, SendReward
<1>2. UNCHANGED <<rows, games, results>>
  BY DEF AddSignup, SetAsync, StopSearching, SignupStatus, WriteSlots, Register, WritePool,
     Drop, UnlockMatcher, StartRoom, ClearOrphans, SendReward, db, play, outcome
<1>3. (\A p \in Players : Lower(p)) /\ Theirs' /\ Kept' /\ GamesKept /\ ScoreInLimits'
  BY <1>2, SameTables, SameResults
<1>4. op \notin Dumping /\ op \notin Settlers
  BY DEF Dumping, Settlers
<1> QED
  BY <1>1, <1>3, <1>4, NothingMore, CountingTally

\* Where a game goes on as it was, its row does.
LEMMA GameEndedTally ==
  ASSUME IInv, IInv', Alone, Tally, NEW th \in Threads, GameEnded(th)
  PROVE  Tally'
<1>1. PICK g : g = Now(th).game
  OBVIOUS
<1>2. /\ Do(th, "ended") /\ Then(th, <<>>) /\ UNCHANGED <<rows, results>>
      /\ games' = [games EXCEPT ![g].state = IF games[g].state = "gone" THEN games[g].state
                                             ELSE "ended"]
  BY <1>1 DEF GameEnded, outcome
<1>3. games \in Seq(GameType) /\ games' \in Seq(GameType) /\ DOMAIN games = 1..Len(games)
      /\ \A h \in DOMAIN games : games[h] \in GameType
  <2>1. games \in Seq(GameType) /\ games' \in Seq(GameType)
    BY DEF IInv, Typed, RowsOK
  <2> QED
    BY <2>1, LenProperties
<1>4. \A h \in DOMAIN games : /\ h \in DOMAIN games' /\ games'[h].pair = games[h].pair
                              /\ games'[h].state = "gone" => games[h].state = "gone"
  <2> SUFFICES ASSUME NEW h \in DOMAIN games
               PROVE  /\ h \in DOMAIN games' /\ games'[h].pair = games[h].pair
                      /\ games'[h].state = "gone" => games[h].state = "gone"
    OBVIOUS
  <2>1. h \in DOMAIN games'
    BY <1>2
  <2>2. CASE h = g
    BY <2>1, <2>2, <1>2, <1>3 DEF GameType
  <2>3. CASE h # g
    BY <2>1, <2>3, <1>2
  <2> QED
    BY <2>2, <2>3
<1>5. GamesKept /\ Theirs' /\ ScoreInLimits'
  BY <1>2, <1>3, <1>4, SameResults DEF GamesKept, Tally, Theirs
<1>6. Kept'
  <2>1. \A r \in rows : r.game \in DOMAIN games
    BY DEF IInv, Typed, RowsOK
  <2> QED
    BY <2>1, <1>2, <1>4 DEF Kept, Tally
<1>7. \A p \in Players : Lower(p)
  BY <1>2, SameScores
<1> QED
  BY <1>2, <1>5, <1>6, <1>7, NothingMore, CountingTally DEF Dumping, Settlers

LEMMA CalmStatementsTally ==
  ASSUME IInv, Alone, Tally, NEW th \in Threads,
         Join(th) \/ Revive(th) \/ Enqueue(th) \/ LockMatcher(th) \/ Elect(th) \/ RetireRuns(th)
  PROVE  Tally'
<1>1. UNCHANGED <<rows, games, results>>
  BY DEF Join, Revive, Enqueue, LockMatcher, Elect, RetireRuns, db, play, outcome
<1>2. PICK op \in {"join", "revive", "queue", "pair", "elect", "retire"} : Do(th, op)
  BY DEF Join, Revive, Enqueue, LockMatcher, Elect, RetireRuns
<1>3. (\A p \in Players : Lower(p)) /\ Theirs' /\ Kept' /\ GamesKept /\ ScoreInLimits'
  BY <1>1, SameTables, SameResults
<1>4. op \notin Counting \cup Dumping
  BY DEF Counting, Dumping
<1>5. ASSUME NEW S, Then(th, S), Calm(S) PROVE Tally'
  BY <1>1, <1>2, <1>3, <1>4, <1>5, CalmTally
<1>6. CASE todo' = [todo EXCEPT ![th] = <<>>]
  <2>1. todo[th] # <<>>
    BY <1>2, Running
  <2>2. \A t \in Threads : t # th => todo[t] = <<>>
    BY <2>1 DEF Alone, Idle
  <2>3. Within' /\ \A p \in Players : ~AtLimit(p)'
    BY <1>2, <1>3, <1>4, LowerIsWithin, NobodyAtLimit DEF Tally
  <2> QED
    BY <1>3, <1>6, <2>2, <2>3, NothingMore, TallyMoves
<1> QED
  BY <1>5, <1>6, CalmStatements

\* A player at the limit is retired at once.
LEMMA CheckLimitTally ==
  ASSUME IInv, Alone, Tally, NEW th \in Threads, CheckLimit(th)
  PROVE  Tally'
<1>1. PICK p : p = Now(th).who
  OBVIOUS
<1>2. Do(th, "limit") /\ UNCHANGED <<rows, games, results>>
  BY DEF CheckLimit, db, play, outcome
<1>3. (\A q \in Players : Lower(q)) /\ Theirs' /\ Kept' /\ GamesKept /\ ScoreInLimits'
  BY <1>2, SameTables, SameResults
<1>4. \A q \in Players : AtLimit(q)' => AtLimit(q)
  BY <1>3, LowerIsWithin DEF Tally
<1>5. CASE AtLimit(p)
  <2>1. PICK a : a = Final(p, "completed")
    OBVIOUS
  <2>2. Then(th, <<a>>) /\ a.op = "final" /\ a.who = p
    BY <1>1, <1>5, <2>1 DEF CheckLimit, Final
  <2>3. IsList(<<a>>) /\ DOMAIN <<a>> = {1} /\ <<a>>[1] = a
    BY ShortLists, ListFacts
  <2> QED
    BY <1>1, <1>2, <1>3, <2>2, <2>3, CountingTally DEF Dumping, Settlers, Counting
<1>6. CASE ~AtLimit(p)
  <2>1. Then(th, <<>>)
    BY <1>1, <1>6 DEF CheckLimit
  <2>2. \A q \in Players : AtLimit(q)' => q # Now(th).who
    BY <1>1, <1>4, <1>6
  <2> QED
    BY <1>2, <1>3, <2>1, <2>2, NothingMore, CountingTally DEF Dumping
<1> QED
  BY <1>5, <1>6

\* The run that is recorded is within the limits, and its rows are cleared next.
LEMMA FinalizeTally ==
  ASSUME IInv, Alone, Tally, NEW th \in Threads, Finalize(th)
  PROVE  Tally'
<1>0. PICK p : p = Now(th).who
  OBVIOUS
<1>1. Do(th, "final") /\ UNCHANGED <<rows, games, results>>
  BY DEF Finalize, db, play, outcome
<1>2. (\A q \in Players : Lower(q)) /\ Theirs' /\ Kept' /\ GamesKept /\ ScoreInLimits'
  BY <1>1, SameTables, SameResults
<1>3. \A q \in Players : AtLimit(q)' => AtLimit(q)
  BY <1>2, LowerIsWithin DEF Tally
<1>4. p \in Players
  BY <1>0, <1>1, Running DEF Fits, WhoOps
<1>5. PICK run : run = [wins |-> Wins(p), losses |-> Losses(p), as |-> Now(th).as,
                        final |-> FinalMatch(p)]
  OBVIOUS
<1>6. PICK a, b, c, d, e, f :
        /\ a = [op |-> "record", who |-> p, run |-> run, number |-> Len(results[p]) + 1]
        /\ b = On("unlive", p) /\ c = [op |-> "purge"] /\ d = On("unpool", p)
        /\ e = SetStatus(p, "withdrew") /\ f = [op |-> "mail", who |-> p, final |-> run.final]
  OBVIOUS
<1>7. PICK R : R = IF Rewarded(run) THEN <<f>> ELSE <<>>
  OBVIOUS
<1>8. \/ ~RunLive(p) /\ CompletedRun(p) = {} /\ Then(th, <<>>)
      \/ Then(th, <<a, b, c, d, e>> \o R)
  BY <1>0, <1>5, <1>6, <1>7 DEF Finalize
<1>9. CASE CompletedRun(p) = {} /\ Then(th, <<>>)
  <2>1. Wins(p) = 0 /\ Losses(p) = 0
    BY <1>9, FS_EmptySet DEF Wins, Losses
  <2>2. ~AtLimit(p)
    BY <2>1, EventAssumption DEF AtLimit
  <2>3. \A q \in Players : AtLimit(q)' => q # Now(th).who
    BY <1>0, <1>3, <2>2
  <2> QED
    BY <1>1, <1>2, <1>9, <2>3, NothingMore, CountingTally DEF Dumping
<1>10. CASE Then(th, <<a, b, c, d, e>> \o R)
  <2>1. PICK F, S : F = <<a, b, c, d, e>> /\ S = F \o R
    OBVIOUS
  <2>2. /\ IsList(F) /\ Len(F) = 5
        /\ F[1] = a /\ F[2] = b /\ F[3] = c /\ F[4] = d /\ F[5] = e
    <3>1. F \in Seq({a, b, c, d, e}) /\ Len(F) = 5
      BY <2>1
    <3> QED
      BY <2>1, <3>1, SeqIsList
  <2>3. IsList(R) /\ (R = <<>> \/ (Len(R) = 1 /\ R[1] = f)) /\ Len(R) \in {0, 1}
    BY <1>7, ShortLists
  <2>4. /\ IsList(S) /\ Len(S) = 5 + Len(R)
        /\ \A i \in 1..5 : S[i] = F[i]
        /\ \A i \in 1..Len(R) : S[5 + i] = R[i]
    <3>1. /\ IsList(F \o R) /\ Len(F \o R) = Len(F) + Len(R)
          /\ \A i \in 1..Len(F) : (F \o R)[i] = F[i]
          /\ \A i \in 1..Len(R) : (F \o R)[Len(F) + i] = R[i]
      <4>1. IsList(F) /\ IsList(R)
        BY <2>2, <2>3
      <4> QED
        BY <4>1, ListConcat
    <3> QED
      BY <3>1, <2>1, <2>2
  <2>5. DOMAIN S = 1..Len(S) /\ Len(S) \in {5, 6} /\ (Len(S) = 6 => S[6] = f)
    <3>1. Len(R) = 1 => R[1] = f
      BY <2>3, ShortLists
    <3> QED
      BY <2>3, <2>4, <3>1, ListFacts
  <2>6. ASSUME NEW i \in DOMAIN S PROVE S[i] \in {a, b, c, d, e, f}
    BY <2>2, <2>4, <2>5
  <2>7. /\ a.op = "record" /\ a.run = run /\ b.op = "unlive" /\ b.who = p /\ c.op = "purge"
        /\ d.op = "unpool" /\ e.op = "status" /\ f.op = "mail"
    BY <1>6 DEF On, SetStatus
  <2>8. run.wins <= RunWins /\ run.losses <= RunLosses
    BY <1>4, <1>5 DEF Tally, Within
  <2>9. \A i \in DOMAIN S : /\ S[i].op \in Counting
                            /\ S[i].op = "record" => S[i].run.wins <= RunWins
                                                     /\ S[i].run.losses <= RunLosses
    BY <2>6, <2>7, <2>8 DEF Counting
  <2>10. \E i \in DOMAIN S : S[i].op \in Settlers /\ S[i].who = p
    <3>1. 2 \in DOMAIN S /\ S[2] = b
      BY <2>2, <2>4, <2>5
    <3> QED
      BY <3>1, <2>7 DEF Settlers
  <2>11. Then(th, S)
    BY <1>10, <2>1
  <2> QED
    BY <1>0, <1>1, <1>2, <2>4, <2>9, <2>10, <2>11, CountingTally DEF Dumping
<1> QED
  BY <1>8, <1>9, <1>10

LEMMA RecordRunTally ==
  ASSUME IInv, Tables, InTurn, Tally, NEW th \in Threads, RecordRun(th)
  PROVE  Tally'
<1> DEFINE L == todo[th]
<1>0. PICK p, run : p = Now(th).who /\ run = Now(th).run
  OBVIOUS
<1>1. /\ 1 \in DOMAIN L /\ Now(th) = L[1] /\ L[1].op = "record" /\ Do(th, "record")
      /\ p \in Players /\ run \in Run
  BY <1>0, Running DEF RecordRun, Fits, WhoOps
<1>2. Settling(L, 1) /\ Counted(L, 1)
  BY <1>1 DEF InTurn, Settlements, Tally, Counts
<1>3. Recording(L) /\ run.wins <= RunWins /\ run.losses <= RunLosses
  BY <1>0, <1>1, <1>2 DEF Settling, Counted
<1>4. /\ results' = [results EXCEPT ![p] = Append(results[p], run)]
      /\ Then(th, <<>>) /\ UNCHANGED <<rows, games>>
  BY <1>0, <1>1, <1>3 DEF RecordRun, Recording, play
<1>5. (\A q \in Players : Lower(q)) /\ Theirs' /\ Kept' /\ GamesKept
  BY <1>4, SameTables
<1>6. ScoreInLimits'
  <2>1. ASSUME NEW q \in Players, NEW i \in DOMAIN results'[q]
        PROVE  results'[q][i].wins <= RunWins /\ results'[q][i].losses <= RunLosses
    <3>1. CASE q # p
      <4>1. results'[q] = results[q]
        BY <3>1, <1>4 DEF Tables
      <4> QED
        BY <4>1, <2>1 DEF Tally, ScoreInLimits
    <3>2. CASE q = p
      <4>1. results[p] \in Seq(Run) /\ results'[p] = Append(results[p], run)
        BY <1>1, <1>4 DEF Tables
      <4>2. /\ DOMAIN results'[p] = 1..(Len(results[p]) + 1)
            /\ \A k \in 1..Len(results[p]) : results'[p][k] = results[p][k]
            /\ results'[p][Len(results[p]) + 1] = run
            /\ Len(results[p]) \in Nat /\ DOMAIN results[p] = 1..Len(results[p])
        <5>1. /\ DOMAIN Append(results[p], run) = 1..(Len(results[p]) + 1)
              /\ \A k \in 1..Len(results[p]) : Append(results[p], run)[k] = results[p][k]
              /\ Append(results[p], run)[Len(results[p]) + 1] = run
          BY <4>1, <1>1
        <5> QED
          BY <4>1, <5>1, LenProperties
      <4>3. CASE i \in 1..Len(results[p])
        BY <4>2, <4>3, <3>2, <1>1 DEF Tally, ScoreInLimits
      <4>4. CASE i \notin 1..Len(results[p])
        <5>1. i = Len(results[p]) + 1
          BY <4>2, <4>4, <3>2
        <5> QED
          BY <4>2, <5>1, <3>2, <1>3
      <4> QED
        BY <4>3, <4>4
    <3> QED
      BY <3>1, <3>2
  <2> QED
    BY <2>1 DEF ScoreInLimits
<1> QED
  BY <1>1, <1>4, <1>5, <1>6, NothingMore, CountingTally DEF Dumping, Settlers, InTurn

\* The rows of a recorded run: the player's score is nothing, the others' is kept.
LEMMA ClearedScores ==
  ASSUME RowsOK, NEW p, rows' = {Cleared(r, p) : r \in rows}
  PROVE  /\ CompletedRun(p)' = {}
         /\ \A q : Lower(q)
<1>1. \A r \in rows : /\ Cleared(r, p).live = r.live \ {p}
                      /\ Cleared(r, p).done = r.done /\ Cleared(r, p).winner = r.winner
  BY DEF RowsOK, Row, Cleared
<1>2. CompletedRun(p)' = {}
  BY <1>1 DEF CompletedRun
<1>3. ASSUME NEW q, NEW X, NEW Y, IsFiniteSet(X), Y \subseteq {Cleared(r, p) : r \in X}
      PROVE  Cardinality(Y) \in Nat /\ Cardinality(X) \in Nat /\ Cardinality(Y) <= Cardinality(X)
  <2> DEFINE f == [r \in X |-> Cleared(r, p)]
             Z == {Cleared(r, p) : r \in X}
  <2>1. f \in Surjection(X, Z)
    BY DEF Surjection
  <2>2. IsFiniteSet(Z) /\ Cardinality(Z) <= Cardinality(X)
    BY <1>3, <2>1, FS_Surjection
  <2>3. Y \in SUBSET Z
    BY <1>3
  <2> HIDE DEF Z, f
  <2>4. IsFiniteSet(Y) /\ Cardinality(Y) <= Cardinality(Z)
    BY <2>2, <2>3, FS_Subset
  <2>5. Cardinality(Y) \in Nat /\ Cardinality(X) \in Nat /\ Cardinality(Z) \in Nat
    BY <1>3, <2>2, <2>4, FS_CardinalityType
  <2> QED
    BY <2>2, <2>4, <2>5
<1>4. ASSUME NEW q PROVE Lower(q)
  <2> DEFINE W == {r \in CompletedRun(q) : r.winner = q}
             B == {r \in CompletedRun(q) : r.winner # q}
  <2>1. IsFiniteSet(W) /\ IsFiniteSet(B)
    <3>1. IsFiniteSet(rows) /\ W \in SUBSET rows /\ B \in SUBSET rows
      BY RowsFinite DEF CompletedRun
    <3> HIDE DEF W, B
    <3> QED
      BY <3>1, FS_Subset
  <2>2. W' \subseteq {Cleared(r, p) : r \in W} /\ B' \subseteq {Cleared(r, p) : r \in B}
    BY <1>1 DEF CompletedRun
  <2>3. Wins(q) = Cardinality(W) /\ Losses(q) = Cardinality(B)
    BY DEF Wins, Losses
  <2>4. Wins(q)' = Cardinality(W') /\ Losses(q)' = Cardinality(B')
    BY DEF Wins, Losses
  <2> HIDE DEF W, B
  <2>5. PICK X, Y, V, U : X = W /\ Y = W' /\ V = B /\ U = B'
    OBVIOUS
  <2>6. /\ Cardinality(Y) \in Nat /\ Cardinality(X) \in Nat /\ Cardinality(Y) <= Cardinality(X)
        /\ Cardinality(U) \in Nat /\ Cardinality(V) \in Nat /\ Cardinality(U) <= Cardinality(V)
    BY <1>3, <2>1, <2>2, <2>5
  <2> QED
    BY <2>3, <2>4, <2>5, <2>6 DEF Lower
<1> QED
  BY <1>2, <1>4

LEMMA ClearLiveTally ==
  ASSUME IInv, Alone, Tally, NEW th \in Threads, ClearLive(th)
  PROVE  Tally'
<1>0. PICK p : p = Now(th).who
  OBVIOUS
<1>1. /\ Do(th, "unlive") /\ Then(th, <<>>) /\ UNCHANGED <<games, results>>
      /\ rows' = {Cleared(r, p) : r \in rows}
  BY <1>0 DEF ClearLive, outcome
<1>2. RowsOK
  BY DEF IInv, Typed
<1>3. CompletedRun(p)' = {} /\ \A q : Lower(q)
  BY <1>1, <1>2, ClearedScores
<1>4. ASSUME NEW s \in rows' PROVE \E r \in rows : /\ s.live \subseteq r.live /\ s.pair = r.pair
                                                  /\ s.game = r.game
  <2>1. PICK r \in rows : s = Cleared(r, p)
    BY <1>1
  <2> QED
    BY <2>1, <1>2 DEF RowsOK, Row, Cleared
<1>5. Theirs' /\ Kept' /\ GamesKept
  <2>1. Theirs'
    BY <1>4 DEF Theirs, Tally
  <2>2. Kept'
    BY <1>1, <1>4 DEF Kept, Tally
  <2> QED
    BY <2>1, <2>2, <1>1, <1>2 DEF GamesKept, RowsOK
<1>6. ~AtLimit(p)'
  <2>1. Wins(p)' = 0 /\ Losses(p)' = 0
    BY <1>3, FS_EmptySet DEF Wins, Losses
  <2> QED
    BY <2>1, EventAssumption DEF AtLimit
<1>7. ScoreInLimits'
  BY <1>1, SameResults
<1>8. \A q \in Players : AtLimit(q)' => q # Now(th).who
  BY <1>0, <1>6
<1> QED
  BY <1>1, <1>3, <1>5, <1>7, <1>8, NothingMore, CountingTally DEF Dumping

\* Rows that nobody plays for, or that were discarded, leave no trace.
LEMMA FewerRows ==
  ASSUME IInv, Tally, rows' \subseteq rows, games' = games
  PROVE  (\A p \in Players : Lower(p)) /\ Theirs' /\ Kept' /\ GamesKept
<1>1. RowsOK
  BY DEF IInv, Typed
<1>2. \A p : CompletedRun(p)' \subseteq CompletedRun(p)
  BY DEF CompletedRun
<1>3. \A p \in Players : Lower(p)
  BY <1>1, <1>2, ScoresFall
<1>4. Theirs' /\ Kept'
  BY DEF Theirs, Kept, Tally
<1> QED
  BY <1>1, <1>3, <1>4 DEF GamesKept, RowsOK

LEMMA PurgeTally ==
  ASSUME IInv, Alone, Tally, NEW th \in Threads, PurgeRows(th)
  PROVE  Tally'
<1>1. Do(th, "purge") /\ Then(th, <<>>) /\ rows' \subseteq rows /\ UNCHANGED <<games, results>>
  BY DEF PurgeRows, outcome
<1>2. (\A p \in Players : Lower(p)) /\ Theirs' /\ Kept' /\ GamesKept /\ ScoreInLimits'
  BY <1>1, FewerRows, SameResults
<1> QED
  BY <1>1, <1>2, NothingMore, CountingTally DEF Dumping, Settlers

LEMMA InsertTally ==
  ASSUME IInv, Alone, Tally, NEW th \in Threads, InsertRow(th)
  PROVE  Tally'
<1>0. PICK g : g = Now(th).game
  OBVIOUS
<1>1. /\ Do(th, "insert") /\ Then(th, <<>>) /\ UNCHANGED <<games, results>>
      /\ rows' \subseteq rows \cup {NewRow(g)}
  BY <1>0 DEF InsertRow, outcome
<1>2. RowsOK /\ g \in DOMAIN games /\ games[g].state # "gone"
  <2>1. 1 \in DOMAIN todo[th] /\ todo[th][1] = Now(th) /\ Now(th).op = "insert" /\ Points(Now(th))
    BY <1>1, Running
  <2>2. Dumped(todo[th], 1)
    BY <2>1 DEF Tally, Counts
  <2> QED
    BY <1>0, <2>1, <2>2 DEF Dumped, Points, IInv, Typed
<1>3. PICK n : n = NewRow(g)
  OBVIOUS
<1>4. /\ n.done = FALSE /\ n.live = Range(games[g].pair) /\ n.pair = games[g].pair
      /\ n.game = g
  BY <1>3 DEF NewRow
<1>5. \A p \in Players : Lower(p)
  <2>1. \A p : CompletedRun(p)' \subseteq CompletedRun(p)
    BY <1>1, <1>3, <1>4 DEF CompletedRun
  <2> QED
    BY <1>2, <2>1, ScoresFall
<1>6. Theirs' /\ Kept' /\ GamesKept
  <2>1. Theirs'
    BY <1>1, <1>3, <1>4 DEF Theirs, Tally
  <2>2. Kept'
    BY <1>1, <1>2, <1>3, <1>4 DEF Kept, Tally
  <2> QED
    BY <2>1, <2>2, <1>1, <1>2 DEF GamesKept, RowsOK
<1>7. ScoreInLimits'
  BY <1>1, SameResults
<1> QED
  BY <1>1, <1>5, <1>6, <1>7, NothingMore, CountingTally DEF Dumping, Settlers

LEMMA TailMoves ==
  ASSUME IInv, NEW th \in Threads, NEW op, Do(th, op), Then(th, <<>>)
  PROVE  \E M :
    /\ todo' = [todo EXCEPT ![th] = M]
    /\ \A i \in DOMAIN M : /\ i \in Nat \ {0} /\ i + 1 \in DOMAIN todo[th]
                           /\ M[i] = todo[th][i + 1]
    /\ \A j \in DOMAIN todo[th] : /\ j \in Nat \ {0}
                                  /\ j # 1 => j - 1 \in DOMAIN M /\ M[j - 1] = todo[th][j]
<1>1. PICK L, M : L = todo[th] /\ M = <<>> \o Tail(todo[th])
  OBVIOUS
<1>2. IsList(L) /\ L # <<>> /\ M = <<>> \o Tail(L)
  BY <1>1, Running
<1>3. /\ \A i \in DOMAIN M : i \in Nat \ {0} /\ i + 1 \in DOMAIN L /\ M[i] = L[i + 1]
      /\ \A j \in DOMAIN L : j \in Nat \ {0} /\ (j # 1 => j - 1 \in DOMAIN M /\ M[j - 1] = L[j])
  BY <1>2, TailOf
<1>4. todo' = [todo EXCEPT ![th] = M]
  BY <1>1 DEF Then
<1> QED
  BY <1>1, <1>3, <1>4

\* A discarded match: its open row goes, then its game.
LEMMA DumpTally ==
  ASSUME IInv, Alone, Tally, NEW th \in Threads, NEW op, Do(th, op), op \in Dumping,
         Then(th, <<>>), GamesKept, rows' \subseteq rows, Kept', results' = results,
         op = "discard" => \A r \in rows' : r.game # Now(th).game
  PROVE  Tally'
<1> DEFINE L == todo[th]
<1>1. /\ 1 \in DOMAIN L /\ Now(th) = L[1] /\ L[1].op = op /\ L # <<>> /\ IsList(L)
      /\ \A t \in Threads : t # th => todo[t] = <<>>
  <2>1. 1 \in DOMAIN L /\ Now(th) = L[1] /\ L[1].op = op /\ L # <<>> /\ IsList(L)
    BY Running
  <2> QED
    BY <2>1 DEF Alone, Idle
<1>2. PICK M :
        /\ todo' = [todo EXCEPT ![th] = M]
        /\ \A i \in DOMAIN M : i \in Nat \ {0} /\ i + 1 \in DOMAIN L /\ M[i] = L[i + 1]
        /\ \A j \in DOMAIN L : j \in Nat \ {0} /\ (j # 1 => j - 1 \in DOMAIN M /\ M[j - 1] = L[j])
  BY TailMoves
<1> HIDE DEF L
<1>4. RowsOK /\ \A p : CompletedRun(p)' \subseteq CompletedRun(p)
  BY DEF CompletedRun, IInv, Typed
<1>5. Within' /\ \A p \in Players : ~AtLimit(p)'
  <2>1. \A p \in Players : Lower(p)
    BY <1>4, ScoresFall
  <2>2. op \notin Counting
    BY DEF Counting, Dumping
  <2> QED
    BY <2>1, <2>2, LowerIsWithin, NobodyAtLimit DEF Tally
<1>6. Theirs' /\ ScoreInLimits'
  BY SameResults DEF Tally, Theirs
<1>7. ASSUME NEW i \in DOMAIN M PROVE Counted(M, i)' /\ Dumped(M, i)'
  <2>1. /\ i \in Nat \ {0} /\ i + 1 \in DOMAIN L /\ M[i] = L[i + 1] /\ i + 1 # 1
        /\ Placed(L, i + 1) /\ Counted(L, i + 1) /\ Dumped(L, i + 1)
    BY <1>2 DEF L, Tally, Counts, IInv, Places
  <2>2. M[i].op \notin {"insert", "complete"}
    BY <2>1 DEF Placed
  <2>3. Counted(M, i)'
    BY <2>1, <2>2 DEF Counted, GamesKept
  <2>4. M[i].op \in Dumping => \A j \in DOMAIN M : j < i => M[j].op \in Dumping
    <3>1. ASSUME M[i].op \in Dumping, NEW j \in DOMAIN M, j < i PROVE M[j].op \in Dumping
      <4>1. j + 1 \in DOMAIN L /\ M[j] = L[j + 1] /\ j + 1 < i + 1
        BY <1>2, <2>1, <3>1
      <4> QED
        BY <2>1, <3>1, <4>1 DEF Dumped
    <3> QED
      BY <3>1
  <2>5. M[i].op = "discard" => \A r \in rows' : r.game = M[i].game => ~r.done
    BY <2>1 DEF Dumped
  <2>6. M[i].op = "erase" =>
          \/ i - 1 \in DOMAIN M /\ M[i - 1].op = "discard" /\ M[i - 1].game = M[i].game
          \/ \A r \in rows' : r.game # M[i].game
    <3>1. ASSUME M[i].op = "erase" , i \in DOMAIN L, L[i].op = "discard", L[i].game = M[i].game
          PROVE  \/ i - 1 \in DOMAIN M /\ M[i - 1].op = "discard" /\ M[i - 1].game = M[i].game
                 \/ \A r \in rows' : r.game # M[i].game
      <4>1. CASE i = 1
        BY <4>1, <3>1, <1>1
      <4>2. CASE i # 1
        BY <4>2, <3>1, <1>2
      <4> QED
        BY <4>1, <4>2
    <3>2. (i + 1) - 1 = i
      BY <2>1
    <3> QED
      BY <2>1, <3>1, <3>2 DEF Dumped
  <2>7. Dumped(M, i)'
    BY <2>2, <2>4, <2>5, <2>6 DEF Dumped
  <2> QED
    BY <2>3, <2>7
<1> QED
  BY <1>1, <1>2, <1>5, <1>6, <1>7, TallyMoves DEF L

LEMMA DiscardTally ==
  ASSUME IInv, Alone, Tally, NEW th \in Threads, DiscardRow(th)
  PROVE  Tally'
<1>1. /\ Do(th, "discard") /\ Then(th, <<>>) /\ UNCHANGED <<games, results>>
      /\ rows' \subseteq rows /\ \A r \in rows' : r.game # Now(th).game \/ r.done
  BY DEF DiscardRow, outcome, NotDiscarded
<1>2. Kept' /\ GamesKept
  BY <1>1, FewerRows
<1>3. \A r \in rows' : r.game # Now(th).game
  <2>1. 1 \in DOMAIN todo[th] /\ todo[th][1] = Now(th) /\ Now(th).op = "discard"
    BY <1>1, Running
  <2>2. Dumped(todo[th], 1)
    BY <2>1 DEF Tally, Counts
  <2> QED
    BY <1>1, <2>1, <2>2 DEF Dumped
<1> QED
  BY <1>1, <1>2, <1>3, DumpTally DEF Dumping

LEMMA EraseTally ==
  ASSUME IInv, IInv', Alone, Tally, NEW th \in Threads, EraseGame(th)
  PROVE  Tally'
<1>1. PICK g : g = Now(th).game
  OBVIOUS
<1>2. /\ Do(th, "erase") /\ Then(th, <<>>) /\ UNCHANGED <<rows, results>>
      /\ games' = [games EXCEPT ![g].state = "gone"]
  BY <1>1 DEF EraseGame, outcome
<1>3. games \in Seq(GameType) /\ games' \in Seq(GameType) /\ DOMAIN games = 1..Len(games)
      /\ \A h \in DOMAIN games : games[h] \in GameType
  <2>1. games \in Seq(GameType) /\ games' \in Seq(GameType)
    BY DEF IInv, Typed, RowsOK
  <2> QED
    BY <2>1, LenProperties
<1>4. \A h \in DOMAIN games : /\ h \in DOMAIN games' /\ games'[h].pair = games[h].pair
                              /\ h # g => games'[h] = games[h]
  BY <1>2, <1>3 DEF GameType
<1>5. GamesKept
  BY <1>3, <1>4 DEF GamesKept
<1>6. \A r \in rows : r.game # g /\ r.game \in DOMAIN games
  <2>1. 1 \in DOMAIN todo[th] /\ todo[th][1] = Now(th) /\ Now(th).op = "erase"
        /\ IsList(todo[th])
    BY <1>2, Running
  <2>2. Dumped(todo[th], 1) /\ 1 - 1 \notin DOMAIN todo[th]
    BY <2>1, ListFacts DEF Tally, Counts
  <2> QED
    BY <1>1, <2>1, <2>2 DEF Dumped, IInv, Typed, RowsOK
<1>7. Kept'
  BY <1>2, <1>4, <1>6 DEF Kept, Tally
<1> QED
  BY <1>2, <1>5, <1>7, DumpTally DEF Dumping

\* Statements that add a list of their own, where nobody is at a limit.
LEMMA NewListTally ==
  ASSUME IInv, Alone, Tally, NEW th \in Threads, NEW op, Do(th, op),
         op \notin Counting \cup Dumping, NEW S, IsList(S), Then(th, S),
         UNCHANGED <<rows, results>>, GamesKept, Kept',
         \A M : Spliced(M, S, todo[th]) =>
                  \A i \in 1..Len(S) : Counted(M, i)' /\ Dumped(M, i)'
  PROVE  Tally'
<1>1. PICK M : Spliced(M, S, todo[th]) /\ todo' = [todo EXCEPT ![th] = M]
  BY ThenMoves
<1>2. \A i \in 1..Len(S) : Counted(M, i)' /\ Dumped(M, i)'
  BY <1>1
<1>3. \A p \in Players : Lower(p)
  BY SameScores
<1>4. Within' /\ \A p \in Players : ~AtLimit(p)'
  BY <1>3, LowerIsWithin, NobodyAtLimit DEF Tally
<1>5. Theirs' /\ ScoreInLimits'
  BY SameResults DEF Tally, Theirs
<1> QED
  BY <1>1, <1>2, <1>4, <1>5, ListMoves

\* The first and the second of two lists.
ThreeOf(S, a, b, c) == IsList(S) /\ Len(S) = 3 /\ S[1] = a /\ S[2] = b /\ S[3] = c

LEMMA TwoAndOne ==
  ASSUME NEW a, NEW b, NEW c
  PROVE  ThreeOf(<<a, b>> \o <<c>>, a, b, c)
<1>1. PICK A, B : A = <<a, b>> /\ B = <<c>>
  OBVIOUS
<1>2. /\ IsList(A) /\ Len(A) = 2 /\ A[1] = a /\ A[2] = b
      /\ IsList(B) /\ Len(B) = 1 /\ B[1] = c
  BY <1>1, ShortLists
<1>3. /\ IsList(A \o B) /\ Len(A \o B) = Len(A) + Len(B)
      /\ \A i \in 1..Len(A) : (A \o B)[i] = A[i]
      /\ \A i \in 1..Len(B) : (A \o B)[Len(A) + i] = B[i]
  <2>1. IsList(A) /\ IsList(B)
    BY <1>2
  <2> QED
    BY <2>1, ListConcat
<1>4. PICK S : S = A \o B
  OBVIOUS
<1>5. /\ IsList(S) /\ Len(S) = 3
      /\ \A i \in 1..2 : S[i] = A[i]
      /\ \A i \in 1..1 : S[2 + i] = B[i]
  BY <1>2, <1>3, <1>4
<1>6. ThreeOf(S, a, b, c)
  BY <1>2, <1>5 DEF ThreeOf
<1> QED
  BY <1>1, <1>4, <1>6

LEMMA SearchTally ==
  ASSUME IInv, Alone, Tally, NEW th \in Threads, SearchStep(th)
  PROVE  Tally'
<1>0. PICK p, c : p = Now(th).who /\ c = [op |-> "queue", who |-> p, deck |-> Now(th).deck]
  OBVIOUS
<1>1. Do(th, "search") /\ UNCHANGED <<rows, games, results>>
  BY DEF SearchStep, db, play, outcome
<1>2. (\A q \in Players : Lower(q)) /\ Theirs' /\ Kept' /\ GamesKept
  BY <1>1, SameTables
<1>3. \/ Then(th, <<c>>)
      \/ Then(th, <<Async(p, TRUE, TRUE)>> \o <<c>>)
      \/ \E r \in Unfinished(p) :
           Then(th, <<OnGame("discard", r.game), OnGame("erase", r.game)>> \o <<c>>)
  BY <1>0 DEF SearchStep
<1>4. c.op \notin Dues \cup Weighty /\ Async(p, TRUE, TRUE).op \notin Dues \cup Weighty
  BY <1>0 DEF Async, Dues, Weighty
<1>5. Calm(<<c>>) /\ Calm(<<Async(p, TRUE, TRUE)>> \o <<c>>)
  <2>1. Calm(<<c>>) /\ Calm(<<Async(p, TRUE, TRUE)>>)
    BY <1>4, CalmLists
  <2> QED
    BY <2>1, CalmConcat
<1>6. ASSUME NEW S, Then(th, S), Calm(S) PROVE Tally'
  BY <1>1, <1>2, <1>6, CalmTally DEF Counting, Dumping
<1>7. ASSUME NEW r \in Unfinished(p),
             Then(th, <<OnGame("discard", r.game), OnGame("erase", r.game)>> \o <<c>>)
      PROVE  Tally'
  <2>1. PICK a, b, S : /\ a = OnGame("discard", r.game) /\ b = OnGame("erase", r.game)
                       /\ S = <<a, b>> \o <<c>>
    OBVIOUS
  <2>2. IsList(S) /\ Len(S) = 3 /\ S[1] = a /\ S[2] = b /\ S[3] = c
    <3>1. ThreeOf(<<a, b>> \o <<c>>, a, b, c)
      BY TwoAndOne
    <3>2. ThreeOf(S, a, b, c)
      BY <2>1, <3>1
    <3> QED
      BY <3>2 DEF ThreeOf
  <2>3. /\ a.op = "discard" /\ a.game = r.game /\ b.op = "erase" /\ b.game = r.game
        /\ c.op = "queue"
    BY <1>0, <2>1 DEF OnGame
  <2>4. \A s \in rows : s.game = r.game => ~s.done
    BY DEF Unfinished, IInv, Typed, RowsOK
  <2>5. ASSUME NEW M, Spliced(M, S, todo[th]), NEW i \in 1..Len(S)
        PROVE  Counted(M, i)' /\ Dumped(M, i)'
    <3>1. /\ M[1] = a /\ M[2] = b /\ M[3] = c /\ i \in {1, 2, 3}
          /\ Len(M) \in Nat /\ DOMAIN M = 1..Len(M) /\ 3 <= Len(M)
      <4>1. M[1] = a /\ M[2] = b /\ M[3] = c /\ i \in {1, 2, 3}
        BY <2>2, <2>5 DEF Spliced
      <4>2. Len(M) \in Nat /\ DOMAIN M = 1..Len(M)
        BY <2>5, ListFacts DEF Spliced
      <4>3. todo[th] # <<>> /\ Len(todo[th]) \in Nat /\ Len(todo[th]) # 0
        BY <1>1, Running, ListFacts
      <4>4. Len(M) = 3 + Len(todo[th]) - 1
        BY <4>3, <2>2, <2>5 DEF Spliced
      <4>5. 3 <= Len(M)
        BY <4>3, <4>4
      <4> QED
        BY <4>1, <4>2, <4>5
    <3>2. Counted(M, i)'
      BY <3>1, <2>3 DEF Counted
    <3>3. M[i].op \in Dumping => \A j \in DOMAIN M : j < i => M[j].op \in Dumping
      <4>1. ASSUME i # 3, NEW j \in DOMAIN M, j < i PROVE j = 1
        BY <3>1, <4>1
      <4>2. i = 3 => M[i].op \notin Dumping
        BY <3>1, <2>3 DEF Dumping
      <4>3. M[1].op \in Dumping
        BY <3>1, <2>3 DEF Dumping
      <4> QED
        BY <4>1, <4>2, <4>3
    <3>4. i = 2 => i - 1 \in DOMAIN M /\ M[i - 1].op = "discard" /\ M[i - 1].game = M[i].game
      BY <3>1, <2>3
    <3>5. /\ M[i].op = "discard" => i = 1
          /\ M[i].op = "erase" => i = 2
          /\ M[i].op # "insert"
      BY <3>1, <2>3
    <3>6. M[i].op = "discard" => \A s \in rows' : s.game = M[i].game => ~s.done
      BY <3>1, <3>5, <2>3, <2>4, <1>1
    <3>7. Dumped(M, i)'
      BY <3>3, <3>4, <3>5, <3>6 DEF Dumped
    <3> QED
      BY <3>2, <3>7
  <2>6. Then(th, S)
    BY <1>7, <2>1
  <2>7. "search" \notin Counting \cup Dumping
    BY DEF Counting, Dumping
  <2> QED
    BY <1>1, <1>2, <2>2, <2>5, <2>6, <2>7, NewListTally
<1> QED
  BY <1>3, <1>5, <1>6, <1>7

LEMMA CreateTally ==
  ASSUME IInv, Alone, Tally, NEW th \in Threads, CreateGame(th)
  PROVE  Tally'
<1>0. PICK g, n, S : /\ g = Len(games) + 1 /\ n = [pair |-> Now(th).pair, state |-> "playing"]
                     /\ S = <<OnGame("insert", g)>>
  OBVIOUS
<1>1. /\ Do(th, "game") /\ Then(th, S) /\ games' = Append(games, n) /\ UNCHANGED <<rows, results>>
  BY <1>0 DEF CreateGame, outcome
<1>2. games \in Seq(GameType) /\ n \in GameType
  <2>1. Now(th).pair \in Players \X Players
    BY <1>1, Running DEF Fits
  <2> QED
    BY <2>1, <1>0 DEF GameType, IInv, Typed, RowsOK
<1>3. /\ games' \in Seq(GameType) /\ DOMAIN games = 1..Len(games) /\ Len(games) \in Nat
      /\ \A h \in DOMAIN games : h \in DOMAIN games' /\ games'[h] = games[h]
      /\ games'[g] = n
  <2>1. DOMAIN games = 1..Len(games) /\ Len(games) \in Nat
    BY <1>2, LenProperties
  <2>2. /\ games' \in Seq(GameType) /\ Len(games') = Len(games) + 1
        /\ \A i \in 1..Len(games) : games'[i] = games[i]
        /\ games'[Len(games) + 1] = n
    BY <1>1, <1>2, AppendProperties
  <2>3. DOMAIN games' = 1..Len(games')
    BY <2>2, LenProperties
  <2> QED
    BY <2>1, <2>2, <2>3, <1>0
<1>4. GamesKept
  BY <1>3 DEF GamesKept
<1>5. Kept'
  BY <1>1, <1>3 DEF Kept, Tally, IInv, Typed, RowsOK
<1>6. IsList(S) /\ Len(S) = 1 /\ S[1].op = "insert" /\ S[1].game = g
  BY <1>0, ShortLists DEF OnGame
<1>7. ASSUME NEW M, Spliced(M, S, todo[th]), NEW i \in 1..Len(S)
      PROVE  Counted(M, i)' /\ Dumped(M, i)'
  <2>1. i = 1 /\ M[i] = S[1]
    BY <1>6, <1>7 DEF Spliced
  <2>2. games'[g].state # "gone"
    BY <1>0, <1>3
  <2> QED
    BY <2>1, <2>2, <1>6 DEF Counted, Dumped, Dumping
<1>8. "game" \notin Counting \cup Dumping
  BY DEF Counting, Dumping
<1> QED
  BY <1>1, <1>4, <1>5, <1>6, <1>7, <1>8, NewListTally

LEMMA QuitIsCalm == \A q : Calm(Quit(q))
<1> SUFFICES ASSUME NEW q PROVE Calm(Quit(q))
  OBVIOUS
<1>1. Final(q, "quit").op \notin Dues \cup Weighty
  BY DEF Final, Dues, Weighty
<1>2. Calm(<<Final(q, "quit")>>)
  BY <1>1, CalmLists
<1> QED
  BY <1>2, CalmLists DEF Quit

LEMMA EndGameTally ==
  ASSUME IInv, Alone, Tally, NEW th \in Threads, EndGame(th)
  PROVE  Tally'
<1>0. PICK g : g = Now(th).game
  OBVIOUS
<1>1. Do(th, "endgame") /\ UNCHANGED <<rows, games, results>>
  BY DEF EndGame, db, play, outcome
<1>2. (\A q \in Players : Lower(q)) /\ Theirs' /\ Kept' /\ GamesKept
  BY <1>1, SameTables
<1>3. g \in DOMAIN games
  BY <1>0, <1>1, Running DEF Points
<1>4. "endgame" \notin Counting \cup Dumping
  BY DEF Counting, Dumping
<1>5. \/ Then(th, <<>>)
      \/ /\ games[g].state # "gone"
         /\ \E w : Then(th, <<OnGame("insert", g), Result(g, w, games[g].pair, NoOne),
                              OnGame("ended", g)>>)
  BY <1>0 DEF EndGame
<1>6. CASE Then(th, <<>>)
  BY <1>1, <1>2, <1>4, <1>6, CalmLists, CalmTally
<1>7. ASSUME games[g].state # "gone",
             NEW w, Then(th, <<OnGame("insert", g), Result(g, w, games[g].pair, NoOne),
                               OnGame("ended", g)>>)
      PROVE  Tally'
  <2>1. PICK a, b, c, S : /\ a = OnGame("insert", g) /\ b = Result(g, w, games[g].pair, NoOne)
                          /\ c = OnGame("ended", g) /\ S = <<a, b, c>>
    OBVIOUS
  <2>2. /\ a.op = "insert" /\ a.game = g /\ b.op = "result" /\ b.game = g
        /\ b.pair = games[g].pair /\ c.op = "ended"
    BY <2>1 DEF OnGame, Result
  <2>3. IsList(S) /\ Len(S) = 3 /\ S[1] = a /\ S[2] = b /\ S[3] = c
    BY <2>1, ShortLists
  <2>4. ASSUME NEW M, Spliced(M, S, todo[th]), NEW i \in 1..Len(S)
        PROVE  Counted(M, i)' /\ Dumped(M, i)'
    <3>1. M[i] = a \/ M[i] = b \/ M[i] = c
      BY <2>3, <2>4 DEF Spliced
    <3>2. Counted(M, i)'
      BY <3>1, <2>2, <1>1, <1>3 DEF Counted
    <3>3. Dumped(M, i)'
      BY <3>1, <2>2, <1>1, <1>7 DEF Dumped, Dumping
    <3> QED
      BY <3>2, <3>3
  <2>5. Then(th, S)
    BY <1>7, <2>1
  <2> QED
    BY <1>1, <1>2, <1>4, <2>3, <2>4, <2>5, NewListTally
<1> QED
  BY <1>5, <1>6, <1>7

LEMMA ForfeitTally ==
  ASSUME IInv, Alone, Tally, NEW th \in Threads, ForfeitStep(th)
  PROVE  Tally'
<1>0. PICK p : p = Now(th).who
  OBVIOUS
<1>1. Do(th, "forfeit") /\ UNCHANGED <<rows, games, results>>
  BY DEF ForfeitStep, db, play, outcome
<1>2. (\A q \in Players : Lower(q)) /\ Theirs' /\ Kept' /\ GamesKept
  BY <1>1, SameTables
<1>4. "forfeit" \notin Counting \cup Dumping
  BY DEF Counting, Dumping
<1>5. \/ \E q : Then(th, Quit(q))
      \/ /\ Unfinished(p) # {}
         /\ \E w, q : Then(th, <<Result(CurrentRow(p).game, w, CurrentRow(p).pair, q)>>)
  BY <1>0 DEF ForfeitStep
<1>6. ASSUME NEW q, Then(th, Quit(q)) PROVE Tally'
  BY <1>1, <1>2, <1>4, <1>6, QuitIsCalm, CalmTally
<1>7. ASSUME Unfinished(p) # {},
             NEW w, NEW q, Then(th, <<Result(CurrentRow(p).game, w, CurrentRow(p).pair, q)>>)
      PROVE  Tally'
  <2>1. PICK r : r = CurrentRow(p)
    OBVIOUS
  <2>2. r.game \in DOMAIN games /\ r.pair = games[r.game].pair
    BY <1>7, <2>1, CurrentRowExists DEF Unfinished, IInv, Typed, RowsOK
  <2>3. PICK a, S : a = Result(r.game, w, r.pair, q) /\ S = <<a>>
    OBVIOUS
  <2>4. a.op = "result" /\ a.game = r.game /\ a.pair = r.pair
    BY <2>3 DEF Result
  <2>5. IsList(S) /\ Len(S) = 1 /\ S[1] = a
    BY <2>3, ShortLists
  <2>6. ASSUME NEW M, Spliced(M, S, todo[th]), NEW i \in 1..Len(S)
        PROVE  Counted(M, i)' /\ Dumped(M, i)'
    <3>1. M[i] = a
      BY <2>5, <2>6 DEF Spliced
    <3>2. Counted(M, i)'
      BY <3>1, <2>2, <2>4, <1>1 DEF Counted
    <3>3. Dumped(M, i)'
      BY <3>1, <2>4 DEF Dumped, Dumping
    <3> QED
      BY <3>2, <3>3
  <2>7. Then(th, S)
    BY <1>7, <2>1, <2>3
  <2> QED
    BY <1>1, <1>2, <1>4, <2>5, <2>6, <2>7, NewListTally
<1> QED
  BY <1>5, <1>6, <1>7

\* An open match's result completes its row, and both players are checked next.
LEMMA ResultTally ==
  ASSUME IInv, Alone, Tally, NEW th \in Threads, ReadResult(th)
  PROVE  Tally'
<1>0. PICK s, z : s = Now(th) /\ z = s.pair
  OBVIOUS
<1>1. Do(th, "result") /\ UNCHANGED <<rows, games, results>>
  BY DEF ReadResult, db, play, outcome
<1>2. (\A q \in Players : Lower(q)) /\ Theirs' /\ Kept' /\ GamesKept
  BY <1>1, SameTables
<1>3. "result" \notin Counting \cup Dumping
  BY DEF Counting, Dumping
<1>4. /\ s.game \in DOMAIN games /\ z = games[s.game].pair /\ z \in Players \X Players
  <2>1. /\ 1 \in DOMAIN todo[th] /\ todo[th][1] = s /\ s.op = "result" /\ Fits(s)
    BY <1>0, <1>1, Running
  <2>2. Counted(todo[th], 1)
    BY <2>1 DEF Tally, Counts
  <2> QED
    BY <1>0, <2>1, <2>2 DEF Counted, Fits
<1>5. PICK A : A = AfterResult(z)
  OBVIOUS
<1>6. /\ IsList(A) /\ Len(A) = 5 /\ A[1] = On("limit", z[1]) /\ A[2] = On("limit", z[2])
      /\ \A i \in 1..5 : A[i].op \in {"limit", "start", "return"}
  <2>1. PICK a, b, c, d, e : /\ a = On("limit", z[1]) /\ b = On("limit", z[2])
                             /\ c = [op |-> "start"]
                             /\ d = On("return", z[1]) /\ e = On("return", z[2])
    OBVIOUS
  <2>2. A = <<a, b, c, d, e>>
    BY <1>5, <2>1 DEF AfterResult
  <2>3. A \in Seq({a, b, c, d, e}) /\ Len(A) = 5 /\ A[1] = a /\ A[2] = b
    BY <2>2
  <2>4. \A i \in 1..5 : A[i] \in {a, b, c, d, e}
    BY <2>3
  <2>5. {a.op, b.op, c.op, d.op, e.op} \subseteq {"limit", "start", "return"}
    BY <2>1 DEF On
  <2> QED
    BY <2>1, <2>3, <2>4, <2>5, SeqIsList
<1>7. Calm(A)
  BY <1>6, ListFacts DEF Calm, Lacks, Dues, Weighty
<1>8. \/ \E q : Then(th, Quit(q))
      \/ Then(th, <<>> \o A)
      \/ \E r \in rows : \E w : /\ r.game = s.game
                                /\ Then(th, <<[op |-> "complete", id |-> r.id, winner |-> w]>> \o A)
  BY <1>0, <1>5 DEF ReadResult
<1>9. Calm(<<>> \o A)
  BY <1>7, CalmLists, CalmConcat
<1>10. ASSUME NEW S, Then(th, S), Calm(S) PROVE Tally'
  BY <1>1, <1>2, <1>3, <1>10, CalmTally
<1>11. ASSUME NEW r \in rows, NEW w, r.game = s.game,
              Then(th, <<[op |-> "complete", id |-> r.id, winner |-> w]>> \o A)
       PROVE  Tally'
  <2>1. PICK a, B, S : /\ a = [op |-> "complete", id |-> r.id, winner |-> w]
                       /\ B = <<a>> /\ S = B \o A
    OBVIOUS
  <2>2. a.op = "complete" /\ a.id = r.id /\ IsList(B) /\ Len(B) = 1 /\ B[1] = a
    BY <2>1, ShortLists
  <2>3. /\ IsList(S) /\ Len(S) = 6 /\ S[1] = a
        /\ \A i \in 1..5 : S[1 + i] = A[i]
    <3>1. /\ IsList(B \o A) /\ Len(B \o A) = Len(B) + Len(A)
          /\ \A i \in 1..Len(B) : (B \o A)[i] = B[i]
          /\ \A i \in 1..Len(A) : (B \o A)[Len(B) + i] = A[i]
      <4>1. IsList(B) /\ IsList(A)
        BY <1>6, <2>2
      <4> QED
        BY <4>1, ListConcat
    <3> QED
      BY <3>1, <1>6, <2>1, <2>2
  <2>4. ASSUME NEW t \in rows, t.id = r.id PROVE Range(t.pair) \subseteq {z[1], z[2]}
    <3>1. t = r /\ r.pair = z
      BY <2>4, <1>4, <1>11 DEF IInv, Typed, RowsOK
    <3> QED
      BY <3>1, <1>4, PairFacts
  <2>5. ASSUME NEW M, Spliced(M, S, todo[th]), NEW i \in 1..Len(S)
        PROVE  Counted(M, i)' /\ Dumped(M, i)'
    <3>1. /\ \A k \in 1..6 : M[k] = S[k]
          /\ Len(M) \in Nat /\ DOMAIN M = 1..Len(M)
      BY <2>3, <2>5, ListFacts DEF Spliced
    <3>2. todo[th] # <<>> /\ Len(todo[th]) \in Nat /\ Len(todo[th]) # 0
      BY <1>1, Running, ListFacts
    <3>3. Len(M) = 6 + Len(todo[th]) - 1
      BY <3>2, <2>3, <2>5 DEF Spliced
    <3>4. {2, 3} \subseteq DOMAIN M
      BY <3>1, <3>2, <3>3
    <3>5. /\ M[1] = a /\ M[2] = On("limit", z[1]) /\ M[3] = On("limit", z[2])
      <4>1. S[1 + 1] = A[1] /\ S[1 + 2] = A[2]
        BY <2>3
      <4> QED
        BY <4>1, <3>1, <2>3, <1>6
    <3>6. i = 1 \/ M[i].op \in {"limit", "start", "return"}
      <4>1. CASE i # 1
        <5>1. i - 1 \in 1..5 /\ 1 + (i - 1) = i
          BY <4>1, <2>3
        <5>2. S[1 + (i - 1)] = A[i - 1]
          BY <5>1, <2>3
        <5> QED
          BY <5>1, <5>2, <3>1, <2>3, <1>6
      <4> QED
        BY <4>1
    <3>7. Counted(M, i)'
      <4>1. CASE i = 1
        <5>1. /\ M[1].op = "complete" /\ M[1].id = r.id
              /\ M[2].op = "limit" /\ M[2].who = z[1] /\ M[3].op = "limit" /\ M[3].who = z[2]
          BY <3>5, <2>2 DEF On
        <5>2. \A t \in rows' : t.id = M[1].id => Range(t.pair) \subseteq {M[2].who, M[3].who}
          BY <5>1, <2>4, <1>1
        <5>3. Counted(M, 1)'
          BY <5>1, <5>2, <3>4 DEF Counted
        <5> QED
          BY <4>1, <5>3
      <4>2. CASE M[i].op \in {"limit", "start", "return"}
        BY <4>2 DEF Counted
      <4> QED
        BY <3>6, <4>1, <4>2
    <3>8. Dumped(M, i)'
      BY <3>5, <3>6, <2>2 DEF Dumped, Dumping
    <3> QED
      BY <3>7, <3>8
  <2>6. Then(th, S)
    BY <1>11, <2>1
  <2> QED
    BY <1>1, <1>2, <1>3, <2>3, <2>5, <2>6, NewListTally
<1> QED
  BY <1>8, <1>7, <1>9, <1>10, <1>11, QuitIsCalm

LEMMA OneMore ==
  ASSUME NEW d, NEW X, NEW Y, IsFiniteSet(X), Y \subseteq X \cup {d}
  PROVE  /\ Cardinality(X) \in Nat /\ Cardinality(Y) \in Nat
         /\ Cardinality(Y) <= Cardinality(X) + 1
<1>1. PICK Z : Z = X \cup {d}
  OBVIOUS
<1>2. IsFiniteSet(Z) /\ Cardinality(Z) \in {Cardinality(X), Cardinality(X) + 1}
  BY <1>1, FS_AddElement
<1>3. Y \in SUBSET Z
  BY <1>1
<1>4. IsFiniteSet(Y) /\ Cardinality(Y) <= Cardinality(Z)
  BY <1>2, <1>3, FS_Subset
<1>5. Cardinality(X) \in Nat /\ Cardinality(Y) \in Nat /\ Cardinality(Z) \in Nat
  BY <1>2, <1>4, FS_CardinalityType
<1> QED
  BY <1>2, <1>4, <1>5

\* A match that is decided is scored once, by those it is live for.
LEMMA ScoredOnce ==
  ASSUME RowsOK, NEW id, NEW w, NEW p,
         rows' = {IF r.id # id THEN r ELSE [r EXCEPT !.done = TRUE, !.winner = w] : r \in rows}
  PROVE  /\ {Wins(p), Losses(p), Wins(p)', Losses(p)'} \subseteq Nat
         /\ Wins(p)' <= Wins(p) + 1 /\ Losses(p)' <= Losses(p) + 1
         /\ (\A r \in rows : r.id = id => p \notin r.live) => Lower(p)
<1> DEFINE W == {r \in CompletedRun(p) : r.winner = p}
           B == {r \in CompletedRun(p) : r.winner # p}
<1>1. IsFiniteSet(W) /\ IsFiniteSet(B)
  <2>1. IsFiniteSet(rows) /\ W \in SUBSET rows /\ B \in SUBSET rows
    BY RowsFinite DEF CompletedRun
  <2> HIDE DEF W, B
  <2> QED
    BY <2>1, FS_Subset
<1>2. PICK d : \A r \in rows : r.id = id => [r EXCEPT !.done = TRUE, !.winner = w] = d
  <2>1. CASE \E r \in rows : r.id = id
    <3>1. PICK s \in rows : s.id = id
      BY <2>1
    <3>2. \A r \in rows : r.id = id => r = s
      BY <3>1 DEF RowsOK
    <3> QED
      BY <3>2
  <2>2. CASE ~\E r \in rows : r.id = id
    BY <2>2
  <2> QED
    BY <2>1, <2>2
<1>3. \A t \in rows' : t \in rows \/ t = d
  BY <1>2
<1>4. W' \subseteq W \cup {d} /\ B' \subseteq B \cup {d}
  BY <1>3 DEF CompletedRun
<1>5. Wins(p) = Cardinality(W) /\ Losses(p) = Cardinality(B)
  BY DEF Wins, Losses
<1>6. Wins(p)' = Cardinality(W') /\ Losses(p)' = Cardinality(B')
  BY DEF Wins, Losses
<1> HIDE DEF W, B
<1>7. \A X, Y : IsFiniteSet(X) /\ Y \subseteq X \cup {d} =>
        /\ Cardinality(X) \in Nat /\ Cardinality(Y) \in Nat
        /\ Cardinality(Y) <= Cardinality(X) + 1
  BY OneMore
<1>8. PICK X, Y, V, U : X = W /\ Y = W' /\ V = B /\ U = B'
  OBVIOUS
<1>9. /\ Cardinality(X) \in Nat /\ Cardinality(Y) \in Nat /\ Cardinality(Y) <= Cardinality(X) + 1
      /\ Cardinality(V) \in Nat /\ Cardinality(U) \in Nat /\ Cardinality(U) <= Cardinality(V) + 1
  BY <1>1, <1>4, <1>7, <1>8
<1>10. ASSUME \A r \in rows : r.id = id => p \notin r.live PROVE Lower(p)
  <2>1. \A r \in rows : [r EXCEPT !.done = TRUE, !.winner = w].live = r.live
    BY DEF RowsOK, Row
  <2>2. CompletedRun(p)' \subseteq CompletedRun(p)
    BY <1>10, <2>1 DEF CompletedRun
  <2> QED
    BY <2>2, ScoresFall
<1> QED
  BY <1>5, <1>6, <1>8, <1>9, <1>10

\* The row is completed: who is at a limit now is checked next.
LEMMA CompleteTally ==
  ASSUME IInv, Alone, Tally, NEW th \in Threads, CompleteRow(th)
  PROVE  Tally'
<1> DEFINE L == todo[th]
<1>0. PICK id, w : id = Now(th).id /\ w = Now(th).winner
  OBVIOUS
<1>1. /\ Do(th, "complete") /\ Then(th, <<>>) /\ UNCHANGED <<games, results>>
      /\ rows' = {IF r.id # id THEN r ELSE [r EXCEPT !.done = TRUE, !.winner = w] : r \in rows}
  BY <1>0 DEF CompleteRow, outcome
<1>2. RowsOK
  BY DEF IInv, Typed
<1>3. /\ {2, 3} \subseteq DOMAIN L /\ L[2].op = "limit" /\ L[3].op = "limit"
      /\ \A r \in rows : r.id = id => Range(r.pair) \subseteq {L[2].who, L[3].who}
      /\ \A t \in Threads : t # th => todo[t] = <<>>
  <2>1. 1 \in DOMAIN L /\ L[1] = Now(th) /\ L[1].op = "complete" /\ L # <<>>
    BY <1>1, Running
  <2>2. Counted(L, 1)
    BY <2>1 DEF Tally, Counts
  <2> QED
    BY <2>1, <2>2, <1>0 DEF Counted, Alone, Idle
<1>4. PICK M :
        /\ todo' = [todo EXCEPT ![th] = M]
        /\ \A i \in DOMAIN M : i \in Nat \ {0} /\ i + 1 \in DOMAIN L /\ M[i] = L[i + 1]
        /\ \A j \in DOMAIN L : j \in Nat \ {0} /\ (j # 1 => j - 1 \in DOMAIN M /\ M[j - 1] = L[j])
  BY <1>1, TailMoves
<1>5. /\ {1, 2} \subseteq DOMAIN M /\ M[1] = L[2] /\ M[2] = L[3]
  <2>1. 2 \in DOMAIN L /\ 3 \in DOMAIN L /\ 2 # 1 /\ 3 # 1
    BY <1>3
  <2>2. 2 - 1 \in DOMAIN M /\ M[2 - 1] = L[2]
    BY <2>1, <1>4
  <2>3. 3 - 1 \in DOMAIN M /\ M[3 - 1] = L[3]
    BY <2>1, <1>4
  <2>4. 2 - 1 = 1 /\ 3 - 1 = 2
    OBVIOUS
  <2> QED
    BY <2>2, <2>3, <2>4
<1>6. "complete" \notin Counting \cup Dumping
  BY DEF Counting, Dumping
<1>7. \A p \in Players : ~AtLimit(p)
  BY <1>1, <1>6, NobodyAtLimit DEF Tally
<1>8. /\ RunWins \in Nat /\ RunLosses \in Nat
  BY EventAssumption
<1>9. ASSUME NEW p \in Players
      PROVE  /\ {Wins(p), Losses(p), Wins(p)', Losses(p)'} \subseteq Nat
             /\ Wins(p)' <= Wins(p) + 1 /\ Losses(p)' <= Losses(p) + 1
             /\ (\A r \in rows : r.id = id => p \notin r.live) => Lower(p)
  BY <1>1, <1>2, ScoredOnce
<1>10. Within'
  BY <1>7, <1>8, <1>9 DEF Within, AtLimit
<1>11. ASSUME NEW p \in Players, AtLimit(p)' PROVE Settles(M, p)
  <2>1. p \in {M[1].who, M[2].who}
    <3>1. ASSUME p \notin {L[2].who, L[3].who} PROVE FALSE
      <4>1. \A r \in rows : r.id = id => p \notin r.live
        BY <1>3, <3>1 DEF Tally, Theirs
      <4>2. Lower(p)
        BY <4>1, <1>9
      <4> QED
        BY <4>2, <1>7, <1>8, <1>11 DEF Lower, AtLimit
    <3> QED
      BY <3>1, <1>5
  <2>2. /\ M[1].op \in Settlers /\ M[2].op \in Settlers /\ M[1].op \in Counting
    BY <1>3, <1>5 DEF Settlers, Counting
  <2>3. \A j \in DOMAIN M : ~(j < 1) /\ (j < 2 => j = 1)
    BY <1>4
  <2>4. CASE p = M[1].who
    BY <2>2, <2>3, <2>4, <1>5 DEF Settles
  <2>5. CASE p = M[2].who
    BY <2>2, <2>3, <2>5, <1>5 DEF Settles
  <2> QED
    BY <2>1, <2>4, <2>5
<1>12. ASSUME NEW s \in rows' PROVE \E r \in rows : s.live = r.live /\ s.pair = r.pair
                                                    /\ s.game = r.game
  <2>1. PICK r \in rows :
          s = IF r.id # id THEN r ELSE [r EXCEPT !.done = TRUE, !.winner = w]
    BY <1>1
  <2> QED
    BY <2>1, <1>2 DEF RowsOK, Row
<1>13. Theirs' /\ Kept' /\ GamesKept /\ ScoreInLimits'
  <2>1. Theirs'
    BY <1>12 DEF Theirs, Tally
  <2>2. Kept'
    BY <1>1, <1>12 DEF Kept, Tally
  <2>3. GamesKept
    BY <1>1, <1>2 DEF GamesKept, RowsOK
  <2>4. ScoreInLimits'
    BY <1>1, SameResults
  <2> QED
    BY <2>1, <2>2, <2>3, <2>4
<1>14. ASSUME NEW i \in DOMAIN M PROVE Counted(M, i)' /\ Dumped(M, i)'
  <2>1. i + 1 \in DOMAIN L /\ i + 1 # 1 /\ M[i] = L[i + 1]
    BY <1>4
  <2> QED
    BY <2>1, <1>1, <1>6, <1>13, WhatIsLeftStands DEF Tally
<1> QED
  BY <1>3, <1>4, <1>10, <1>11, <1>13, <1>14, TallyMoves

\* A run that is over is never found unfinished: nobody is at a limit then.
LEMMA OverdueTally ==
  ASSUME IInv, Alone, Tally, NEW th \in Threads, Overdue(th)
  PROVE  Tally'
<1>1. Do(th, "overdue") /\ UNCHANGED <<rows, games, results>>
  BY DEF Overdue, db, play, outcome
<1>2. (\A q \in Players : Lower(q)) /\ Theirs' /\ Kept' /\ GamesKept
  BY <1>1, SameTables
<1>3. "overdue" \notin Counting \cup Dumping
  BY DEF Counting, Dumping
<1>4. ~AtLimit(Now(th).who)
  <2>1. Now(th).who \in Players
    BY <1>1, Running DEF Fits, WhoOps
  <2> QED
    BY <2>1, <1>1, <1>3, NobodyAtLimit DEF Tally
<1>5. Then(th, <<>>)
  BY <1>4 DEF Overdue
<1> QED
  BY <1>1, <1>2, <1>3, <1>5, NothingMore, CalmTally

LEMMA RequestTally ==
  ASSUME Serial, IInv, Tally, Request
  PROVE  Tally'
<1>1. PICK th \in Threads : \E S : Taken(th, S)
  BY CalmRequests
<1>2. PICK S : Taken(th, S)
  BY <1>1
<1>3. /\ Calm(S) /\ todo' = [todo EXCEPT ![th] = S] /\ UNCHANGED <<rows, games, results>>
      /\ \A t \in Threads : todo[t] = <<>>
  BY <1>2 DEF Taken, Serial, AtRest, Idle, db, play, outcome
<1>4. (\A q \in Players : Lower(q)) /\ Theirs' /\ Kept' /\ ScoreInLimits'
  BY <1>3, SameTables, SameResults
<1>5. Within' /\ \A q \in Players : ~AtLimit(q)'
  BY <1>3, <1>4, LowerIsWithin, NobodyAtRest DEF Tally
<1>6. ASSUME NEW i \in DOMAIN S PROVE Counted(S, i)' /\ Dumped(S, i)'
  <2>1. S[i].op \notin {"record", "result", "complete", "insert", "discard", "erase"}
    BY <1>3 DEF Calm, Lacks, Dues, Weighty
  <2> QED
    BY <2>1 DEF Counted, Dumped, Dumping
<1> QED
  BY <1>3, <1>4, <1>5, <1>6, TallyMoves

LEMMA ThreadKeepsTally ==
  ASSUME IInv, IInv', Tables, InTurn, Tally, NEW th \in Threads, ThreadStep(th)
  PROVE  Tally'
<1>0. Alone
  BY DEF InTurn
<1>1. CASE SignupStep(th)
  BY <1>0, <1>1, PlainTally, CalmStatementsTally DEF SignupStep
<1>2. CASE MatchStep(th)
  BY <1>0, <1>2, PlainTally, CalmStatementsTally, SearchTally, CreateTally, InsertTally,
     DiscardTally, EraseTally DEF MatchStep
<1>3. CASE ResultStep(th)
  BY <1>0, <1>3, PlainTally, EndGameTally, GameEndedTally, ForfeitTally, ResultTally,
     CompleteTally DEF ResultStep
<1>4. CASE RetireStep(th)
  BY <1>0, <1>4, PlainTally, CalmStatementsTally, CheckLimitTally, FinalizeTally,
     RecordRunTally, ClearLiveTally, PurgeTally, OverdueTally DEF RetireStep
<1> QED
  BY <1>1, <1>2, <1>3, <1>4 DEF ThreadStep

LEMMA TallyKept ==
  ASSUME Serial, IInv, IInv', Tables, InTurn, Tally, restarts \in Nat, [Next]_vars
  PROVE  Tally'
<1>1. CASE Request
  BY <1>1, RequestTally
<1>2. CASE \E th \in Threads : ThreadStep(th)
  BY <1>2, ThreadKeepsTally
<1>3. CASE (\E g \in DOMAIN games : Age(g)) \/ UNCHANGED vars
  <2>1. UNCHANGED <<rows, games, todo, results>>
    BY <1>3 DEF Age, vars, db, play, outcome
  <2>2. Within' /\ Theirs' /\ Kept' /\ ScoreInLimits'
    BY <2>1, SameTables, SameResults, LowerIsWithin DEF Tally
  <2>3. Limited'
    <3>1. \A p \in Players : AtLimit(p)' => AtLimit(p)
      BY <2>1, SameTables, LowerIsWithin DEF Tally
    <3> QED
      BY <2>1, <3>1 DEF Tally, Limited, Settles
  <2>4. Counts'
    BY <2>1 DEF Tally, Counts, Counted, Dumped
  <2> QED
    BY <2>2, <2>3, <2>4 DEF Tally
<1>4. CASE RestartServer \/ RestartScheduler
  BY <1>4 DEF RestartServer, RestartScheduler, Serial
<1> QED
  BY <1>1, <1>2, <1>3, <1>4 DEF Next

LEMMA TallyBegins == Init => Tally
<1> SUFFICES ASSUME Init PROVE Tally
  OBVIOUS
<1>1. /\ todo = [th \in Threads |-> <<>>] /\ results = [p \in Players |-> <<>>] /\ rows = {}
  BY DEF Init
<1>2. DOMAIN <<>> = {}
  BY ShortLists, ListFacts
<1>3. \A p : Wins(p) = 0 /\ Losses(p) = 0
  BY <1>1, FS_EmptySet DEF Wins, Losses, CompletedRun
<1>4. Within /\ Limited
  BY <1>3, EventAssumption DEF Within, Limited, AtLimit
<1> QED
  BY <1>1, <1>2, <1>4 DEF Tally, Theirs, Kept, Counts, ScoreInLimits

LEMMA TallySettles ==
  ASSUME Tally
  PROVE  ScoreInLimits /\ DiscardNotCounted
BY DEF Tally, Kept, DiscardNotCounted

\* Where the requests are served one after the other and nothing restarts, a
\* run is on record once and within the limits, its rewards are those of the
\* runs that won, each sent once (db_tournament_finalize_player_run,
\* _email_tournament_rewards), and no match that was discarded for a new search
\* counts in a score.  The serial scene of MCCorinthEvent checks all four
\* (RunsAreSettled).
THEOREM RunsEndOnce ==
  ASSUME Serial
  PROVE  Spec => [](RunOnce /\ RewardPerRun /\ ScoreInLimits /\ DiscardNotCounted)
<1>1. Init => IInv /\ restarts \in Nat /\ Tables /\ InTurn /\ Tally
  BY StartHolds, TablesStart, TurnsBegin, TallyBegins
<1>2. IInv /\ restarts \in Nat /\ Tables /\ InTurn /\ Tally /\ [Next]_vars
        => (IInv /\ restarts \in Nat /\ Tables /\ InTurn /\ Tally)'
  <2> SUFFICES ASSUME IInv, restarts \in Nat, Tables, InTurn, Tally, [Next]_vars
               PROVE  (IInv /\ restarts \in Nat /\ Tables /\ InTurn /\ Tally)'
    OBVIOUS
  <2>1. IInv' /\ (restarts \in Nat)' /\ Tables' /\ InTurn'
    BY StepKeeps, TablesKept, TurnsKept
  <2>2. Tally'
    BY <2>1, TallyKept
  <2> QED
    BY <2>1, <2>2
<1>3. Tables /\ InTurn /\ Tally
        => RunOnce /\ RewardPerRun /\ ScoreInLimits /\ DiscardNotCounted
  BY TurnsSettle, TallySettles
<1> QED
  BY <1>1, <1>2, <1>3, PTL DEF Spec
=============================================================================
