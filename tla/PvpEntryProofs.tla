---------------------------- MODULE PvpEntryProofs ----------------------------
(***************************************************************************)
(* The way into a game between two players: how they are brought together, *)
(* and how their game opens.  The two parts share no variable.             *)
(*                                                                         *)
(* Matchmaking, for any users, connections, ladders and challenges, peers  *)
(* that vanish included: two searchers never wait for each other, a        *)
(* challenge is taken once, and an accepted one is played by whoever is    *)
(* still there.  And, where no peer vanishes, that whoever was paired was  *)
(* told.                                                                   *)
(*                                                                         *)
(* The opening: whatever the two clients send and however their threads    *)
(* interleave, the native scheduler is not started before both hands are   *)
(* accepted.  The checkpoints may be rolled back, but every copy of one    *)
(* that exists -- in the row, in the port, in a wrapper -- records only    *)
(* accepted keeps.  For clients that wait for the green light and send     *)
(* other requests only in the first turn, more: the opening goes through   *)
(* the pick, the mulligan and the first turn in order, and in each of them *)
(* the row, the threads, the dialogs and the port agree (Orderly).         *)
(***************************************************************************)
EXTENDS Matchmaking, PvpOpening, FiniteSetTheorems, SequenceTheorems, TLAPS

-------------------------------------------------------------------------------
\* Matchmaking.

Challenges == [from : Conns, to : Users]
Verdicts == {"accepted", "declined"}
Jobs == [do : {"push", "reply", "notify", "create", "join"}, match : Matches]
Messages == {"found", "sent", "failed", "session", "accepted", "declined"} \X Matches

TablesOK ==
    /\ queue \in [Ladders -> Seq(Conns)]
    /\ asked \in [Matches -> Challenges \cup {NoChallenge}]
    /\ pending \in [Matches -> Challenges \cup {NoChallenge}]
    /\ \A m \in Matches : pending[m] \in {NoChallenge, asked[m]}
    /\ sessions \subseteq {m \in Matches : asked[m] # NoChallenge}
    /\ answers \in [Matches -> Seq(Verdicts)]
    /\ heard \in [Conns -> SUBSET Messages]
    /\ searches \in 0 .. MaxSearches

\* What a thread has left is about a challenge that was made.
JobsOK ==
    /\ job \in [Conns -> Jobs \cup {NoJob}]
    /\ \A c \in Conns : job[c] # NoJob => Served(c) /\ asked[job[c].match] # NoChallenge

\* A challenge is answered by taking it out of the table, and what is accepted
\* stays so.
AnswersOK ==
    /\ \A m \in Matches : asked[m] = NoChallenge => answers[m] = <<>>
    /\ \A m \in Matches : pending[m] # NoChallenge => answers[m] = <<>>
    /\ TakenOnce
    /\ \A c \in Conns : job[c] # NoJob /\ job[c].do \in {"create", "join"}
                           => "accepted" \in Range(answers[job[c].match])

\* The thread that accepted has heard of the session, or has it still to make.
WillHear(c, m) ==
    \/ job[c] # NoJob /\ job[c].do \in {"create", "join"} /\ job[c].match = m
    \/ <<"session", m>> \in heard[c]

\* A connection that took part was made, and what its client heard it keeps.
EarsOK ==
    /\ \A c \in Conns : sock[c] = "off" => heard[c] = {}
    /\ \A m \in Matches : asked[m] # NoChallenge => sock[asked[m].from] # "off"
    /\ \A m \in sessions : sock[asked[m].from] = "up"
                              => <<"session", m>> \in heard[asked[m].from]
    /\ \A c \in Conns, m \in Matches :
          sock[c] = "up" /\ <<"accepted", m>> \in heard[c] => WillHear(c, m)

IInv == ClientsTypeOK /\ TablesOK /\ OneWaits /\ JobsOK /\ AnswersOK /\ EarsOK

----------------------------------------------------------------------------
(* The queues. *)

LEMMA ChallengeIsOne == \A ch \in Challenges : ch # NoChallenge
<1> SUFFICES ASSUME NEW ch \in Challenges PROVE ch # NoChallenge
  OBVIOUS
<1>1. "to" \in DOMAIN ch /\ "to" \notin DOMAIN NoChallenge
  BY DEF Challenges, NoChallenge
<1> QED BY <1>1

LEMMA JobIsOne == \A j \in Jobs : j # NoJob
<1> SUFFICES ASSUME NEW j \in Jobs PROVE j # NoJob
  OBVIOUS
<1>1. "match" \in DOMAIN j /\ "match" \notin DOMAIN NoJob
  BY DEF Jobs, NoJob
<1> QED BY <1>1

LEMMA FunctionIsSeq ==
    ASSUME NEW S, NEW n \in Nat, NEW f \in [1 .. n -> S]
    PROVE  f \in Seq(S) /\ Len(f) = n
  OBVIOUS

\* What a cancellation leaves of a queue of one.
LEMMA WithoutUserOfOne ==
    ASSUME NEW q \in Seq(Conns), Len(q) <= 1, NEW u
    PROVE  WithoutUser(q, u) \in Seq(Conns) /\ Len(WithoutUser(q, u)) <= 1
<1> DEFINE kept == {i \in DOMAIN q : UserOf[q[i]] # u}
           rank(i) == Cardinality({j \in kept : j <= i})
           n == Cardinality(kept)
           s == [k \in 1 .. n |-> q[CHOOSE i \in kept : rank(i) = k]]
<1>0. WithoutUser(q, u) = s
  BY DEF WithoutUser
<1>1. DOMAIN q \subseteq {1} /\ \A i \in DOMAIN q : q[i] \in Conns
  OBVIOUS
<1>2. CASE kept = {}
  <2>1. n = 0
    BY <1>2, FS_EmptySet
  <2> HIDE DEF n
  <2>2. s \in [1 .. 0 -> Conns]
    BY <2>1
  <2> HIDE DEF s
  <2> QED BY <1>0, <2>2, FunctionIsSeq
<1>3. CASE kept = {1}
  <2>1. n = 1
    BY <1>3, FS_Singleton
  <2>2. {j \in kept : j <= 1} = {1}
    BY <1>3
  <2>3. rank(1) = 1
    BY <2>2, FS_Singleton
  <2>4. (CHOOSE i \in kept : rank(i) = 1) = 1
    BY <1>3, <2>3
  <2>5. q[1] \in Conns
    BY <1>1, <1>3
  <2> DEFINE at(k) == q[CHOOSE i \in kept : rank(i) = k]
  <2>6. at(1) = q[1] /\ s = [k \in 1 .. n |-> at(k)]
    BY <2>4
  <2> HIDE DEF at, s, kept, n
  <2>7. s \in [1 .. n -> Conns] /\ n \in Nat /\ n <= 1
    BY <2>1, <2>5, <2>6
  <2> QED BY <1>0, <2>7, FunctionIsSeq
<1>4. kept = {} \/ kept = {1}
  BY <1>1
<1> QED BY <1>2, <1>3, <1>4

----------------------------------------------------------------------------
(* Connections. *)

\* A connection is opened once, and may vanish or be closed after that.
SocksMove ==
    \A c \in Conns : \/ sock'[c] = sock[c]
                     \/ sock[c] = "off" /\ sock'[c] = "up"
                     \/ Served(c) /\ sock'[c] \in {"gone", "closed"}

\* What is told of a connection's thread as the connection moves on.
SockStep(c) == (UNCHANGED clientVars) \/ Gone(c)

LEMMA SockStepMoves ==
    ASSUME ClientsTypeOK, NEW c \in Conns, Served(c), SockStep(c)
    PROVE  /\ ClientsTypeOK' /\ SocksMove
           /\ \A d \in Conns : d # c \/ (UNCHANGED clientVars) => sock'[d] = sock[d]
<1>1. CASE UNCHANGED clientVars
  BY <1>1 DEF clientVars, ClientsTypeOK, SocksMove
<1>2. CASE Gone(c)
  BY <1>2 DEF Gone, ClientsTypeOK, SocksMove, clientVars
<1> QED BY <1>1, <1>2 DEF SockStep

\* Steps that leave the challenges alone keep what is known of them, as long as
\* no connection with a job is closed.
LEMMA SameChallenges ==
    ASSUME IInv, UNCHANGED challengeVars, ClientsTypeOK', SocksMove,
           \A c \in Conns : job[c] # NoJob => sock'[c] # "closed"
    PROVE  JobsOK' /\ AnswersOK' /\ EarsOK'
<1> USE DEF challengeVars
<1>1. JobsOK'
  BY DEF IInv, JobsOK, Served, SocksMove, ClientsTypeOK
<1>2. AnswersOK'
  <2>1. UNCHANGED <<asked, pending, answers, job, sessions>>
    OBVIOUS
  <2> QED BY <2>1 DEF IInv, AnswersOK, TakenOnce
<1>3. \A c \in Conns : sock'[c] = "off" => heard'[c] = {}
  BY DEF IInv, EarsOK, SocksMove
<1>4. \A m \in Matches : asked'[m] # NoChallenge => sock'[asked'[m].from] # "off"
  <2> SUFFICES ASSUME NEW m \in Matches, asked[m] # NoChallenge
               PROVE  sock'[asked[m].from] # "off"
    OBVIOUS
  <2>1. asked[m].from \in Conns
    BY DEF IInv, TablesOK, Challenges
  <2> QED BY <2>1 DEF IInv, EarsOK, SocksMove
<1>5. \A m \in sessions' : sock'[asked'[m].from] = "up"
                              => <<"session", m>> \in heard'[asked'[m].from]
  <2> SUFFICES ASSUME NEW m \in sessions, sock'[asked[m].from] = "up"
               PROVE  <<"session", m>> \in heard[asked[m].from]
    OBVIOUS
  <2>1. m \in Matches /\ asked[m] # NoChallenge /\ asked[m].from \in Conns
    BY DEF IInv, TablesOK, Challenges
  <2> QED BY <2>1 DEF IInv, EarsOK, SocksMove
<1>6. \A c \in Conns, m \in Matches :
          sock'[c] = "up" /\ <<"accepted", m>> \in heard'[c] => WillHear(c, m)'
  BY DEF IInv, EarsOK, WillHear, SocksMove
<1> QED BY <1>1, <1>2, <1>3, <1>4, <1>5, <1>6 DEF EarsOK

LEMMA ConnectionsKeepAll ==
    ASSUME IInv, NEW c \in Conns, Login(c) \/ Drop(c) \/ Hangup(c)
    PROVE  IInv'
<1>1. UNCHANGED <<ladderVars, challengeVars>>
  BY DEF Login, Drop, Hangup
<1>2. ClientsTypeOK' /\ SocksMove
  BY ClientsAssumption
     DEF Login, Enter, Drop, PeerGone, Hangup, Gone, Free, Served, IInv, ClientsTypeOK, SocksMove
<1>3. \A d \in Conns : job[d] # NoJob => sock'[d] # "closed"
  <2>1. \A d \in Conns : sock'[d] = "closed" => sock[d] = "closed" \/ (d = c /\ Hangup(c))
    BY DEF Login, Enter, Drop, PeerGone, Hangup, Gone, IInv, ClientsTypeOK
  <2> QED BY <2>1 DEF IInv, JobsOK, Served, Hangup, Free
<1>4. JobsOK' /\ AnswersOK' /\ EarsOK'
  BY <1>1, <1>2, <1>3, SameChallenges
<1>5. TablesOK' /\ OneWaits'
  BY <1>1 DEF IInv, TablesOK, OneWaits, ladderVars, challengeVars
<1> QED BY <1>2, <1>4, <1>5 DEF IInv

----------------------------------------------------------------------------
(* The queues. *)

\* A search that leaves one queue with one entry at most keeps them all so.
LEMMA SearchKeepsAll ==
    ASSUME IInv, NEW c \in Conns, NEW l \in Ladders, Search(c), UNCHANGED challengeVars,
           SockStep(c), NEW q \in Seq(Conns), Len(q) <= 1, queue' = [queue EXCEPT ![l] = q]
    PROVE  IInv'
<1>1. Served(c) /\ job[c] = NoJob /\ searches' \in 0 .. MaxSearches
  BY MatchmakingAssumption DEF Search, Free, IInv, TablesOK
<1>2. ClientsTypeOK' /\ SocksMove
  BY <1>1, SockStepMoves DEF IInv
<1>3. \A d \in Conns : job[d] # NoJob => sock'[d] # "closed"
  BY <1>1, SockStepMoves DEF IInv, JobsOK, Served
<1>4. JobsOK' /\ AnswersOK' /\ EarsOK'
  BY <1>2, <1>3, SameChallenges
<1>5. TablesOK'
  BY <1>1 DEF IInv, TablesOK, challengeVars
<1>6. OneWaits'
  BY DEF IInv, TablesOK, OneWaits
<1> QED BY <1>2, <1>4, <1>5, <1>6 DEF IInv

LEMMA LadderKeepsAll ==
    ASSUME IInv, NEW c \in Conns, LadderStep(c)
    PROVE  IInv'
<1> USE DEF SockStep
<1>1. \A l \in Ladders : queue[l] \in Seq(Conns) /\ Len(queue[l]) <= 1
  BY DEF IInv, TablesOK, OneWaits
<1>2. ASSUME NEW l \in Ladders, CancelSearch(c, l) PROVE IInv'
  <2> DEFINE q == WithoutUser(queue[l], UserOf[c])
  <2>1. q \in Seq(Conns) /\ Len(q) <= 1
    BY <1>1, WithoutUserOfOne
  <2>2. /\ queue' = [queue EXCEPT ![l] = q] /\ Search(c)
        /\ SockStep(c) /\ UNCHANGED challengeVars
    BY <1>2 DEF CancelSearch
  <2> HIDE DEF q, SockStep
  <2> QED BY <2>1, <2>2, SearchKeepsAll
<1>3. ASSUME NEW l \in Ladders, JoinQueue(c, l) PROVE IInv'
  <2>1. <<c>> \in Seq(Conns) /\ Len(<<c>>) <= 1 /\ queue' = [queue EXCEPT ![l] = <<c>>]
    BY <1>3 DEF JoinQueue, Waits
  <2> HIDE DEF SockStep
  <2>2. Search(c) /\ SockStep(c) /\ UNCHANGED challengeVars
    BY <1>3 DEF JoinQueue, SockStep
  <2> QED BY <2>1, <2>2, SearchKeepsAll
<1>4. ASSUME NEW l \in Ladders, Pair(c, l) PROVE IInv'
  <2> DEFINE q == Tail(queue[l])
  <2>1. q \in Seq(Conns) /\ Len(q) <= 1
    BY <1>1, <1>4 DEF Pair
  <2>2. /\ queue' = [queue EXCEPT ![l] = q] /\ Search(c)
        /\ SockStep(c) /\ UNCHANGED challengeVars
    BY <1>4 DEF Pair
  <2> HIDE DEF q, SockStep
  <2> QED BY <2>1, <2>2, SearchKeepsAll
<1> QED BY <1>2, <1>3, <1>4 DEF LadderStep

----------------------------------------------------------------------------
(* The challenges.  A step of one connection's thread changes what it has    *)
(* left to do, at most one challenge, and adds to what some clients heard.   *)

\* What a client heard it keeps, and one that never connected heard nothing.
MoreHeard ==
    /\ heard' \in [Conns -> SUBSET Messages]
    /\ \A c \in Conns : heard[c] \subseteq heard'[c] /\ (heard'[c] # heard[c] => sock[c] = "up")

LEMMA HearsMore ==
    ASSUME TablesOK, NEW d \in Conns, NEW msg \in Messages, Hears(d, msg)
    PROVE  /\ MoreHeard
           /\ sock[d] = "up" => msg \in heard'[d]
           /\ \A e \in Conns, n \in Messages : n \in heard'[e] => n \in heard[e] \/ (n = msg /\ e = d)
  BY DEF TablesOK, Hears, MoreHeard

LEMMA AllHearMore ==
    ASSUME TablesOK, NEW u \in Users, NEW msg \in Messages, HearAll(u, msg)
    PROVE  /\ MoreHeard
           /\ \A e \in Conns, n \in Messages : n \in heard'[e] => n \in heard[e] \/ n = msg
  BY DEF TablesOK, HearAll, MoreHeard

LEMMA SameHeard ==
    ASSUME TablesOK, UNCHANGED heard
    PROVE  MoreHeard
  BY DEF TablesOK, MoreHeard

\* What a thread's step leaves of the ears, given what it does to what was
\* known of the sessions and of what was accepted.
LEMMA EarsStay ==
    ASSUME IInv, ClientsTypeOK', SocksMove, MoreHeard,
           \A m \in Matches : asked'[m] = asked[m] \/ Served(asked'[m].from),
           asked' \in [Matches -> Challenges \cup {NoChallenge}],
           \A m \in sessions : asked'[m] = asked[m],
           \A m \in sessions' \ sessions : m \in Matches /\ asked'[m].from \in Conns
               /\ (sock'[asked'[m].from] = "up" => <<"session", m>> \in heard'[asked'[m].from]),
           \A d \in Conns, m \in Matches :
               sock'[d] = "up" /\ <<"accepted", m>> \in heard'[d]
                   => WillHear(d, m)' \/ (<<"accepted", m>> \in heard[d] /\ job'[d] = job[d])
    PROVE  EarsOK'
<1>1. \A d \in Conns : sock'[d] = "off" => heard'[d] = {}
  BY DEF IInv, EarsOK, SocksMove, MoreHeard, Served
<1>2. \A m \in Matches : asked'[m] # NoChallenge => sock'[asked'[m].from] # "off"
  <2> SUFFICES ASSUME NEW m \in Matches, asked'[m] # NoChallenge
               PROVE  sock'[asked'[m].from] # "off"
    OBVIOUS
  <2>1. asked'[m].from \in Conns /\ sock[asked'[m].from] # "off"
    BY DEF Challenges, IInv, EarsOK, Served
  <2> QED BY <2>1 DEF SocksMove
<1>3. \A m \in sessions' : sock'[asked'[m].from] = "up"
                              => <<"session", m>> \in heard'[asked'[m].from]
  <2> SUFFICES ASSUME NEW m \in sessions, sock'[asked[m].from] = "up"
               PROVE  <<"session", m>> \in heard'[asked[m].from]
    OBVIOUS
  <2>1. m \in Matches /\ asked[m] # NoChallenge /\ asked[m].from \in Conns
    BY DEF IInv, TablesOK, Challenges
  <2>2. sock[asked[m].from] = "up"
    BY <2>1 DEF IInv, EarsOK, SocksMove
  <2> QED BY <2>1, <2>2 DEF IInv, EarsOK, MoreHeard
<1>4. ASSUME NEW d \in Conns, NEW m \in Matches, sock'[d] = "up",
             <<"accepted", m>> \in heard'[d]
      PROVE  WillHear(d, m)'
  <2>1. CASE <<"accepted", m>> \in heard[d] /\ job'[d] = job[d]
    <3>1. sock[d] = "up"
      BY <1>4, <2>1 DEF IInv, EarsOK, SocksMove
    <3> QED BY <2>1, <3>1 DEF IInv, EarsOK, WillHear, MoreHeard
  <2> QED BY <1>4, <2>1
<1> QED BY <1>1, <1>2, <1>3, <1>4 DEF EarsOK
\* The next thing a thread has to do.
LEMMA JobStep ==
    ASSUME IInv, ClientsTypeOK', NEW c \in Conns, NEW j \in Jobs \cup {NoJob},
           job' = [job EXCEPT ![c] = j], Served(c), SockStep(c),
           j # NoJob => (UNCHANGED sock) /\ asked'[j.match] # NoChallenge,
           \A m \in Matches : asked[m] # NoChallenge => asked'[m] # NoChallenge
    PROVE  JobsOK'
<1>1. \A d \in Conns : d # c => sock'[d] = sock[d] /\ job'[d] = job[d]
  BY SockStepMoves DEF IInv, JobsOK
<1>2. \A d \in Conns : job[d] # NoJob => job[d].match \in Matches
  BY DEF IInv, JobsOK, Jobs
<1>3. job' \in [Conns -> Jobs \cup {NoJob}] /\ job'[c] = j
  BY DEF IInv, JobsOK
<1>4. ASSUME NEW d \in Conns, job'[d] # NoJob
      PROVE  Served(d)' /\ asked'[job'[d].match] # NoChallenge
  BY <1>1, <1>2, <1>3, <1>4 DEF IInv, JobsOK, Served
<1> QED BY <1>3, <1>4 DEF JobsOK

LEMMA SameLadders ==
    ASSUME OneWaits, UNCHANGED ladderVars
    PROVE  OneWaits'
  BY DEF OneWaits, ladderVars

\* A thread's step about a challenge that leaves challenges, answers and
\* sessions alone.
LEMMA TalkKeepsAll ==
    ASSUME IInv, NEW c \in Conns, Served(c), SockStep(c), MoreHeard,
           UNCHANGED <<ladderVars, pending, asked, sessions, answers>>,
           NEW j \in Jobs \cup {NoJob}, job' = [job EXCEPT ![c] = j],
           j # NoJob => /\ UNCHANGED sock
                        /\ asked[j.match] # NoChallenge
                        /\ j.do \notin {"create", "join"},
           \A m \in Matches : <<"accepted", m>> \in heard'[c] => WillHear(c, m)' \/ sock'[c] # "up",
           \A d \in Conns, m \in Matches :
               d # c /\ <<"accepted", m>> \in heard'[d] => <<"accepted", m>> \in heard[d]
    PROVE  IInv'
<1>1. ClientsTypeOK' /\ SocksMove
  BY SockStepMoves DEF IInv
<1>2. JobsOK'
  BY <1>1, JobStep
<1>3. \A d \in Conns : d # c => job'[d] = job[d]
  BY DEF IInv, JobsOK
<1>4. job'[c] = j
  BY DEF IInv, JobsOK
<1>5. AnswersOK'
  BY <1>3, <1>4 DEF IInv, AnswersOK, TakenOnce
<1>6. EarsOK'
  <2>1. asked \in [Matches -> Challenges \cup {NoChallenge}]
    BY DEF IInv, TablesOK
  <2>2. \A d \in Conns, m \in Matches :
           sock'[d] = "up" /\ <<"accepted", m>> \in heard'[d]
             => WillHear(d, m)' \/ (<<"accepted", m>> \in heard[d] /\ job'[d] = job[d])
    BY <1>3
  <2> QED BY <1>1, <2>1, <2>2, EarsStay
<1>7. TablesOK'
  BY DEF IInv, TablesOK, MoreHeard, ladderVars
<1> QED BY <1>1, <1>2, <1>5, <1>6, <1>7, SameLadders DEF IInv

LEMMA ChallengeKeepsAll ==
    ASSUME IInv, NEW c \in Conns, NEW u \in Users, NEW m \in Matches, Challenge(c, u, m)
    PROVE  IInv'
<1> DEFINE ch == [from |-> c, to |-> u]
           j == [do |-> "push", match |-> m]
<1>1. ch \in Challenges /\ ch # NoChallenge /\ j \in Jobs
  BY ChallengeIsOne DEF Challenges, Jobs
<1> HIDE DEF ch, j
<1>2. /\ Served(c) /\ job[c] = NoJob /\ asked[m] = NoChallenge
      /\ asked' = [asked EXCEPT ![m] = ch] /\ pending' = [pending EXCEPT ![m] = ch]
      /\ job' = [job EXCEPT ![c] = j] /\ j.match = m /\ j.do = "push" /\ ch.from = c
      /\ UNCHANGED <<clientVars, ladderVars, sessions, answers, heard>>
  BY DEF Challenge, Free, ch, j
<1>3. TablesOK /\ OneWaits
  BY DEF IInv
<1>4. SockStep(c) /\ ClientsTypeOK' /\ SocksMove /\ UNCHANGED sock
  BY <1>2, SockStepMoves DEF SockStep, IInv, clientVars
<1>5. asked' \in [Matches -> Challenges \cup {NoChallenge}] /\ asked'[m] = ch
      /\ \A n \in Matches \ {m} : asked'[n] = asked[n]
  BY <1>1, <1>2, <1>3 DEF TablesOK
<1>6. m \notin sessions /\ \A n \in sessions : n \in Matches \ {m}
  BY <1>2, <1>3 DEF TablesOK
<1>7. \A d \in Conns : d # c => job'[d] = job[d]
  BY <1>2 DEF IInv, JobsOK
<1>8. job'[c] = j
  BY <1>2 DEF IInv, JobsOK
<1>9. TablesOK'
  BY <1>1, <1>2, <1>3, <1>5, <1>6 DEF TablesOK, ladderVars
<1>10. JobsOK'
  BY <1>1, <1>2, <1>4, <1>5, JobStep
<1>11. AnswersOK'
  <2>1. answers[m] = <<>> /\ \A n \in Matches \ {m} : pending'[n] = pending[n]
    BY <1>2, <1>3 DEF IInv, AnswersOK, TablesOK
  <2>2. \A d \in Conns : job'[d] # NoJob /\ job'[d].do \in {"create", "join"}
                           => "accepted" \in Range(answers[job'[d].match])
    BY <1>2, <1>7, <1>8 DEF IInv, AnswersOK
  <2>3. TakenOnce'
    BY <1>2 DEF IInv, AnswersOK, TakenOnce
  <2> QED BY <1>2, <1>5, <2>1, <2>2, <2>3 DEF IInv, AnswersOK
<1>12. EarsOK'
  <2>1. MoreHeard
    BY <1>2, <1>3, SameHeard
  <2>2. \A d \in Conns, n \in Matches :
           sock'[d] = "up" /\ <<"accepted", n>> \in heard'[d]
             => WillHear(d, n)' \/ (<<"accepted", n>> \in heard[d] /\ job'[d] = job[d])
    <3>1. ASSUME NEW n \in Matches, sock[c] = "up", <<"accepted", n>> \in heard[c]
          PROVE  <<"session", n>> \in heard[c]
      BY <1>2, <3>1 DEF IInv, EarsOK, WillHear
    <3> QED BY <1>2, <1>4, <1>7, <3>1 DEF WillHear
  <2>3. \A n \in Matches : asked'[n] = asked[n] \/ Served(asked'[n].from)
    BY <1>2, <1>5
  <2> QED BY <1>2, <1>4, <1>5, <1>6, <2>1, <2>2, <2>3, EarsStay
<1> QED BY <1>3, <1>2, <1>4, <1>9, <1>10, <1>11, <1>12, SameLadders DEF IInv
LEMMA MessagesAre ==
    \A kind \in {"found", "sent", "failed", "session", "accepted", "declined"}, m \in Matches :
        <<kind, m>> \in Messages
  BY DEF Messages

\* A thread with nothing left to do that heard of an acceptance of its own
\* heard of the session.
LEMMA IdleHasHeard ==
    ASSUME IInv, NEW c \in Conns, sock[c] = "up", NEW m \in Matches,
           <<"accepted", m>> \in heard[c],
           job[c] = NoJob \/ job[c].do \notin {"create", "join"}
    PROVE  <<"session", m>> \in heard[c]
  BY DEF IInv, EarsOK, WillHear

\* Steps that tell somebody something that is not an acceptance.
LEMMA TellKeepsAll ==
    ASSUME IInv, NEW c \in Conns, Served(c), SockStep(c), MoreHeard,
           job[c] = NoJob \/ job[c].do \notin {"create", "join"},
           UNCHANGED <<ladderVars, pending, asked, sessions, answers>>,
           NEW j \in Jobs \cup {NoJob}, job' = [job EXCEPT ![c] = j],
           j # NoJob => /\ UNCHANGED sock
                        /\ asked[j.match] # NoChallenge
                        /\ j.do \notin {"create", "join"},
           \A d \in Conns, m \in Matches :
               <<"accepted", m>> \in heard'[d] => <<"accepted", m>> \in heard[d]
    PROVE  IInv'
<1>1. ASSUME NEW m \in Matches, <<"accepted", m>> \in heard'[c], sock'[c] = "up"
      PROVE  WillHear(c, m)'
  <2>1. SocksMove
    BY SockStepMoves DEF IInv
  <2>2. sock[c] = "up"
    BY <1>1, <2>1 DEF SocksMove, Served
  <2>3. <<"session", m>> \in heard[c]
    BY <1>1, <2>2, IdleHasHeard
  <2> QED BY <2>3 DEF WillHear, MoreHeard
<1> QED BY <1>1, TalkKeepsAll

LEMMA PushKeepsAll ==
    ASSUME IInv, NEW c \in Conns,
           job[c] # NoJob, PushChallenge(c) \/ ReplyChallenge(c) \/ NotifyChallenger(c)
    PROVE  IInv'
<1> DEFINE m == job[c].match
<1>1. /\ TablesOK /\ Served(c) /\ m \in Matches /\ asked[m] # NoChallenge
      /\ asked[m] \in Challenges /\ job[c].do \notin {"create", "join"}
  BY DEF IInv, JobsOK, Jobs, TablesOK, PushChallenge, ReplyChallenge, NotifyChallenger
<1>2. NoJob \in Jobs \cup {NoJob}
  OBVIOUS
<1>3. UNCHANGED <<ladderVars, pending, asked, sessions, answers>>
  BY DEF PushChallenge, ReplyChallenge, NotifyChallenger
<1>4. CASE PushChallenge(c)
  <2> DEFINE j == [do |-> "reply", match |-> m]
  <2>1. j \in Jobs /\ j.match = m /\ j.do = "reply"
    BY <1>1 DEF Jobs
  <2>2. job' = [job EXCEPT ![c] = j] /\ HearAll(asked[m].to, <<"found", m>>) /\ UNCHANGED clientVars
    BY <1>4 DEF PushChallenge
  <2>3. asked[m].to \in Users /\ <<"found", m>> \in Messages
    BY <1>1, MessagesAre DEF Challenges
  <2>4. /\ MoreHeard
        /\ \A d \in Conns, n \in Matches :
              <<"accepted", n>> \in heard'[d] => <<"accepted", n>> \in heard[d]
    BY <1>1, <2>2, <2>3, AllHearMore, MessagesAre
  <2> HIDE DEF j, m
  <2> QED BY <1>1, <1>3, <2>1, <2>2, <2>4, TellKeepsAll DEF SockStep, clientVars
<1>5. CASE ReplyChallenge(c)
  <2>1. job' = [job EXCEPT ![c] = NoJob] /\ SockStep(c)
        /\ (Hears(c, <<"sent", m>>) \/ UNCHANGED heard)
    BY <1>5 DEF ReplyChallenge, SockStep
  <2>2. /\ MoreHeard
        /\ \A d \in Conns, n \in Matches :
              <<"accepted", n>> \in heard'[d] => <<"accepted", n>> \in heard[d]
    BY <1>1, <2>1, HearsMore, SameHeard, MessagesAre
  <2> QED BY <1>1, <1>2, <1>3, <2>1, <2>2, TellKeepsAll
<1>6. CASE NotifyChallenger(c)
  <2>1. job' = [job EXCEPT ![c] = NoJob] /\ SockStep(c) /\ Hears(asked[m].from, <<"declined", m>>)
    BY <1>6 DEF NotifyChallenger, SockStep
  <2>2. asked[m].from \in Conns
    BY <1>1 DEF Challenges
  <2>3. /\ MoreHeard
        /\ \A d \in Conns, n \in Matches :
              <<"accepted", n>> \in heard'[d] => <<"accepted", n>> \in heard[d]
    BY <1>1, <2>1, <2>2, HearsMore, MessagesAre
  <2> QED BY <1>1, <1>2, <1>3, <2>1, <2>3, TellKeepsAll
<1> QED BY <1>4, <1>5, <1>6

LEMMA FailedKeepsAll ==
    ASSUME IInv, NEW c \in Conns, NEW m \in Matches, AnswerFailed(c, m)
    PROVE  IInv'
<1>1. /\ TablesOK /\ Served(c) /\ job[c] = NoJob /\ SockStep(c)
      /\ (Hears(c, <<"failed", m>>) \/ UNCHANGED heard)
      /\ UNCHANGED <<ladderVars, pending, asked, sessions, answers>>
  BY DEF AnswerFailed, Free, SockStep, IInv
<1>2. job' = [job EXCEPT ![c] = NoJob] /\ NoJob \in Jobs \cup {NoJob}
  BY <1>1 DEF AnswerFailed, IInv, JobsOK
<1>3. /\ MoreHeard
      /\ \A d \in Conns, n \in Matches :
            <<"accepted", n>> \in heard'[d] => <<"accepted", n>> \in heard[d]
  BY <1>1, HearsMore, SameHeard, MessagesAre
<1> QED BY <1>1, <1>2, <1>3, TellKeepsAll
\* An answer that takes a challenge, and is or is not given.
LEMMA TakeKeepsAnswers ==
    ASSUME IInv, NEW c \in Conns, NEW m \in Matches, TakeChallenge(c, m),
           NEW j \in Jobs \cup {NoJob}, job' = [job EXCEPT ![c] = j],
           NEW status \in Verdicts,
           answers' = [answers EXCEPT ![m] = Append(@, status)] \/ UNCHANGED answers,
           j # NoJob /\ j.do \in {"create", "join"} => "accepted" \in Range(answers'[j.match]),
           UNCHANGED sessions
    PROVE  TablesOK /\ AnswersOK' /\ answers' \in [Matches -> Seq(Verdicts)]
           /\ pending' \in [Matches -> Challenges \cup {NoChallenge}]
           /\ \A n \in Matches : pending'[n] \in {NoChallenge, asked'[n]}
<1>1. TablesOK /\ asked[m] # NoChallenge /\ answers[m] = <<>>
      /\ pending' = [pending EXCEPT ![m] = NoChallenge] /\ UNCHANGED asked
  BY DEF IInv, TablesOK, AnswersOK, TakeChallenge, Taken
<1>2. /\ \A n \in Matches \ {m} : answers'[n] = answers[n] /\ pending'[n] = pending[n]
      /\ pending'[m] = NoChallenge
      /\ answers'[m] \in {<<>>, <<status>>}
  BY <1>1 DEF TablesOK
<1>3. answers' \in [Matches -> Seq(Verdicts)]
  <2>1. Append(answers[m], status) \in Seq(Verdicts)
    BY <1>1 DEF TablesOK
  <2> QED BY <1>1, <2>1 DEF TablesOK
<1>4. /\ pending' \in [Matches -> Challenges \cup {NoChallenge}]
      /\ \A n \in Matches : pending'[n] \in {NoChallenge, asked'[n]}
  BY <1>1, <1>2 DEF TablesOK
<1>5. TakenOnce'
  <2>1. m \notin sessions
    BY <1>1 DEF IInv, AnswersOK, TakenOnce, Range
  <2>2. Len(<<>>) <= 1 /\ Len(<<status>>) <= 1
    OBVIOUS
  <2> QED BY <1>2, <2>1, <2>2 DEF IInv, AnswersOK, TakenOnce
<1>6. \A d \in Conns : job'[d] # NoJob /\ job'[d].do \in {"create", "join"}
                           => "accepted" \in Range(answers'[job'[d].match])
  <2>1. job'[c] = j /\ \A d \in Conns : d # c => job'[d] = job[d]
    BY DEF IInv, JobsOK
  <2>2. ASSUME NEW d \in Conns, d # c, job[d] # NoJob, job[d].do \in {"create", "join"}
        PROVE  "accepted" \in Range(answers'[job[d].match])
    <3>1. "accepted" \in Range(answers[job[d].match]) /\ job[d].match \in Matches
      BY <2>2 DEF IInv, AnswersOK, JobsOK, Jobs
    <3>2. job[d].match # m
      BY <1>1, <3>1 DEF Range
    <3> QED BY <1>2, <3>1, <3>2
  <2> QED BY <2>1, <2>2
<1>7. \A n \in Matches : (asked'[n] = NoChallenge => answers'[n] = <<>>)
                         /\ (pending'[n] # NoChallenge => answers'[n] = <<>>)
  BY <1>1, <1>2 DEF IInv, AnswersOK
<1> QED BY <1>1, <1>3, <1>4, <1>5, <1>6, <1>7 DEF AnswersOK

LEMMA TakeKeepsAll ==
    ASSUME IInv, NEW c \in Conns, NEW m \in Matches, Decline(c, m) \/ Accept(c, m)
    PROVE  IInv'
<1>1. TablesOK /\ TakeChallenge(c, m) /\ Served(c) /\ job[c] = NoJob /\ UNCHANGED sessions
      /\ UNCHANGED <<ladderVars, asked>> /\ asked[m] # NoChallenge
  BY DEF IInv, TablesOK, TakeChallenge, Free, Decline, Accept
<1>2. ASSUME NEW status \in Verdicts, NEW j \in Jobs, Sends(c), Answers(c, m, status),
             job' = [job EXCEPT ![c] = j], UNCHANGED clientVars, j.match = m,
             j.do = IF status = "accepted" THEN "create" ELSE "notify"
      PROVE  IInv'
  <2>1. SockStep(c) /\ ClientsTypeOK' /\ SocksMove /\ UNCHANGED sock
    BY <1>1, <1>2, SockStepMoves DEF SockStep, IInv, clientVars
  <2>2. <<status, m>> \in Messages /\ Hears(c, <<status, m>>)
        /\ answers' = [answers EXCEPT ![m] = Append(@, status)]
    BY <1>2, MessagesAre DEF Verdicts, Answers
  <2>3. MoreHeard /\ \A d \in Conns, n \in Messages :
            n \in heard'[d] => n \in heard[d] \/ (n = <<status, m>> /\ d = c)
    BY <1>1, <2>2, HearsMore
  <2>4. j.do \in {"create", "join"} => "accepted" \in Range(answers'[j.match])
    <3>1. answers[m] \in Seq(Verdicts)
      BY <1>1 DEF TablesOK
    <3>2. status \in Range(Append(answers[m], status))
      <4> DEFINE s == Append(answers[m], status)
      <4>1. Len(s) \in DOMAIN s /\ s[Len(s)] = status
        BY <3>1, AppendProperties
      <4> HIDE DEF s
      <4>2. status \in Range(s)
        BY <4>1 DEF Range
      <4> QED BY <4>2 DEF s
    <3>3. answers'[m] = Append(answers[m], status)
      BY <1>1, <2>2 DEF TablesOK
    <3> QED BY <1>2, <3>2, <3>3
  <2>5. AnswersOK' /\ TablesOK'
    <3>1. /\ AnswersOK' /\ answers' \in [Matches -> Seq(Verdicts)]
          /\ pending' \in [Matches -> Challenges \cup {NoChallenge}]
          /\ \A n \in Matches : pending'[n] \in {NoChallenge, asked'[n]}
      BY <1>1, <1>2, <2>2, <2>4, TakeKeepsAnswers
    <3> QED BY <1>1, <2>3, <3>1 DEF TablesOK, MoreHeard, ladderVars
  <2>6. JobsOK'
    BY <1>1, <1>2, <2>1, JobStep
  <2>7. job'[c] = j /\ j # NoJob /\ \A d \in Conns : d # c => job'[d] = job[d]
    BY <1>2, JobIsOne DEF IInv, JobsOK
  <2>8. ASSUME NEW d \in Conns, NEW n \in Matches, sock'[d] = "up", <<"accepted", n>> \in heard'[d]
        PROVE  WillHear(d, n)' \/ (<<"accepted", n>> \in heard[d] /\ job'[d] = job[d])
    <3>1. CASE <<"accepted", n>> \notin heard[d]
      <4>1. d = c /\ n = m /\ status = "accepted"
        BY <2>3, <2>8, <3>1, MessagesAre
      <4> QED BY <1>2, <2>7, <4>1 DEF WillHear
    <3>2. CASE <<"accepted", n>> \in heard[d] /\ d = c
      <4>1. <<"session", n>> \in heard[d]
        BY <1>1, <2>1, <2>8, <3>2, IdleHasHeard
      <4> QED BY <2>3, <4>1 DEF WillHear, MoreHeard
    <3>3. CASE <<"accepted", n>> \in heard[d] /\ d # c
      BY <2>7, <3>3
    <3> QED BY <3>1, <3>2, <3>3
  <2>9. EarsOK'
    <3>1. asked' \in [Matches -> Challenges \cup {NoChallenge}]
      BY <1>1 DEF TablesOK
    <3> QED BY <1>1, <2>1, <2>3, <2>8, <3>1, EarsStay
  <2> QED BY <1>1, <2>1, <2>5, <2>6, <2>9, SameLadders DEF IInv
<1>3. ASSUME Gone(c), UNCHANGED <<answers, heard, job>>
      PROVE  IInv'
  <2>1. SockStep(c) /\ ClientsTypeOK' /\ SocksMove
    BY <1>1, <1>3, SockStepMoves DEF SockStep, IInv
  <2>2. job' = [job EXCEPT ![c] = NoJob] /\ NoJob \in Jobs \cup {NoJob} /\ MoreHeard
    BY <1>1, <1>3, SameHeard DEF IInv, JobsOK
  <2>3. "declined" \in Verdicts
    BY DEF Verdicts
  <2>4. AnswersOK' /\ TablesOK'
    <3>1. /\ AnswersOK' /\ answers' \in [Matches -> Seq(Verdicts)]
          /\ pending' \in [Matches -> Challenges \cup {NoChallenge}]
          /\ \A n \in Matches : pending'[n] \in {NoChallenge, asked'[n]}
      BY <1>1, <1>3, <2>2, <2>3, TakeKeepsAnswers
    <3> QED BY <1>1, <2>2, <3>1 DEF TablesOK, MoreHeard, ladderVars
  <2>5. JobsOK'
    BY <1>1, <2>1, <2>2, JobStep
  <2>6. EarsOK'
    <3>1. asked' \in [Matches -> Challenges \cup {NoChallenge}]
      BY <1>1 DEF TablesOK
    <3> QED BY <1>1, <1>3, <2>1, <2>2, <3>1, EarsStay
  <2> QED BY <1>1, <2>1, <2>4, <2>5, <2>6, SameLadders DEF IInv
<1>4. CASE Decline(c, m)
  <2> DEFINE j == [do |-> "notify", match |-> m]
  <2>1. j \in Jobs /\ j.match = m /\ j.do = "notify" /\ "declined" \in Verdicts
    BY DEF Jobs, Verdicts
  <2>2. \/ Sends(c) /\ Answers(c, m, "declined") /\ job' = [job EXCEPT ![c] = j]
           /\ UNCHANGED clientVars
        \/ Gone(c) /\ UNCHANGED <<answers, heard, job>>
    BY <1>4 DEF Decline
  <2> HIDE DEF j
  <2> QED BY <1>2, <1>3, <2>1, <2>2
<1>5. CASE Accept(c, m)
  <2> DEFINE j == [do |-> "create", match |-> m]
  <2>1. j \in Jobs /\ j.match = m /\ j.do = "create" /\ "accepted" \in Verdicts
    BY DEF Jobs, Verdicts
  <2>2. \/ Sends(c) /\ Answers(c, m, "accepted") /\ job' = [job EXCEPT ![c] = j]
           /\ UNCHANGED clientVars
        \/ Gone(c) /\ UNCHANGED <<answers, heard, job>>
    BY <1>5 DEF Accept, Promised
  <2> HIDE DEF j
  <2> QED BY <1>2, <1>3, <2>1, <2>2
<1> QED BY <1>4, <1>5
\* The session, and the two messages about it.
LEMMA SessionKeepsAll ==
    ASSUME IInv, NEW c \in Conns, CreateSession(c) \/ JoinSession(c)
    PROVE  IInv'
<1> DEFINE m == job[c].match
<1>1. job[c] # NoJob /\ job[c].do \in {"create", "join"}
  BY DEF CreateSession, JoinSession, NoJob
<1>2. /\ TablesOK /\ Served(c) /\ m \in Matches /\ asked[m] # NoChallenge
      /\ asked[m] \in Challenges /\ "accepted" \in Range(answers[m])
  BY <1>1 DEF IInv, TablesOK, JobsOK, Jobs, AnswersOK
<1>3. /\ UNCHANGED <<clientVars, ladderVars, pending, asked, answers>> /\ SockStep(c)
      /\ UNCHANGED sock
  BY DEF CreateSession, JoinSession, SockStep, clientVars
<1>4. ClientsTypeOK' /\ SocksMove
  BY <1>2, <1>3, SockStepMoves DEF IInv
<1>5. <<"session", m>> \in Messages /\ asked[m].from \in Conns
  BY <1>2, MessagesAre DEF Challenges
<1>6. /\ MoreHeard
      /\ \A d \in Conns, n \in Messages : n \in heard'[d] => n \in heard[d] \/ n = <<"session", m>>
  BY <1>2, <1>5, HearsMore DEF CreateSession, JoinSession, Invited
<1>7. \A d \in Conns, n \in Matches : <<"accepted", n>> \in heard'[d] => <<"accepted", n>> \in heard[d]
  BY <1>6, MessagesAre
<1>8. asked' \in [Matches -> Challenges \cup {NoChallenge}]
  BY <1>2, <1>3 DEF TablesOK
<1>9. ASSUME NEW n \in Matches, sock'[c] = "up", <<"accepted", n>> \in heard'[c]
      PROVE  WillHear(c, n) /\ sock[c] = "up"
  BY <1>3, <1>7, <1>9 DEF IInv, EarsOK
<1> HIDE DEF m
<1>10. CASE CreateSession(c)
  <2> DEFINE j == [do |-> "join", match |-> m]
  <2>1. j \in Jobs /\ j.match = m /\ j.do = "join" /\ j # NoJob
    BY <1>2, JobIsOne DEF Jobs
  <2>2. /\ sessions' = sessions \cup {m} /\ job' = [job EXCEPT ![c] = j]
        /\ Hears(asked[m].from, <<"session", m>>)
    BY <1>10 DEF CreateSession, m
  <2> HIDE DEF j
  <2>3. job'[c] = j /\ \A d \in Conns : d # c => job'[d] = job[d]
    BY <2>2 DEF IInv, JobsOK
  <2>4. JobsOK'
    BY <1>2, <1>3, <1>4, <2>1, <2>2, JobStep
  <2>5. TablesOK'
    BY <1>2, <1>3, <1>6, <2>2 DEF TablesOK, MoreHeard, ladderVars
  <2>6. AnswersOK'
    BY <1>2, <1>3, <2>1, <2>2, <2>3 DEF IInv, AnswersOK, TakenOnce
  <2>7. EarsOK'
    <3>1. sock'[asked'[m].from] = "up" => <<"session", m>> \in heard'[asked'[m].from]
      BY <1>2, <1>3, <1>5, <2>2, HearsMore
    <3>2. ASSUME NEW d \in Conns, NEW n \in Matches, sock'[d] = "up", <<"accepted", n>> \in heard'[d]
          PROVE  WillHear(d, n)' \/ (<<"accepted", n>> \in heard[d] /\ job'[d] = job[d])
      <4>1. CASE d # c
        BY <1>7, <2>3, <3>2, <4>1
      <4>2. CASE d = c /\ n = m
        BY <2>1, <2>3, <4>2 DEF WillHear
      <4>3. CASE d = c /\ n # m
        BY <1>6, <1>9, <3>2, <4>3 DEF WillHear, MoreHeard, m
      <4> QED BY <4>1, <4>2, <4>3
    <3> QED BY <1>2, <1>3, <1>4, <1>5, <1>6, <1>8, <2>2, <3>1, <3>2, EarsStay
  <2> QED BY <1>2, <1>3, <1>4, <2>4, <2>5, <2>6, <2>7, SameLadders DEF IInv
<1>11. CASE JoinSession(c)
  <2>1. UNCHANGED sessions /\ job' = [job EXCEPT ![c] = NoJob] /\ Hears(c, <<"session", m>>)
    BY <1>11 DEF JoinSession, Invited, m
  <2>2. ASSUME NEW n \in Matches, sock'[c] = "up", <<"accepted", n>> \in heard'[c]
        PROVE  WillHear(c, n)'
    <3>1. CASE n = m
      BY <1>2, <1>5, <1>9, <2>1, <2>2, <3>1, HearsMore DEF WillHear
    <3>2. CASE n # m
      BY <1>6, <1>9, <2>2, <3>2 DEF WillHear, MoreHeard, m
    <3> QED BY <3>1, <3>2
  <2>3. NoJob \in Jobs \cup {NoJob}
    OBVIOUS
  <2> QED BY <1>2, <1>3, <1>6, <1>7, <2>1, <2>2, <2>3, TalkKeepsAll
<1> QED BY <1>10, <1>11

----------------------------------------------------------------------------
LEMMA FirstMatches == MatchInit => IInv
<1> SUFFICES ASSUME MatchInit PROVE IInv
  OBVIOUS
<1> USE DEF MatchInit
<1>1. ClientsTypeOK /\ TablesOK /\ OneWaits
  BY MatchmakingAssumption DEF ClientsInit, ClientsTypeOK, TablesOK, OneWaits
<1>2. JobsOK /\ EarsOK
  BY DEF ClientsInit, JobsOK, EarsOK
<1>3. AnswersOK
  BY DEF AnswersOK, TakenOnce
<1> QED BY <1>1, <1>2, <1>3 DEF IInv

LEMMA StepKeepsMatches == IInv /\ [MatchNext]_matchVars => IInv'
<1> SUFFICES ASSUME IInv, [MatchNext]_matchVars
             PROVE  IInv'
  OBVIOUS
<1>1. CASE UNCHANGED matchVars
  <2>1. UNCHANGED <<sock, registry, idle, queue, searches, pending, job, asked, sessions,
                    answers, heard>>
    BY <1>1 DEF matchVars, clientVars, ladderVars, challengeVars
  <2> QED BY <2>1 DEF IInv, ClientsTypeOK, TablesOK, OneWaits, JobsOK, AnswersOK, TakenOnce,
                      EarsOK, WillHear, Served
<1>2. ASSUME NEW c \in Conns, Login(c) \/ Drop(c) \/ Hangup(c) \/ LadderStep(c)
      PROVE  IInv'
  BY <1>2, ConnectionsKeepAll, LadderKeepsAll
<1>3. ASSUME NEW c \in Conns, ChallengeStep(c)
      PROVE  IInv'
  BY <1>3, ChallengeKeepsAll, FailedKeepsAll, TakeKeepsAll DEF ChallengeStep
<1>4. ASSUME NEW c \in Conns, Work(c)
      PROVE  IInv'
  <2>1. PushChallenge(c) \/ ReplyChallenge(c) \/ NotifyChallenger(c) => job[c] # NoJob
    BY DEF PushChallenge, ReplyChallenge, NotifyChallenger, NoJob
  <2> QED BY <1>4, <2>1, PushKeepsAll, SessionKeepsAll DEF Work
<1> QED BY <1>1, <1>2, <1>3, <1>4 DEF MatchNext

LEMMA Invariant == MatchSpec => []IInv
  BY FirstMatches, StepKeepsMatches, PTL DEF MatchSpec

\* Whatever the clients do and whichever of them vanish, nobody waits in a
\* queue for somebody who waits in it too, a challenge is taken by one answer
\* and gets a session only if that accepts it, and when the threads are done
\* the session is known to whoever of the two is still there
\* (services/matchmaking.py:58-70, 411-473).
THEOREM MatchesAreAlwaysMade == MatchSpec => []MatchesAreMade
<1>1. IInv => MatchesAreMade
  <2> SUFFICES ASSUME IInv PROVE MatchesAreMade
    OBVIOUS
  <2>1. MatchTypeOK
    <3>1. \A l \in Ladders : Range(queue[l]) \subseteq Conns
      BY RangeOfSeq DEF IInv, TablesOK
    <3> QED BY <3>1 DEF MatchTypeOK, IInv, TablesOK, JobsOK
  <2>2. SessionReachesBoth
    <3> SUFFICES ASSUME AllFree, NEW m \in sessions
                 PROVE  /\ sock[asked[m].from] = "up"
                             => <<"session", m>> \in heard[asked[m].from]
                        /\ \A c \in Conns : sock[c] = "up" /\ <<"accepted", m>> \in heard[c]
                               => <<"session", m>> \in heard[c]
      BY DEF SessionReachesBoth
    <3>1. m \in Matches
      BY DEF IInv, TablesOK
    <3> QED BY <3>1 DEF IInv, EarsOK, AllFree, WillHear
  <2> QED BY <2>1, <2>2 DEF MatchesAreMade, IInv, AnswersOK
<1> QED BY <1>1, Invariant, PTL
----------------------------------------------------------------------------
(* Nobody vanishes. *)

\* Whoever's connection is open has been told of each pair it is in.
ToldOK ==
    /\ pairs \in Seq(Conns \X Conns)
    /\ acked \in [Conns -> Nat]
    /\ \A c \in Conns : /\ sock[c] # "gone"
                        /\ sock[c] # "closed" => acked[c] = Cardinality(PairsOf(c))

\* One more pair is one more for either of the two.
LEMMA OneMorePair ==
    ASSUME pairs \in Seq(Conns \X Conns), NEW c \in Conns, NEW d \in Conns,
           pairs' = Append(pairs, <<c, d>>), NEW e \in Conns
    PROVE  /\ pairs' \in Seq(Conns \X Conns)
           /\ Cardinality(PairsOf(e)) \in Nat
           /\ Cardinality(PairsOf(e)')
                 = Cardinality(PairsOf(e)) + (IF e \in {c, d} THEN 1 ELSE 0)
<1> DEFINE n == Len(pairs)
<1>1. /\ n \in Nat /\ DOMAIN pairs = 1 .. n /\ DOMAIN pairs' = 1 .. n + 1
      /\ \A i \in 1 .. n : pairs'[i] = pairs[i]
      /\ pairs'[n + 1] = <<c, d>> /\ pairs' \in Seq(Conns \X Conns)
  BY AppendProperties
<1>2. Range(<<c, d>>) = {c, d}
  <2>1. DOMAIN <<c, d>> = {1, 2} /\ <<c, d>>[1] = c /\ <<c, d>>[2] = d
    OBVIOUS
  <2> QED BY <2>1 DEF Range
<1>3. IsFiniteSet(PairsOf(e)) /\ PairsOf(e) \subseteq 1 .. n
  <2>1. PairsOf(e) \subseteq 1 .. n
    BY <1>1 DEF PairsOf
  <2>2. n \in Nat
    BY <1>1
  <2> HIDE DEF n
  <2>3. IsFiniteSet(1 .. n)
    BY <2>2, FS_Interval
  <2> QED BY <2>1, <2>3, FS_Subset
<1> HIDE DEF n
<1>4. PairsOf(e)' = IF e \in {c, d} THEN PairsOf(e) \cup {n + 1} ELSE PairsOf(e)
  <2>1. \A i \in 1 .. n + 1 : i \in 1 .. n \/ i = n + 1
    BY <1>1
  <2>2. \A i : i \in PairsOf(e)' <=> i \in 1 .. n + 1 /\ e \in Range(pairs'[i])
    BY <1>1 DEF PairsOf
  <2>3. \A i : i \in PairsOf(e) <=> i \in 1 .. n /\ e \in Range(pairs[i])
    BY <1>1 DEF PairsOf
  <2>4. n + 1 \in 1 .. n + 1 /\ 1 .. n \subseteq 1 .. n + 1 /\ n + 1 \notin 1 .. n
    BY <1>1
  <2>5. \A i : i \in PairsOf(e)' <=> i \in PairsOf(e) \/ (i = n + 1 /\ e \in {c, d})
    BY <1>1, <1>2, <2>1, <2>2, <2>3, <2>4
  <2> QED BY <2>5
<1>5. n + 1 \notin PairsOf(e)
  BY <1>1, <1>3
<1>6. Cardinality(PairsOf(e)) \in Nat
  BY <1>3, FS_CardinalityType
<1>7. CASE e \in {c, d}
  <2>1. Cardinality(PairsOf(e) \cup {n + 1}) = Cardinality(PairsOf(e)) + 1
    BY <1>3, <1>5, FS_AddElement
  <2> QED BY <1>1, <1>4, <1>6, <1>7, <2>1
<1>8. CASE e \notin {c, d}
  BY <1>1, <1>4, <1>6, <1>8
<1> QED BY <1>7, <1>8

LEMMA PairTellsBoth ==
    ASSUME IInv, ToldOK, NEW c \in Conns, NEW l \in Ladders, Pair(c, l)
    PROVE  ToldOK'
<1> DEFINE d == Head(queue[l])
<1>1. d \in Conns /\ Sends(c) /\ ~Raises(c) /\ sock[c] = "up"
  BY DEF IInv, TablesOK, ToldOK, Pair, Search, Free, Served, Sends, Raises
<1>2. pairs' = Append(pairs, <<c, d>>)
  BY DEF Pair
<1>3. \A e \in Conns : /\ Cardinality(PairsOf(e)) \in Nat
                       /\ Cardinality(PairsOf(e)')
                             = Cardinality(PairsOf(e)) + (IF e \in {c, d} THEN 1 ELSE 0)
  BY <1>1, <1>2, OneMorePair DEF ToldOK
<1>4. pairs' \in Seq(Conns \X Conns)
  BY <1>1, <1>2, OneMorePair DEF ToldOK
<1>5. \/ /\ Sends(d) /\ UNCHANGED clientVars
         /\ acked' = [e \in Conns |-> IF e \in {c, d} THEN acked[e] + 1 ELSE acked[e]]
      \/ Raises(d) /\ Gone(c) /\ acked' = [acked EXCEPT ![c] = @ + 1]
  BY <1>1 DEF Pair, Acknowledged
<1> HIDE DEF d
<1>6. CASE /\ Sends(d) /\ UNCHANGED clientVars
           /\ acked' = [e \in Conns |-> IF e \in {c, d} THEN acked[e] + 1 ELSE acked[e]]
  BY <1>3, <1>4, <1>6 DEF ToldOK, clientVars
<1>7. CASE Raises(d) /\ Gone(c) /\ acked' = [acked EXCEPT ![c] = @ + 1]
  <2>1. sock' = [sock EXCEPT ![c] = "closed"] /\ sock'[c] = "closed"
        /\ \A e \in Conns : e # c => sock'[e] = sock[e] /\ acked'[e] = acked[e]
    BY <1>7 DEF Gone, IInv, ClientsTypeOK, ToldOK
  <2>2. sock[d] = "closed" /\ acked' \in [Conns -> Nat]
    BY <1>1, <1>7 DEF Raises, ToldOK
  <2>3. ASSUME NEW e \in Conns, sock'[e] # "closed"
        PROVE  acked'[e] = Cardinality(PairsOf(e)') /\ sock'[e] # "gone"
    <3>1. e # c /\ e # d
      BY <1>1, <2>1, <2>2, <2>3
    <3> QED BY <1>3, <2>1, <2>3, <3>1 DEF ToldOK
  <2> QED BY <1>4, <2>2, <2>3 DEF ToldOK
<1> QED BY <1>5, <1>6, <1>7

LEMMA StepKeepsTold ==
    ASSUME Faults = FALSE, IInv, ToldOK, [MatchNext]_matchVars
    PROVE  ToldOK'
<1>1. ASSUME UNCHANGED <<pairs, acked>>,
             \A c \in Conns : sock'[c] # "gone" /\ (sock'[c] # "closed" => sock[c] # "closed")
      PROVE  ToldOK'
  BY <1>1 DEF ToldOK, PairsOf
<1>2. ASSUME NEW c \in Conns, SockStep(c)
      PROVE  \A d \in Conns : sock'[d] # "gone" /\ (sock'[d] # "closed" => sock[d] # "closed")
  BY <1>2 DEF SockStep, Gone, clientVars, IInv, ClientsTypeOK, ToldOK
<1>3. ASSUME NEW c \in Conns, Login(c) \/ Drop(c)
      PROVE  ToldOK'
  BY <1>1, <1>3 DEF Login, Enter, Drop, PeerGone, ladderVars, IInv, ClientsTypeOK, ToldOK
<1>4. ASSUME NEW c \in Conns, NEW l \in Ladders, CancelSearch(c, l) \/ JoinQueue(c, l)
      PROVE  ToldOK'
  BY <1>1, <1>2, <1>4 DEF CancelSearch, JoinQueue, SockStep
<1>5. ASSUME NEW c \in Conns, Hangup(c) \/ ChallengeStep(c)
      PROVE  ToldOK'
  BY <1>1, <1>2, <1>5 DEF Hangup, ChallengeStep, Challenge, AnswerFailed, Decline, Accept,
                          TakeChallenge, SockStep, ladderVars
<1>6. ASSUME NEW c \in Conns, Work(c)
      PROVE  ToldOK'
  BY <1>1, <1>2, <1>6 DEF Work, PushChallenge, ReplyChallenge, NotifyChallenger, CreateSession,
                          JoinSession, SockStep, ladderVars
<1>7. CASE UNCHANGED matchVars
  BY <1>1, <1>7 DEF matchVars, clientVars, ladderVars, ToldOK
<1> QED BY <1>3, <1>4, <1>5, <1>6, <1>7, PairTellsBoth DEF MatchNext, LadderStep

\* "pairs searching players and acknowledges the match" (services/matchmaking.py:1):
\* while no peer vanishes, a client that is still connected was told of every
\* pair it is in, also when the other one hung up while it waited.
THEOREM PairedAreTold ==
    ASSUME Faults = FALSE
    PROVE  MatchSpec => []PairedAcknowledged
<1>1. MatchInit => ToldOK
  <2> SUFFICES ASSUME MatchInit PROVE ToldOK
    OBVIOUS
  <2>1. pairs = <<>> /\ acked = [c \in Conns |-> 0] /\ sock = [c \in Conns |-> "off"]
    BY DEF MatchInit, ClientsInit
  <2>2. \A c \in Conns : PairsOf(c) = {}
    BY <2>1 DEF PairsOf
  <2> QED BY <2>1, <2>2, FS_EmptySet DEF ToldOK
<1>2. IInv /\ ToldOK /\ [MatchNext]_matchVars => ToldOK'
  BY StepKeepsTold
<1>3. ToldOK => PairedAcknowledged
  BY DEF ToldOK, PairedAcknowledged
<1> QED BY <1>1, <1>2, <1>3, Invariant, PTL DEF MatchSpec

-------------------------------------------------------------------------------
\* The opening of a PvP game.

Started == {"StartGame", "Playing"}

\* A checkpoint records accepted keeps only, and is past the mulligan only if
\* both hands are accepted.
Honest(d) ==
    /\ d \in States
    /\ d.kept \subseteq accepted
    /\ d.phase \in Started => accepted = Seats

ConnsHonest ==
    /\ conn \in [Seats ->
                   [at : {"idle", "sent", "loaded", "attached"},
                    req : OpeningRequests, copy : States \cup {Unset}]]
    /\ \A p \in Seats : conn[p].at = "loaded" => Honest(conn[p].copy)
    /\ \A p \in Seats : conn[p].at = "attached" => port # Unset

PortHonest ==
    /\ port \in PortStates \cup {Unset}
    /\ port # Unset => Honest(live)
    /\ port # Unset /\ port.phase \in Started => accepted = Seats

CopiesHonest ==
    /\ accepted \subseteq Seats
    /\ Honest(durable)
    /\ ConnsHonest
    /\ PortHonest

-----------------------------------------------------------------------------
\* Two players: a set of at least two of them is all of them.
LEMMA BothAreAll ==
    ASSUME NEW S \in SUBSET Seats, Cardinality(S) >= 2
    PROVE  S = Seats
<1>1. Cardinality({}) = 0
    BY FS_EmptySet
<1>2. \A x \in Seats : Cardinality({x}) = 1
    BY FS_Singleton
<1>3. S = {} \/ (\E x \in Seats : S = {x}) \/ S = Seats
    BY DEF Seats
<1>. QED
    BY <1>1, <1>2, <1>3, SMT

\* The mulligan moves on from a checkpoint that records accepted keeps only:
\* to a prompt, or to the first turn when both hands are accepted.
LEMMA MulliganNextIsHonest ==
    ASSUME OpeningAssumption, NoPortAssumption, CopiesHonest,
           NEW d \in States, NEW p \in Seats, NEW dialogs,
           accepted' \subseteq Seats, accepted \subseteq accepted',
           d.kept \subseteq accepted',
           d.phase \in Started => accepted' = Seats,
           MulliganNext(d, p, dialogs)
    PROVE  Honest(durable)' /\ PortHonest' /\ (port # Unset => port' # Unset)
<1>1. CASE BothKept(d)
    <2>1. accepted' = Seats
        <3>1. d.kept = Seats
            BY <1>1, BothAreAll DEF BothKept, States
        <3>. QED
            BY <3>1
    <2>2. StartTurn(d, dialogs)
        BY <1>1 DEF MulliganNext
    <2>. DEFINE s == [d EXCEPT !.phase = "Mulligan", !.prio = Unset,
                               !.asked = Unset]
                lv == IF port = Unset THEN s ELSE Projected(live)
                po == IF port = Unset THEN BuiltFrom(s) ELSE port
    <2>3. s \in States
        BY DEF States, Phases
    <2>4. lv \in States /\ po \in PortStates
        BY <2>3 DEF CopiesHonest, PortHonest, Honest, Projected, BuiltFrom,
                    States, PortStates
    <2>. HIDE DEF s, lv, po
    <2>5. CASE po.phase \notin {"Mulligan", "StartGame"}
        <3>1. durable' = s /\ live' = lv /\ port' = port
            BY <2>2, <2>5 DEF StartTurn, s, lv, po
        <3>2. lv.kept \subseteq Seats
            BY <2>4 DEF States
        <3>. QED
            BY <2>1, <2>3, <2>4, <2>5, <3>1, <3>2
            DEF Honest, PortHonest, CopiesHonest, States
    <2>6. CASE po.phase \in {"Mulligan", "StartGame"}
        <3>. DEFINE at == IF po.window THEN "StartGame" ELSE "Playing"
                    on == [lv EXCEPT !.phase = at, !.prio = lv.turn]
                    np == [po EXCEPT !.phase = at, !.window = TRUE,
                             !.prio = IF at = "Playing" THEN lv.turn ELSE Unset]
        <3>1. durable' = on /\ live' = on /\ port' = np
            BY <2>2, <2>6 DEF StartTurn, s, lv, po
        <3>2. on \in States /\ np \in PortStates
            BY <2>4 DEF States, PortStates, Phases
        <3>. HIDE DEF at, on, np
        <3>3. on.kept \subseteq Seats
            BY <3>2 DEF States
        <3>. QED
            BY <2>1, <3>1, <3>2, <3>3 DEF NoPortAssumption, Honest, PortHonest
    <2>. QED
        BY <2>5, <2>6
<1>2. CASE ~BothKept(d)
    <2>. DEFINE n == NextAsked(d, p)
                r == [d EXCEPT !.asked = n, !.prio = n]
    <2>1. durable' = r /\ live' = live /\ port' = port
        BY <1>2 DEF MulliganNext, Prompt
    <2>2. n \in Seats
        BY DEF NextAsked, Opponent, Seats
    <2>. HIDE DEF n
    <2>3. r \in States /\ r.kept = d.kept /\ r.phase = d.phase
        BY <2>2 DEF States
    <2>. HIDE DEF r
    <2>4. Honest(durable)'
        BY <2>1, <2>3 DEF Honest
    <2>5. PortHonest'
        BY <2>1 DEF PortHonest, CopiesHonest, Honest
    <2>. QED
        BY <2>1, <2>4, <2>5
<1>. QED
    BY <1>1, <1>2

-----------------------------------------------------------------------------
LEMMA StartsHonest == ASSUME OpeningAssumption, NoPortAssumption, OpeningInit PROVE CopiesHonest
<1>1. durable \in States /\ durable.kept = {} /\ durable.phase = "PickGoesFirst"
    BY DEF OpeningInit, States, Phases, Seats
<1>2. Idle \in [at : {"idle", "sent", "loaded", "attached"},
                req : OpeningRequests, copy : States \cup {Unset}]
    BY DEF Idle, OpeningRequests
<1>3. ConnsHonest
    BY <1>2 DEF OpeningInit, ConnsHonest, Idle
<1>4. PortHonest
    BY DEF OpeningInit, PortHonest
<1>. QED
    BY <1>1, <1>3, <1>4 DEF OpeningInit, CopiesHonest, Honest, Started

\* A thread whose request is done is idle again; the others are untouched.
LEMMA DoneIsHonest ==
    ASSUME CopiesHonest, NEW p \in Seats, Done(p),
           accepted' \subseteq Seats, accepted \subseteq accepted',
           port # Unset => port' # Unset
    PROVE  ConnsHonest'
<1>1. Idle \in [at : {"idle", "sent", "loaded", "attached"},
                req : OpeningRequests, copy : States \cup {Unset}]
    BY DEF Idle, OpeningRequests
<1>2. conn'[p] = Idle /\ \A q \in Seats : q # p => conn'[q] = conn[q]
    BY DEF Done, CopiesHonest, ConnsHonest
<1>3. conn' \in [Seats ->
                   [at : {"idle", "sent", "loaded", "attached"},
                    req : OpeningRequests, copy : States \cup {Unset}]]
    BY <1>1 DEF Done, CopiesHonest, ConnsHonest
<1>4. Idle.at = "idle"
    BY DEF Idle
<1>5. \A q \in Seats : conn'[q].at = "loaded" => Honest(conn[q].copy)
    BY <1>2, <1>4 DEF CopiesHonest, ConnsHonest
<1>6. \A q \in Seats : conn'[q].at = "loaded" => Honest(conn[q].copy)'
    BY <1>2, <1>4, <1>5 DEF Honest
<1>7. \A q \in Seats : conn'[q].at = "attached" => port' # Unset
    BY <1>2, <1>4 DEF CopiesHonest, ConnsHonest
<1>. QED
    BY <1>2, <1>3, <1>4, <1>6, <1>7 DEF ConnsHonest

\* A client that sends a request changes no checkpoint.
LEMMA SendIsHonest ==
    ASSUME CopiesHonest, NEW p \in Seats, NEW r \in OpeningRequests, Send(p, r),
           UNCHANGED <<durable, live, port, accepted>>
    PROVE  CopiesHonest'
<1>1. [Idle EXCEPT !.at = "sent", !.req = r] \in
        [at : {"idle", "sent", "loaded", "attached"},
         req : OpeningRequests, copy : States \cup {Unset}]
    BY DEF Idle
<1>2. [Idle EXCEPT !.at = "sent", !.req = r].at = "sent"
    BY DEF Idle
<1>3. ConnsHonest'
    BY <1>1, <1>2 DEF Send, CopiesHonest, ConnsHonest, Honest
<1>. QED
    BY <1>3 DEF CopiesHonest, PortHonest, Honest

LEMMA LoadIsHonest ==
    ASSUME CopiesHonest, NEW p \in Seats, Load(p) PROVE CopiesHonest'
<1>1. [conn EXCEPT ![p].at = "loaded", ![p].copy = durable] =
      [conn EXCEPT ![p] = [conn[p] EXCEPT !.at = "loaded", !.copy = durable]]
    BY DEF CopiesHonest, ConnsHonest
<1>2. conn' = [conn EXCEPT ![p] = [conn[p] EXCEPT !.at = "loaded",
                                                  !.copy = durable]]
    BY <1>1 DEF Load
<1>3. durable \in States
    BY DEF CopiesHonest, Honest
<1>4. [conn[p] EXCEPT !.at = "loaded", !.copy = durable] \in
        [at : {"idle", "sent", "loaded", "attached"},
         req : OpeningRequests, copy : States \cup {Unset}]
    BY <1>3 DEF CopiesHonest, ConnsHonest
<1>5. /\ conn'[p].at = "loaded" /\ conn'[p].copy = durable
      /\ \A q \in Seats : q # p => conn'[q] = conn[q]
    BY <1>2 DEF CopiesHonest, ConnsHonest
<1>6. ConnsHonest'
    BY <1>2, <1>4, <1>5 DEF Load, CopiesHonest, ConnsHonest, Honest
<1>. QED
    BY <1>6 DEF Load, CopiesHonest, PortHonest, Honest

LEMMA PickIsHonest ==
    ASSUME OpeningAssumption, NoPortAssumption, CopiesHonest, NEW p \in Seats,
           NEW r \in {"play", "draw"}, PickStep(p, r)
    PROVE  CopiesHonest'
<1>. DEFINE d == conn[p].copy
            e == [d EXCEPT !.phase = "Mulligan", !.picked = TRUE,
                    !.turn = IF r = "play" THEN p ELSE Opponent(p), !.asked = p]
<1>1. Honest(d)
    BY DEF PickStep, Serving, CopiesHonest, ConnsHonest
<1>2. /\ Done(p) /\ live' = live /\ port' = port /\ accepted' = accepted
      /\ durable' = durable \/ durable' = e
    BY DEF PickStep
<1>3. ConnsHonest'
    <2>1. /\ accepted' \subseteq Seats /\ accepted \subseteq accepted'
          /\ port # Unset => port' # Unset
        BY <1>2 DEF CopiesHonest
    <2>. QED
        BY <1>2, <2>1, DoneIsHonest
<1>4. Opponent(p) \in Seats
    BY DEF Opponent, Seats
<1>5. e \in States /\ e.kept = d.kept /\ e.phase = "Mulligan"
    BY <1>1, <1>4 DEF Honest, States, Phases
<1>. HIDE DEF e
<1>6. Honest(durable)'
    BY <1>1, <1>2, <1>5 DEF Honest, CopiesHonest, Started
<1>7. PortHonest'
    BY <1>2 DEF CopiesHonest, PortHonest, Honest
<1>. QED
    BY <1>2, <1>3, <1>6, <1>7 DEF CopiesHonest

LEMMA KeepIsHonest ==
    ASSUME OpeningAssumption, NoPortAssumption, CopiesHonest, NEW p \in Seats, KeepStep(p)
    PROVE  CopiesHonest'
<1>. DEFINE d == conn[p].copy
<1>1. Honest(d) /\ Done(p)
    BY DEF KeepStep, Serving, CopiesHonest, ConnsHonest
<1>2. CASE AlreadyKept(d, p)
    <2>1. UNCHANGED <<durable, live, port, accepted>>
        BY <1>2 DEF KeepStep
    <2>2. ConnsHonest'
        <3>1. /\ accepted' \subseteq Seats /\ accepted \subseteq accepted'
              /\ port # Unset => port' # Unset
            BY <2>1 DEF CopiesHonest
        <3>. QED
            BY <1>1, <3>1, DoneIsHonest
    <2>. QED
        BY <2>1, <2>2 DEF CopiesHonest, PortHonest, Honest
<1>3. CASE ~AlreadyKept(d, p)
    <2>. DEFINE e == [d EXCEPT !.kept = @ \cup {p}]
                dialogs == [Dialogs EXCEPT ![p] = "none"]
    <2>1. accepted' = accepted \cup {p} /\ MulliganNext(e, p, dialogs)
        BY <1>3 DEF KeepStep
    <2>2. e \in States /\ e.kept = d.kept \cup {p} /\ e.phase = d.phase
        BY <1>1 DEF Honest, States
    <2>3. /\ accepted' \subseteq Seats /\ accepted \subseteq accepted'
          /\ e.kept \subseteq accepted'
          /\ e.phase \in Started => accepted' = Seats
        BY <1>1, <2>1, <2>2 DEF Honest, CopiesHonest
    <2>. HIDE DEF e, dialogs
    <2>4. Honest(durable)' /\ PortHonest' /\ (port # Unset => port' # Unset)
        BY <2>1, <2>2, <2>3, MulliganNextIsHonest
    <2>6. ConnsHonest'
        BY <1>1, <2>3, <2>4, DoneIsHonest
    <2>. QED
        BY <2>3, <2>4, <2>6 DEF CopiesHonest
<1>. QED
    BY <1>2, <1>3

LEMMA RedrawIsHonest ==
    ASSUME OpeningAssumption, NoPortAssumption, CopiesHonest, NEW p \in Seats, RedrawStep(p)
    PROVE  CopiesHonest'
<1>. DEFINE d == conn[p].copy
<1>1. Honest(d) /\ Done(p)
    BY DEF RedrawStep, Serving, CopiesHonest, ConnsHonest
<1>2. accepted' = accepted /\ MulliganNext(d, p, Dialogs)
    BY DEF RedrawStep
<1>3. /\ accepted' \subseteq Seats /\ accepted \subseteq accepted'
      /\ d \in States /\ d.kept \subseteq accepted'
      /\ d.phase \in Started => accepted' = Seats
    BY <1>1, <1>2 DEF Honest, CopiesHonest
<1>. HIDE DEF d
<1>4. Honest(durable)' /\ PortHonest' /\ (port # Unset => port' # Unset)
    BY <1>2, <1>3, MulliganNextIsHonest
<1>6. ConnsHonest'
    BY <1>1, <1>3, <1>4, DoneIsHonest
<1>. QED
    BY <1>3, <1>4, <1>6 DEF CopiesHonest

\* The first request builds the port from its copy, a later one only projects
\* the port on its own checkpoint.
LEMMA AttachIsHonest ==
    ASSUME OpeningAssumption, NoPortAssumption, CopiesHonest, NEW p \in Seats, AttachStep(p)
    PROVE  CopiesHonest'
<1>. DEFINE d == conn[p].copy
            c == [conn[p] EXCEPT !.at = "attached", !.copy = Unset]
<1>1. Honest(d) /\ accepted' = accepted
    BY DEF AttachStep, CopiesHonest, ConnsHonest
<1>2. Honest(durable)' /\ PortHonest' /\ port' # Unset
    <2>1. CASE port = Unset
        <3>1. durable' = d /\ live' = d /\ port' = BuiltFrom(d)
            BY <2>1 DEF AttachStep
        <3>2. BuiltFrom(d) \in PortStates /\ BuiltFrom(d).phase = d.phase
            BY <1>1 DEF Honest, BuiltFrom, States, PortStates
        <3>. HIDE DEF d
        <3>. QED
            BY <1>1, <3>1, <3>2 DEF NoPortAssumption, Honest, PortHonest
    <2>2. CASE port # Unset
        <3>1. durable' = durable /\ live' = Projected(live) /\ port' = port
            BY <2>2 DEF AttachStep
        <3>2. /\ Projected(live) \in States
              /\ Projected(live).kept = live.kept
              /\ Projected(live).phase = port.phase
            BY <2>2 DEF Projected, CopiesHonest, PortHonest, Honest, States,
                        PortStates
        <3>. QED
            BY <1>1, <2>2, <3>1, <3>2 DEF Honest, PortHonest, CopiesHonest
    <2>. QED
        BY <2>1, <2>2
<1>3. conn' = [conn EXCEPT ![p] = c]
    BY DEF AttachStep, CopiesHonest, ConnsHonest
<1>4. c \in [at : {"idle", "sent", "loaded", "attached"},
            req : OpeningRequests, copy : States \cup {Unset}]
    BY DEF CopiesHonest, ConnsHonest
<1>5. /\ conn'[p].at = "attached"
      /\ \A q \in Seats : q # p => conn'[q] = conn[q]
    BY <1>3 DEF CopiesHonest, ConnsHonest
<1>. HIDE DEF c
<1>6. ConnsHonest'
    BY <1>1, <1>2, <1>3, <1>4, <1>5 DEF CopiesHonest, ConnsHonest, Honest
<1>. QED
    BY <1>1, <1>2, <1>6 DEF CopiesHonest

LEMMA DispatchIsHonest ==
    ASSUME OpeningAssumption, NoPortAssumption, CopiesHonest, NEW p \in Seats,
           DispatchStep(p)
    PROVE  CopiesHonest'
<1>1. Honest(live) /\ port \in PortStates
    BY DEF DispatchStep, CopiesHonest, ConnsHonest, PortHonest
<1>2. Opponent(p) \in Seats
    BY DEF Opponent, Seats
<1>3. /\ Stored(p) \in States
      /\ Stored(p).kept = live.kept /\ Stored(p).phase = live.phase
    BY <1>1, <1>2 DEF Stored, StopsKey, Honest, States
<1>. DEFINE np == [phase |-> live.phase, turn |-> live.turn,
                   prio |-> live.prio,
                   window |-> port.window \/ live.prio # Unset]
<1>4. /\ durable' = Stored(p) /\ live' = Stored(p) /\ port' = np
      /\ accepted' = accepted /\ Done(p)
    BY DEF DispatchStep
<1>5. np \in PortStates /\ np.phase = live.phase
    BY <1>1 DEF Honest, States, PortStates
<1>. HIDE DEF np
<1>6. Honest(durable)' /\ PortHonest' /\ port' # Unset
    BY <1>1, <1>3, <1>4, <1>5 DEF NoPortAssumption, Honest, PortHonest
<1>7. ConnsHonest'
    <2>1. accepted' \subseteq Seats /\ accepted \subseteq accepted'
        BY <1>4 DEF CopiesHonest
    <2>. QED
        BY <1>4, <1>6, <2>1, DoneIsHonest
<1>. QED
    BY <1>4, <1>6, <1>7 DEF CopiesHonest

-----------------------------------------------------------------------------
LEMMA StepIsHonest ==
    ASSUME OpeningAssumption, NoPortAssumption, CopiesHonest, [OpeningNext]_openVars PROVE CopiesHonest'
<1>1. CASE UNCHANGED openVars
    BY <1>1 DEF openVars, CopiesHonest, ConnsHonest, PortHonest, Honest
<1>2. ASSUME NEW p \in Seats, ServeOpening(p) PROVE CopiesHonest'
    BY <1>2, LoadIsHonest, PickIsHonest, KeepIsHonest, RedrawIsHonest,
       AttachIsHonest, DispatchIsHonest DEF ServeOpening
<1>3. ASSUME NEW p \in Seats, Answer(p) PROVE CopiesHonest'
    <2>1. \E r \in OpeningRequests : Send(p, r)
        BY <1>3 DEF Answer, Choose, AnswerHand, OpeningRequests
    <2>2. UNCHANGED <<durable, live, port, accepted>>
        BY <1>3 DEF Answer, Choose, AnswerHand
    <2>. QED
        BY <2>1, <2>2, SendIsHonest
<1>4. ASSUME NEW p \in Seats, KeepAgain(p) PROVE CopiesHonest'
    <2>1. Send(p, "keep") /\ "keep" \in OpeningRequests
        BY <1>4 DEF KeepAgain, OpeningRequests
    <2>2. UNCHANGED <<durable, live, port, accepted>>
        BY <1>4 DEF KeepAgain
    <2>. QED
        BY <2>1, <2>2, SendIsHonest
<1>5. ASSUME NEW p \in Seats, NEW r \in {"sync", "stops"}, SendOther(p, r)
      PROVE  CopiesHonest'
    <2>1. Send(p, r) /\ r \in OpeningRequests
        BY <1>5 DEF SendOther, OpeningRequests
    <2>2. UNCHANGED <<durable, live, port, accepted>>
        BY <1>5 DEF SendOther
    <2>. QED
        BY <2>1, <2>2, SendIsHonest
<1>. QED
    BY <1>1, <1>2, <1>3, <1>4, <1>5 DEF OpeningNext

\* The native scheduler is started only when both hands are accepted, for
\* eager clients and for other requests at any stage (pvp_mulligan_next).
THEOREM StartsAccepted == OpeningSpec => []StartNeedsBoth
<1>0. OpeningAssumption /\ NoPortAssumption
    BY OpeningConstants
<1>1. OpeningInit => CopiesHonest
    BY <1>0, StartsHonest
<1>2. CopiesHonest /\ [OpeningNext]_openVars => CopiesHonest'
    BY <1>0, StepIsHonest
<1>3. CopiesHonest => StartNeedsBoth
    BY DEF CopiesHonest, Honest, StartNeedsBoth, Started
<1>. QED
    BY <1>1, <1>2, <1>3, PTL DEF OpeningSpec

-----------------------------------------------------------------------------
(* The order of the opening, for clients that answer only with the green    *)
(* light and send other requests only once the first turn runs.             *)

AtPick ==
    /\ durable.phase = "PickGoesFirst" /\ ~durable.picked /\ durable.kept = {}
    /\ port = Unset /\ accepted = {}
    /\ \A p \in Seats :
          /\ client[p].dialog = IF p = Winner THEN "pick" ELSE "none"
          /\ ~client[p].again /\ hand[p] = 0
          /\ conn[p].at \in {"idle", "sent", "loaded"}
          /\ conn[p].at # "idle" => p = Winner /\ conn[p].req \in {"play", "draw"}
          /\ conn[p].at = "loaded" => conn[p].copy = durable

\* A thread of a player who is asked serves his answer, on the row's own
\* checkpoint; one of a player who has kept, his keep sent again.
MulliganThread(p) ==
    \/ conn[p].at = "idle"
    \/ /\ p = durable.asked /\ conn[p].req \in {"keep", "redraw"}
       /\ conn[p].at = "sent" \/ (conn[p].at = "loaded" /\ conn[p].copy = durable)
    \/ /\ p \in durable.kept /\ conn[p].req = "keep"
       /\ conn[p].at = "sent" \/ (conn[p].at = "loaded" /\ p \in conn[p].copy.kept)

AtMulligan ==
    /\ durable.phase = "Mulligan" /\ durable.picked /\ durable.asked \in Seats \ durable.kept
    /\ port = Unset /\ accepted = durable.kept
    /\ \A p \in Seats :
          /\ client[p].light <=> p = durable.asked
          /\ client[p].dialog = IF p \in durable.kept THEN "none" ELSE "hand"
          /\ client[p].again => p \in durable.kept \/ (conn[p].at # "idle" /\ conn[p].req = "keep")
          /\ hand[p] > 0
          /\ MulliganThread(p)

PlayThread(p) ==
    \/ conn[p].at = "idle"
    \/ conn[p].req \in {"sync", "stops"}
    \/ /\ conn[p].req = "keep"
       /\ conn[p].at = "sent" \/ (conn[p].at = "loaded" /\ p \in conn[p].copy.kept)

AtPlay ==
    /\ durable.phase = "Playing" /\ durable.kept = Seats /\ accepted = Seats
    /\ live = durable
    /\ port # Unset /\ port.phase = "Playing" /\ port.turn = durable.turn /\ port.prio = durable.prio
    /\ \A p \in Seats : client[p].dialog = "none" /\ PlayThread(p)

Orderly == OpeningTypeOK /\ (AtPick \/ AtMulligan \/ AtPlay)

\* What is assumed of the clients.
Patient == ~Eager /\ OtherIn \subseteq {"Playing"}

\* The types that no handler decides anything about.
Threads == [at : {"idle", "sent", "loaded", "attached"},
            req : OpeningRequests, copy : States \cup {Unset}]
Views == [dialog : {"none", "pick", "hand"}, light : BOOLEAN, again : BOOLEAN,
          left : 0 .. MaxOther]

LEMMA OtherSeat ==
    ASSUME OpeningAssumption
    PROVE  \A p \in Seats :
              /\ Opponent(p) \in Seats /\ Opponent(p) # p
              /\ \A q \in Seats : q # p => q = Opponent(p)
BY DEF OpeningAssumption, Opponent, Seats

\* Both hands are kept exactly when everybody's is.
LEMMA BothKeptIsAll ==
    ASSUME OpeningAssumption, NEW d, d.kept \subseteq Seats
    PROVE  BothKept(d) <=> d.kept = Seats
<1>1. Cardinality(Seats) = 2
    <2>1. Seats = {Winner} \cup {Loser} /\ Loser \notin {Winner}
        BY DEF Seats, OpeningAssumption
    <2>2. Cardinality({Winner}) = 1 /\ IsFiniteSet({Winner})
        BY FS_Singleton
    <2>3. Cardinality({Winner} \cup {Loser}) = Cardinality({Winner}) + 1
        BY <2>1, <2>2, FS_AddElement
    <2>. QED
        BY <2>1, <2>2, <2>3
<1>2. BothKept(d) => d.kept = Seats
    BY BothAreAll DEF BothKept
<1>. QED
    BY <1>1, <1>2 DEF BothKept

LEMMA IdleIsThread == Idle \in Threads /\ Idle.at = "idle"
BY DEF Idle, Threads, OpeningRequests

LEMMA StartsOrderly ==
    ASSUME OpeningAssumption, NoPortAssumption, OpeningInit PROVE Orderly
<1>1. durable \in States
    BY DEF OpeningInit, States, Phases, Seats
<1>2. conn \in [Seats -> Threads]
    BY IdleIsThread DEF OpeningInit
<1>3. client \in [Seats -> Views]
    BY DEF OpeningInit, Views, OpeningAssumption
<1>4. hand \in [Seats -> 0 .. HandSize]
    BY DEF OpeningInit, OpeningAssumption
<1>5. OpeningTypeOK
    BY <1>1, <1>2, <1>3, <1>4 DEF OpeningInit, OpeningTypeOK, Threads, Views
<1>6. \A p \in Seats : /\ client[p].dialog = IF p = Winner THEN "pick" ELSE "none"
                       /\ ~client[p].again /\ hand[p] = 0 /\ conn[p] = Idle
    BY DEF OpeningInit
<1>7. AtPick
    BY <1>6, IdleIsThread DEF OpeningInit, AtPick
<1>. QED
    BY <1>5, <1>7 DEF Orderly

\* Types of a thread and of a dialog that changed.
LEMMA SendMakes ==
    ASSUME OpeningTypeOK, NEW p \in Seats, NEW r \in OpeningRequests, Send(p, r)
    PROVE  /\ conn[p].at = "idle" /\ conn' \in [Seats -> Threads]
           /\ conn'[p].at = "sent" /\ conn'[p].req = r
           /\ \A q \in Seats : q # p => conn'[q] = conn[q]
<1>1. conn \in [Seats -> Threads]
    BY DEF OpeningTypeOK, Threads
<1>. DEFINE c == [Idle EXCEPT !.at = "sent", !.req = r]
<1>2. c \in Threads /\ c.at = "sent" /\ c.req = r
    BY DEF Idle, Threads
<1>3. conn[p].at = "idle" /\ conn' = [conn EXCEPT ![p] = c]
    BY DEF Send
<1>. HIDE DEF c
<1>. QED
    BY <1>1, <1>2, <1>3

LEMMA DoneMakes ==
    ASSUME OpeningTypeOK, NEW p \in Seats, Done(p)
    PROVE  /\ conn' \in [Seats -> Threads] /\ conn'[p].at = "idle"
           /\ \A q \in Seats : q # p => conn'[q] = conn[q]
<1>1. conn \in [Seats -> Threads]
    BY DEF OpeningTypeOK, Threads
<1>2. conn' = [conn EXCEPT ![p] = Idle]
    BY DEF Done
<1>. QED
    BY <1>1, <1>2, IdleIsThread

\* The choice of play or draw is sent by the winner of the coin flip.
LEMMA ChooseIsOrderly ==
    ASSUME OpeningAssumption, NoPortAssumption, Patient, Orderly,
           NEW p \in Seats, NEW r \in {"play", "draw"}, Choose(p, r)
    PROVE  Orderly'
<1>1. client[p].dialog = "pick" /\ r \in OpeningRequests /\ Send(p, r)
    BY DEF Choose, MayAnswer, OpeningRequests
<1>2. OpeningTypeOK /\ UNCHANGED <<durable, live, port, client, hand, accepted, wish>>
    BY DEF Choose, Orderly
<1>3. AtPick /\ p = Winner
    BY <1>1 DEF Orderly, AtPick, AtMulligan, AtPlay
<1>4. /\ conn[p].at = "idle" /\ conn' \in [Seats -> Threads]
      /\ conn'[p].at = "sent" /\ conn'[p].req = r
      /\ \A q \in Seats : q # p => conn'[q] = conn[q]
    BY <1>1, <1>2, SendMakes
<1>5. OpeningTypeOK'
    BY <1>2, <1>4 DEF OpeningTypeOK, Threads
<1>6. AtPick'
    BY <1>2, <1>3, <1>4 DEF AtPick
<1>. QED
    BY <1>5, <1>6 DEF Orderly

\* Only the player the checkpoint asks answers for his hand.
LEMMA AnswerIsOrderly ==
    ASSUME OpeningAssumption, NoPortAssumption, Patient, Orderly,
           NEW p \in Seats, NEW r \in {"keep", "redraw"}, AnswerHand(p, r)
    PROVE  Orderly'
<1>1. /\ client[p].dialog = "hand" /\ client[p].light
      /\ r \in OpeningRequests /\ Send(p, r)
    BY DEF AnswerHand, MayAnswer, OpeningRequests, Patient
<1>2. /\ OpeningTypeOK /\ UNCHANGED <<durable, live, port, hand, accepted, wish>>
      /\ client' = [client EXCEPT ![p].again = r = "keep"]
    BY DEF AnswerHand, Orderly
<1>3. AtMulligan /\ p = durable.asked
    BY <1>1, OtherSeat DEF Orderly, AtPick, AtMulligan, AtPlay
<1>4. /\ conn[p].at = "idle" /\ conn' \in [Seats -> Threads]
      /\ conn'[p].at = "sent" /\ conn'[p].req = r
      /\ \A q \in Seats : q # p => conn'[q] = conn[q]
    BY <1>1, <1>2, SendMakes
<1>5. /\ client' \in [Seats -> Views]
      /\ \A q \in Seats : /\ client'[q].dialog = client[q].dialog
                          /\ client'[q].light = client[q].light
                          /\ q # p => client'[q].again = client[q].again
      /\ client'[p].again <=> r = "keep"
    BY <1>2 DEF OpeningTypeOK, Views
<1>6. OpeningTypeOK'
    BY <1>2, <1>4, <1>5 DEF OpeningTypeOK, Threads, Views
<1>7. \A q \in Seats : MulliganThread(q)'
    BY <1>2, <1>3, <1>4 DEF AtMulligan, MulliganThread
<1>8. AtMulligan'
    BY <1>2, <1>3, <1>4, <1>5, <1>7 DEF AtMulligan
<1>. QED
    BY <1>6, <1>8 DEF Orderly

\* A keep is sent again only by a player whose first one was served.
LEMMA AgainIsOrderly ==
    ASSUME OpeningAssumption, NoPortAssumption, Patient, Orderly,
           NEW p \in Seats, KeepAgain(p)
    PROVE  Orderly'
<1>1. client[p].again /\ "keep" \in OpeningRequests /\ Send(p, "keep")
    BY DEF KeepAgain, OpeningRequests
<1>2. /\ OpeningTypeOK /\ UNCHANGED <<durable, live, port, hand, accepted, wish>>
      /\ client' = [client EXCEPT ![p].again = FALSE]
    BY DEF KeepAgain, Orderly
<1>4. /\ conn[p].at = "idle" /\ conn' \in [Seats -> Threads]
      /\ conn'[p].at = "sent" /\ conn'[p].req = "keep"
      /\ \A q \in Seats : q # p => conn'[q] = conn[q]
    BY <1>1, <1>2, SendMakes
<1>5. /\ client' \in [Seats -> Views]
      /\ \A q \in Seats : /\ client'[q].dialog = client[q].dialog
                          /\ client'[q].light = client[q].light
                          /\ q # p => client'[q].again = client[q].again
      /\ ~client'[p].again
    BY <1>2 DEF OpeningTypeOK, Views
<1>6. OpeningTypeOK'
    BY <1>2, <1>4, <1>5 DEF OpeningTypeOK, Threads, Views
<1>7. CASE AtMulligan
    <2>1. p \in durable.kept
        BY <1>1, <1>4, <1>7 DEF AtMulligan
    <2>2. \A q \in Seats : MulliganThread(q)'
        BY <1>2, <1>4, <1>7, <2>1 DEF AtMulligan, MulliganThread
    <2>3. AtMulligan'
        BY <1>2, <1>4, <1>5, <1>7, <2>1, <2>2 DEF AtMulligan
    <2>. QED
        BY <1>6, <2>3 DEF Orderly
<1>8. CASE AtPlay
    <2>1. \A q \in Seats : PlayThread(q)'
        BY <1>4, <1>8 DEF AtPlay, PlayThread
    <2>2. AtPlay'
        BY <1>2, <1>5, <1>8, <2>1 DEF AtPlay
    <2>. QED
        BY <1>6, <2>2 DEF Orderly
<1>. QED
    BY <1>1, <1>7, <1>8 DEF Orderly, AtPick

\* Other requests are sent once the first turn runs.
LEMMA OtherIsOrderly ==
    ASSUME OpeningAssumption, NoPortAssumption, Patient, Orderly,
           NEW p \in Seats, NEW r \in {"sync", "stops"}, SendOther(p, r)
    PROVE  Orderly'
<1>1. /\ durable.phase = "Playing" /\ client[p].left > 0
      /\ r \in OpeningRequests /\ Send(p, r)
    BY DEF SendOther, Patient, OpeningRequests
<1>2. /\ OpeningTypeOK /\ UNCHANGED <<durable, live, port, hand, accepted>>
      /\ client' = [client EXCEPT ![p].left = @ - 1]
      /\ wish' \subseteq Seats
    BY DEF SendOther, Orderly, OpeningTypeOK
<1>3. AtPlay
    BY <1>1 DEF Orderly, AtPick, AtMulligan
<1>4. /\ conn[p].at = "idle" /\ conn' \in [Seats -> Threads]
      /\ conn'[p].at = "sent" /\ conn'[p].req = r
      /\ \A q \in Seats : q # p => conn'[q] = conn[q]
    BY <1>1, <1>2, SendMakes
<1>5. /\ client' \in [Seats -> Views]
      /\ \A q \in Seats : client'[q].dialog = client[q].dialog
    <2>1. client[p].left - 1 \in 0 .. MaxOther
        BY <1>1, <1>2 DEF OpeningTypeOK, OpeningAssumption
    <2>2. client \in [Seats -> Views]
        BY <1>2 DEF OpeningTypeOK, Views
    <2>3. client' = [client EXCEPT ![p] = [client[p] EXCEPT !.left = @ - 1]]
        BY <1>2, <2>2
    <2>4. [client[p] EXCEPT !.left = @ - 1] \in Views
        BY <2>1, <2>2 DEF Views
    <2>. QED
        BY <2>2, <2>3, <2>4
<1>6. OpeningTypeOK'
    BY <1>2, <1>4, <1>5 DEF OpeningTypeOK, Threads, Views
<1>7. \A q \in Seats : PlayThread(q)'
    BY <1>3, <1>4 DEF AtPlay, PlayThread
<1>8. AtPlay'
    BY <1>2, <1>3, <1>5, <1>7 DEF AtPlay
<1>. QED
    BY <1>6, <1>8 DEF Orderly

LEMMA LoadIsOrderly ==
    ASSUME OpeningAssumption, NoPortAssumption, Patient, Orderly,
           NEW p \in Seats, Load(p)
    PROVE  Orderly'
<1>1. /\ OpeningTypeOK /\ UNCHANGED <<durable, live, port, client, hand, accepted, wish>>
      /\ conn[p].at = "sent"
    BY DEF Load, Orderly
<1>2. conn' = [conn EXCEPT ![p] = [conn[p] EXCEPT !.at = "loaded", !.copy = durable]]
    BY <1>1 DEF Load, OpeningTypeOK
<1>3. [conn[p] EXCEPT !.at = "loaded", !.copy = durable] \in Threads
    BY <1>1 DEF OpeningTypeOK, Threads
<1>4. /\ conn' \in [Seats -> Threads]
      /\ conn'[p].at = "loaded" /\ conn'[p].copy = durable /\ conn'[p].req = conn[p].req
      /\ \A q \in Seats : q # p => conn'[q] = conn[q]
    BY <1>1, <1>2, <1>3 DEF OpeningTypeOK, Threads
<1>5. OpeningTypeOK'
    BY <1>1, <1>4 DEF OpeningTypeOK, Threads
<1>6. CASE AtPick
    <2>1. AtPick'
        BY <1>1, <1>4, <1>6 DEF AtPick
    <2>. QED
        BY <1>5, <2>1 DEF Orderly
<1>7. CASE AtMulligan
    <2>1. \A q \in Seats : MulliganThread(q)'
        BY <1>1, <1>4, <1>7 DEF AtMulligan, MulliganThread
    <2>2. AtMulligan'
        BY <1>1, <1>4, <1>7, <2>1 DEF AtMulligan
    <2>. QED
        BY <1>5, <2>2 DEF Orderly
<1>8. CASE AtPlay
    <2>1. \A q \in Seats : PlayThread(q)'
        BY <1>1, <1>4, <1>8 DEF AtPlay, PlayThread
    <2>2. AtPlay'
        BY <1>1, <1>8, <2>1 DEF AtPlay
    <2>. QED
        BY <1>5, <2>2 DEF Orderly
<1>. QED
    BY <1>6, <1>7, <1>8 DEF Orderly

\* What a handler shows to both clients.
LEMMA ShowMakes ==
    ASSUME OpeningTypeOK, NEW d, NEW owner, Show(d, owner),
           \A q \in Seats : d[q] \in {"none", "pick", "hand"}
    PROVE  /\ client' \in [Seats -> Views]
           /\ \A q \in Seats : /\ client'[q].dialog = d[q]
                               /\ client'[q].light <=> q = owner
                               /\ client'[q].again = client[q].again
<1>1. client \in [Seats -> Views]
    BY DEF OpeningTypeOK, Views
<1>2. client' = [q \in Seats |-> [client[q] EXCEPT !.dialog = d[q], !.light = q = owner]]
    BY DEF Show
<1>3. ASSUME NEW q \in Seats
      PROVE  /\ client'[q] \in Views
             /\ client'[q].dialog = d[q]
             /\ client'[q].light <=> q = owner
             /\ client'[q].again = client[q].again
    <2>1. client'[q] = [client[q] EXCEPT !.dialog = d[q], !.light = q = owner]
        BY <1>2
    <2>2. client[q] \in Views
        BY <1>1
    <2>. QED
        BY <2>1, <2>2 DEF Views
<1>. QED
    BY <1>2, <1>3

\* The pick deals both hands and asks the winner for the first keep.
LEMMA PickIsOrderly ==
    ASSUME OpeningAssumption, NoPortAssumption, Patient, Orderly,
           NEW p \in Seats, NEW r \in {"play", "draw"}, PickStep(p, r)
    PROVE  Orderly'
<1>1. conn[p].at = "loaded" /\ conn[p].req = r /\ OpeningTypeOK
    BY DEF PickStep, Serving, Orderly
<1>2. AtPick /\ p = Winner /\ conn[p].copy = durable
    <2>1. ~AtMulligan
        BY <1>1 DEF AtMulligan, MulliganThread
    <2>2. ~AtPlay
        BY <1>1 DEF AtPlay, PlayThread
    <2>3. AtPick
        BY <2>1, <2>2 DEF Orderly
    <2>. QED
        BY <1>1, <2>3 DEF AtPick
<1>. DEFINE e == [durable EXCEPT !.phase = "Mulligan", !.picked = TRUE,
                    !.turn = IF r = "play" THEN p ELSE Opponent(p), !.asked = p]
<1>3. ~durable.picked
    BY <1>2 DEF AtPick
<1>4. /\ durable' = e /\ hand' = [q \in Seats |-> hand[q] + HandSize]
      /\ Show([q \in Seats |-> "hand"], p)
      /\ Done(p) /\ UNCHANGED <<live, port, accepted, wish>>
    BY <1>2, <1>3 DEF PickStep
<1>5. e \in States /\ e.kept = durable.kept /\ e.phase = "Mulligan" /\ e.picked /\ e.asked = p
    BY <1>1, OtherSeat DEF OpeningTypeOK, States, Phases
<1>. HIDE DEF e
<1>6. /\ conn' \in [Seats -> Threads] /\ conn'[p].at = "idle"
      /\ \A q \in Seats : q # p => conn'[q] = conn[q]
    BY <1>1, <1>4, DoneMakes
<1>7. /\ client' \in [Seats -> Views]
      /\ \A q \in Seats : /\ client'[q].dialog = "hand"
                          /\ client'[q].light <=> q = p
                          /\ client'[q].again = client[q].again
    <2>. DEFINE d == [q \in Seats |-> "hand"]
    <2>1. \A q \in Seats : d[q] = "hand"
        OBVIOUS
    <2>2. Show(d, p)
        BY <1>4
    <2>. HIDE DEF d
    <2>. QED
        BY <1>1, <2>1, <2>2, ShowMakes
<1>8. \A q \in Seats : hand'[q] = HandSize
    BY <1>2, <1>4 DEF AtPick, OpeningAssumption
<1>9. hand' \in [Seats -> 0 .. HandSize]
    BY <1>4, <1>8 DEF OpeningAssumption
<1>10. OpeningTypeOK'
    BY <1>1, <1>4, <1>5, <1>6, <1>7, <1>9 DEF OpeningTypeOK, Threads, Views
<1>11. \A q \in Seats : conn'[q].at = "idle"
    BY <1>2, <1>6 DEF AtPick
<1>12. \A q \in Seats : MulliganThread(q)'
    BY <1>11 DEF MulliganThread
<1>13. durable'.kept = {} /\ accepted' = {} /\ port' = Unset
    BY <1>2, <1>4, <1>5 DEF AtPick
<1>14. \A q \in Seats : ~client'[q].again /\ hand'[q] > 0
    BY <1>2, <1>7, <1>8 DEF AtPick, OpeningAssumption
<1>15. AtMulligan'
    BY <1>4, <1>5, <1>7, <1>12, <1>13, <1>14 DEF AtMulligan
<1>. QED
    BY <1>10, <1>15 DEF Orderly

\* A prompt asks whoever has not kept, the opponent first.
LEMMA PromptIsOrderly ==
    ASSUME OpeningAssumption, NoPortAssumption, Orderly, AtMulligan,
           NEW p \in Seats, p = durable.asked, Done(p),
           NEW d \in States, NEW dialogs,
           d.phase = "Mulligan", d.picked, d.kept = durable.kept \/ d.kept = durable.kept \cup {p},
           d.kept # Seats, accepted' = d.kept,
           \A q \in Seats : dialogs[q] = IF q \in d.kept THEN "none" ELSE "hand",
           conn[p].req = "keep" => p \in d.kept,
           conn[p].at # "idle",
           Prompt(d, p, dialogs),
           hand' \in [Seats -> 1 .. HandSize], wish' = wish
    PROVE  Orderly'
<1>. DEFINE n == NextAsked(d, p)
            r == [d EXCEPT !.asked = n, !.prio = n]
<1>1. durable' = r /\ Show(dialogs, n) /\ live' = live /\ port' = port /\ OpeningTypeOK
    BY DEF Prompt, Orderly
<1>2. d.kept \subseteq Seats /\ p \notin durable.kept
    BY DEF States, AtMulligan
<1>3. n \in Seats \ d.kept
    <2>1. CASE Opponent(p) \notin d.kept
        BY <2>1, OtherSeat DEF NextAsked
    <2>2. CASE Opponent(p) \in d.kept
        <3>1. n = p
            BY <2>2 DEF NextAsked
        <3>2. p \notin d.kept
            BY <1>2, <2>2, OtherSeat
        <3>. QED
            BY <3>1, <3>2
    <2>. QED
        BY <2>1, <2>2
<1>. HIDE DEF n
<1>4. r \in States /\ r.kept = d.kept /\ r.phase = d.phase /\ r.picked = d.picked /\ r.asked = n
    BY <1>3 DEF States
<1>. HIDE DEF r
<1>5. /\ conn' \in [Seats -> Threads] /\ conn'[p].at = "idle"
      /\ \A q \in Seats : q # p => conn'[q] = conn[q]
    BY <1>1, DoneMakes
<1>6. /\ client' \in [Seats -> Views]
      /\ \A q \in Seats : /\ client'[q].dialog = dialogs[q]
                          /\ client'[q].light <=> q = n
                          /\ client'[q].again = client[q].again
    BY <1>1, ShowMakes
<1>7. OpeningTypeOK'
    <2>1. /\ hand' \in [Seats -> 0 .. HandSize] /\ accepted' \subseteq Seats
        BY <1>2 DEF OpeningAssumption
    <2>. QED
        BY <1>1, <1>4, <1>5, <1>6, <2>1 DEF OpeningTypeOK, Threads, Views
<1>8. ASSUME NEW q \in Seats
      PROVE  /\ MulliganThread(q)'
             /\ client'[q].again => q \in d.kept \/ (conn'[q].at # "idle" /\ conn'[q].req = "keep")
    <2>1. CASE q = p
        BY <1>2, <1>5, <1>6, <2>1 DEF MulliganThread, AtMulligan
    <2>2. CASE q # p
        BY <1>1, <1>4, <1>5, <1>6, <2>2 DEF MulliganThread, AtMulligan
    <2>. QED
        BY <2>1, <2>2
<1>9. port' = Unset /\ \A q \in Seats : hand'[q] > 0
    BY <1>1 DEF AtMulligan, OpeningAssumption
<1>10. AtMulligan'
    BY <1>1, <1>3, <1>4, <1>6, <1>8, <1>9 DEF AtMulligan
<1>. QED
    BY <1>7, <1>10 DEF Orderly

\* With both hands kept and no port yet, the first turn starts at once: the
\* port is built from a checkpoint in which nobody has priority.
LEMMA StartTurnIsOrderly ==
    ASSUME OpeningAssumption, NoPortAssumption, Orderly, AtMulligan,
           NEW p \in Seats, p = durable.asked, Done(p),
           NEW d \in States, NEW dialogs,
           d.kept = Seats, d.kept \subseteq durable.kept \cup {p}, accepted' = Seats,
           StartTurn(d, dialogs), hand' = hand, wish' = wish
    PROVE  Orderly'
<1>1. OpeningTypeOK /\ port = Unset
    BY DEF Orderly, AtMulligan
<1>. DEFINE s == [d EXCEPT !.phase = "Mulligan", !.prio = Unset, !.asked = Unset]
            on == [s EXCEPT !.phase = "Playing", !.prio = s.turn]
            np == [BuiltFrom(s) EXCEPT !.phase = "Playing", !.window = TRUE,
                                       !.prio = s.turn]
            d0 == [q \in Seats |-> "none"]
<1>2. /\ s \in States /\ s.phase = "Mulligan" /\ s.prio = Unset
      /\ s.kept = Seats /\ s.turn \in Seats
    BY DEF States, Phases
<1>3. /\ BuiltFrom(s) \in PortStates /\ BuiltFrom(s).phase = "Mulligan"
      /\ ~BuiltFrom(s).window /\ BuiltFrom(s).turn = s.turn
    <2>. HIDE DEF s
    <2>. QED
        BY <1>2 DEF BuiltFrom, PortStates, States
<1>4. durable' = on /\ live' = on /\ port' = np /\ Show(d0, s.turn)
    BY <1>1, <1>2, <1>3 DEF StartTurn
<1>. HIDE DEF s
<1>5. on \in States /\ on.phase = "Playing" /\ on.kept = Seats /\ on.prio = s.turn /\ on.turn = s.turn
    BY <1>2 DEF States, Phases
<1>6. np \in PortStates /\ np.phase = "Playing" /\ np.prio = s.turn /\ np.turn = s.turn
    <2>. DEFINE b == BuiltFrom(s)
    <2>1. b \in PortStates /\ b.turn = s.turn
        BY <1>3
    <2>2. np = [b EXCEPT !.phase = "Playing", !.window = TRUE, !.prio = s.turn]
        OBVIOUS
    <2>. HIDE DEF b, np
    <2>. QED
        BY <1>2, <2>1, <2>2 DEF PortStates, Phases
<1>7. \A q \in Seats : d0[q] = "none"
    OBVIOUS
<1>. HIDE DEF on, np, d0
<1>8. /\ conn' \in [Seats -> Threads] /\ conn'[p].at = "idle"
      /\ \A q \in Seats : q # p => conn'[q] = conn[q]
    BY <1>1, DoneMakes
<1>9. /\ client' \in [Seats -> Views]
      /\ \A q \in Seats : client'[q].dialog = "none"
    BY <1>1, <1>4, <1>7, ShowMakes
<1>10. OpeningTypeOK'
    BY <1>1, <1>4, <1>5, <1>6, <1>8, <1>9
    DEF OpeningTypeOK, Threads, Views, NoPortAssumption
<1>11. \A q \in Seats : PlayThread(q)'
    <2>1. ASSUME NEW q \in Seats, q # p PROVE PlayThread(q)'
        BY <1>8, <2>1 DEF AtMulligan, MulliganThread, PlayThread
    <2>. QED
        BY <1>8, <2>1 DEF PlayThread
<1>12. AtPlay'
    BY <1>4, <1>5, <1>6, <1>9, <1>11 DEF AtPlay, NoPortAssumption
<1>. QED
    BY <1>10, <1>12 DEF Orderly

\* A keep or a redraw that a thread serves while the hands are chosen is the
\* asked player's, on the row's own checkpoint, or a keep sent again.
LEMMA ServedAtMulligan ==
    ASSUME Orderly, NEW p \in Seats, conn[p].at = "loaded",
           conn[p].req \in {"keep", "redraw"}
    PROVE  \/ AtMulligan /\ p = durable.asked /\ conn[p].copy = durable
           \/ /\ AtMulligan \/ AtPlay
              /\ conn[p].req = "keep" /\ AlreadyKept(conn[p].copy, p)
<1>1. CASE AtPick
    BY <1>1 DEF AtPick
<1>2. CASE AtMulligan
    BY <1>2 DEF AtMulligan, MulliganThread, AlreadyKept
<1>3. CASE AtPlay
    BY <1>3 DEF AtPlay, PlayThread, AlreadyKept
<1>. QED
    BY <1>1, <1>2, <1>3 DEF Orderly

\* A request that leaves everything as it was only frees its thread.
LEMMA NothingDoneIsOrderly ==
    ASSUME Orderly, AtMulligan \/ AtPlay, NEW p \in Seats, Done(p),
           ~(AtMulligan /\ p = durable.asked /\ conn[p].copy = durable /\ conn[p].at = "loaded"),
           conn[p].at = "loaded", conn[p].req = "keep",
           UNCHANGED <<durable, live, port, client, hand, accepted, wish>>
    PROVE  Orderly'
<1>1. OpeningTypeOK
    BY DEF Orderly
<1>2. /\ conn' \in [Seats -> Threads] /\ conn'[p].at = "idle"
      /\ \A q \in Seats : q # p => conn'[q] = conn[q]
    BY <1>1, DoneMakes
<1>3. OpeningTypeOK'
    BY <1>1, <1>2 DEF OpeningTypeOK, Threads
<1>4. CASE AtMulligan
    <2>1. p \in durable.kept
        BY <1>4 DEF AtMulligan, MulliganThread
    <2>2. \A q \in Seats : MulliganThread(q)'
        BY <1>2, <1>4 DEF AtMulligan, MulliganThread
    <2>3. AtMulligan'
        BY <1>2, <1>4, <2>1, <2>2 DEF AtMulligan
    <2>. QED
        BY <1>3, <2>3 DEF Orderly
<1>5. CASE AtPlay
    <2>1. \A q \in Seats : PlayThread(q)'
        BY <1>2, <1>5 DEF AtPlay, PlayThread
    <2>2. AtPlay'
        BY <1>5, <2>1 DEF AtPlay
    <2>. QED
        BY <1>3, <2>2 DEF Orderly
<1>. QED
    BY <1>4, <1>5

LEMMA KeepIsOrderly ==
    ASSUME OpeningAssumption, NoPortAssumption, Patient, Orderly,
           NEW p \in Seats, KeepStep(p)
    PROVE  Orderly'
<1>. DEFINE d == conn[p].copy
            e == [d EXCEPT !.kept = @ \cup {p}]
            dialogs == [Dialogs EXCEPT ![p] = "none"]
<1>1. /\ conn[p].at = "loaded" /\ conn[p].req = "keep" /\ Done(p)
      /\ OpeningTypeOK /\ hand' = hand /\ wish' = wish
    BY DEF KeepStep, Serving, Orderly
<1>2. \/ AtMulligan /\ p = durable.asked /\ d = durable
      \/ (AtMulligan \/ AtPlay) /\ AlreadyKept(d, p)
    BY <1>1, ServedAtMulligan
<1>3. CASE AlreadyKept(d, p)
    <2>1. UNCHANGED <<durable, live, port, client, accepted>>
        BY <1>3 DEF KeepStep
    <2>2. ~(AtMulligan /\ p = durable.asked /\ d = durable)
        BY <1>3 DEF AtMulligan, AlreadyKept
    <2>. QED
        BY <1>1, <1>2, <2>1, <2>2, NothingDoneIsOrderly
<1>4. CASE ~AlreadyKept(d, p)
    <2>1. AtMulligan /\ p = durable.asked /\ d = durable
        BY <1>2, <1>4
    <2>2. accepted' = accepted \cup {p} /\ MulliganNext(e, p, dialogs)
        BY <1>4 DEF KeepStep
    <2>3. /\ e \in States /\ e.kept = durable.kept \cup {p} /\ e.phase = "Mulligan" /\ e.picked
          /\ e.kept \subseteq Seats
        BY <1>1, <2>1 DEF OpeningTypeOK, AtMulligan, States
    <2>4. accepted' = e.kept
        BY <2>1, <2>2, <2>3 DEF AtMulligan
    <2>5. \A q \in Seats : dialogs[q] = IF q \in e.kept THEN "none" ELSE "hand"
        BY <2>1, <2>3 DEF AtMulligan, Dialogs
    <2>6. hand' \in [Seats -> 1 .. HandSize]
        BY <1>1, <2>1 DEF OpeningTypeOK, AtMulligan, OpeningAssumption
    <2>. HIDE DEF d, e, dialogs
    <2>7. CASE e.kept = Seats
        <3>1. StartTurn(e, dialogs)
            BY <2>2, <2>3, <2>7, BothKeptIsAll DEF MulliganNext
        <3>. QED
            BY <1>1, <2>1, <2>3, <2>4, <2>7, <3>1, StartTurnIsOrderly
    <2>8. CASE e.kept # Seats
        <3>1. Prompt(e, p, dialogs)
            BY <2>2, <2>3, <2>8, BothKeptIsAll DEF MulliganNext
        <3>2. p \in e.kept /\ conn[p].at # "idle"
            BY <1>1, <2>3
        <3>. QED
            BY <1>1, <2>1, <2>3, <2>4, <2>5, <2>6, <2>8, <3>1, <3>2, PromptIsOrderly
    <2>. QED
        BY <2>7, <2>8
<1>. QED
    BY <1>3, <1>4

LEMMA RedrawIsOrderly ==
    ASSUME OpeningAssumption, NoPortAssumption, Patient, Orderly,
           NEW p \in Seats, RedrawStep(p)
    PROVE  Orderly'
<1>1. /\ conn[p].at = "loaded" /\ conn[p].req = "redraw" /\ Done(p)
      /\ OpeningTypeOK /\ accepted' = accepted /\ wish' = wish
      /\ hand' = [hand EXCEPT ![p] = Redrawn(@)]
    BY DEF RedrawStep, Serving, Orderly
<1>2. AtMulligan /\ p = durable.asked /\ conn[p].copy = durable
    BY <1>1, ServedAtMulligan
<1>3. MulliganNext(durable, p, Dialogs)
    BY <1>2 DEF RedrawStep
<1>4. /\ durable \in States /\ durable.phase = "Mulligan" /\ durable.picked
      /\ p \notin durable.kept /\ durable.kept \subseteq Seats /\ durable.kept # Seats
      /\ accepted' = durable.kept
    BY <1>1, <1>2 DEF OpeningTypeOK, AtMulligan, States
<1>5. Prompt(durable, p, Dialogs)
    BY <1>3, <1>4, BothKeptIsAll DEF MulliganNext
<1>6. \A q \in Seats : Dialogs[q] = IF q \in durable.kept THEN "none" ELSE "hand"
    BY <1>2 DEF AtMulligan, Dialogs
<1>7. hand' \in [Seats -> 1 .. HandSize]
    <2>1. hand \in [Seats -> 1 .. HandSize]
        BY <1>1, <1>2 DEF OpeningTypeOK, AtMulligan, OpeningAssumption
    <2>2. Redrawn(hand[p]) \in 1 .. HandSize
        BY <2>1 DEF Redrawn, OpeningAssumption
    <2>. QED
        BY <1>1, <2>1, <2>2
<1>8. conn[p].at # "idle" /\ conn[p].req # "keep"
    BY <1>1
<1>. QED
    BY <1>1, <1>2, <1>4, <1>5, <1>6, <1>7, <1>8, PromptIsOrderly

\* Other requests find the port, and write back what it says.
LEMMA AttachIsOrderly ==
    ASSUME OpeningAssumption, NoPortAssumption, Patient, Orderly,
           NEW p \in Seats, AttachStep(p)
    PROVE  Orderly'
<1>1. /\ conn[p].at = "loaded" /\ conn[p].req \in {"sync", "stops"} /\ OpeningTypeOK
      /\ UNCHANGED <<client, hand, accepted, wish>>
    BY DEF AttachStep, Orderly
<1>2. AtPlay
    BY <1>1 DEF Orderly, AtPick, AtMulligan, MulliganThread
<1>3. live' = Projected(live) /\ UNCHANGED <<durable, port>>
    BY <1>2 DEF AttachStep, AtPlay
<1>4. live' = live
    <2>1. ASSUME NEW d \in States
          PROVE  [d EXCEPT !.phase = d.phase, !.turn = d.turn, !.prio = d.prio] = d
        BY DEF States
    <2>2. /\ live \in States /\ port.phase = live.phase
          /\ port.turn = live.turn /\ port.prio = live.prio
        BY <1>1, <1>2 DEF AtPlay, OpeningTypeOK
    <2>3. Projected(live)
            = [live EXCEPT !.phase = live.phase, !.turn = live.turn, !.prio = live.prio]
        BY <2>2 DEF Projected
    <2>. QED
        BY <1>3, <2>1, <2>2, <2>3
<1>5. /\ conn' \in [Seats -> Threads] /\ conn'[p].req = conn[p].req
      /\ \A q \in Seats : q # p => conn'[q] = conn[q]
    <2>1. conn \in [Seats -> Threads]
        BY <1>1 DEF OpeningTypeOK, Threads
    <2>2. conn' = [conn EXCEPT ![p] = [conn[p] EXCEPT !.at = "attached", !.copy = Unset]]
        BY <2>1 DEF AttachStep
    <2>3. /\ [conn[p] EXCEPT !.at = "attached", !.copy = Unset] \in Threads
          /\ [conn[p] EXCEPT !.at = "attached", !.copy = Unset].req = conn[p].req
        BY <2>1 DEF Threads
    <2>. QED
        BY <2>1, <2>2, <2>3
<1>6. OpeningTypeOK'
    BY <1>1, <1>3, <1>4, <1>5 DEF OpeningTypeOK, Threads
<1>7. \A q \in Seats : PlayThread(q)'
    BY <1>1, <1>2, <1>5 DEF AtPlay, PlayThread
<1>8. AtPlay'
    BY <1>1, <1>2, <1>3, <1>4, <1>7 DEF AtPlay
<1>. QED
    BY <1>6, <1>8 DEF Orderly

LEMMA DispatchIsOrderly ==
    ASSUME OpeningAssumption, NoPortAssumption, Patient, Orderly,
           NEW p \in Seats, DispatchStep(p)
    PROVE  Orderly'
<1>1. /\ conn[p].at = "attached" /\ Done(p) /\ OpeningTypeOK
      /\ UNCHANGED <<client, hand, accepted, wish>>
      /\ durable' = Stored(p) /\ live' = Stored(p)
      /\ port' = [phase |-> live.phase, turn |-> live.turn, prio |-> live.prio,
                  window |-> port.window \/ live.prio # Unset]
    BY DEF DispatchStep, Orderly
<1>2. AtPlay
    BY <1>1 DEF Orderly, AtPick, AtMulligan, MulliganThread
<1>3. live \in States /\ port \in PortStates
    BY <1>1, <1>2 DEF OpeningTypeOK, AtPlay
<1>4. /\ Stored(p) \in States
      /\ Stored(p).kept = live.kept /\ Stored(p).phase = live.phase
      /\ Stored(p).turn = live.turn /\ Stored(p).prio = live.prio
    BY <1>3, OtherSeat DEF Stored, StopsKey, States
<1>5. /\ port' \in PortStates /\ port'.phase = live.phase
      /\ port'.turn = live.turn /\ port'.prio = live.prio
    BY <1>1, <1>3 DEF States, PortStates
<1>6. /\ conn' \in [Seats -> Threads] /\ conn'[p].at = "idle"
      /\ \A q \in Seats : q # p => conn'[q] = conn[q]
    BY <1>1, DoneMakes
<1>7. OpeningTypeOK'
    BY <1>1, <1>4, <1>5, <1>6 DEF OpeningTypeOK, Threads, NoPortAssumption
<1>8. \A q \in Seats : PlayThread(q)'
    BY <1>2, <1>6 DEF AtPlay, PlayThread
<1>9. AtPlay'
    BY <1>1, <1>2, <1>4, <1>5, <1>8 DEF AtPlay, NoPortAssumption
<1>. QED
    BY <1>7, <1>9 DEF Orderly

LEMMA StepIsOrderly ==
    ASSUME OpeningAssumption, NoPortAssumption, Patient, Orderly, [OpeningNext]_openVars
    PROVE  Orderly'
<1>1. CASE UNCHANGED openVars
    BY <1>1 DEF openVars, Orderly, OpeningTypeOK, AtPick, AtMulligan, AtPlay,
                MulliganThread, PlayThread
<1>2. ASSUME NEW p \in Seats, ServeOpening(p) PROVE Orderly'
    BY <1>2, LoadIsOrderly, PickIsOrderly, KeepIsOrderly, RedrawIsOrderly,
       AttachIsOrderly, DispatchIsOrderly DEF ServeOpening
<1>3. ASSUME NEW p \in Seats, Answer(p) PROVE Orderly'
    BY <1>3, ChooseIsOrderly, AnswerIsOrderly DEF Answer
<1>4. ASSUME NEW p \in Seats, KeepAgain(p) PROVE Orderly'
    BY <1>4, AgainIsOrderly
<1>5. ASSUME NEW p \in Seats, NEW r \in {"sync", "stops"}, SendOther(p, r) PROVE Orderly'
    BY <1>5, OtherIsOrderly
<1>. QED
    BY <1>1, <1>2, <1>3, <1>4, <1>5 DEF OpeningNext

\* For clients that wait for the green light and send nothing else before the
\* first turn, the opening is in order: no keep is lost to an older
\* checkpoint, one player is asked at a time, and row, port and scheduler
\* start the first turn together and stay together.  An eager client, or a
\* phase stop set during the mulligan, can roll the checkpoint back.
THEOREM OpeningStaysOrderly ==
    ASSUME Patient PROVE OpeningSpec => []OpeningIsOrderly
<1>0. OpeningAssumption /\ NoPortAssumption
    BY OpeningConstants
<1>1. OpeningInit => Orderly
    BY <1>0, StartsOrderly
<1>2. Orderly /\ [OpeningNext]_openVars => Orderly'
    BY <1>0, StepIsOrderly
<1>3. Orderly => OpeningIsOrderly
    <2>1. AtPick => KeepsStand /\ StartNeedsBoth /\ OneDecides /\ OneCheckpoint
        BY DEF AtPick, KeepsStand, StartNeedsBoth, OneDecides, OneCheckpoint
    <2>2. AtMulligan => KeepsStand /\ StartNeedsBoth /\ OneDecides /\ OneCheckpoint
        BY DEF AtMulligan, KeepsStand, StartNeedsBoth, OneDecides, OneCheckpoint
    <2>3. AtPlay => KeepsStand /\ StartNeedsBoth /\ OneDecides /\ OneCheckpoint
        BY DEF AtPlay, KeepsStand, StartNeedsBoth, OneDecides, OneCheckpoint
    <2>. QED
        BY <2>1, <2>2, <2>3 DEF Orderly, OpeningIsOrderly
<1>. QED
    BY <1>1, <1>2, <1>3, PTL DEF OpeningSpec
===============================================================================
