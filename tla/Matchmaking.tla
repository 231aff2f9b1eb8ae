----------------------------- MODULE Matchmaking -----------------------------
(***************************************************************************)
(* The matchmaking service (services/matchmaking.py): a queue per ladder    *)
(* that pairs searching players, and direct challenges that wait for their  *)
(* answer in a table.  The entries hold handlers, which outlive their       *)
(* connections.                                                             *)
(***************************************************************************)
EXTENDS Clients, Sequences, SequencesExt

CONSTANTS
    Ladders,
    Matches,        \* match ids: one per challenge of a behaviour
    MaxSearches     \* bound on the search requests of a behaviour

ASSUME MatchmakingAssumption == IsFiniteSet(Matches) /\ MaxSearches \in Nat

VARIABLES
    queue,      \* ladder -> waiting connections
    pending,    \* match id -> its challenge, or NoChallenge
    job,        \* connection -> what its thread has left of a challenge
    asked,      \* match id -> the challenge as it was made, or NoChallenge
    sessions,   \* match ids a game session was created for
    answers,    \* match id -> the answers that were accepted as answers, in order
    heard,      \* connection -> messages its client got (external)
    pairs,      \* the pairs the queues made, in order
    acked,      \* connection -> pairings it was told of
    searches

NoChallenge == [from |-> "none"]
NoJob == [do |-> "nothing"]

ladderVars == <<queue, pairs, acked, searches>>
challengeVars == <<pending, job, asked, sessions, answers, heard>>
matchVars == <<clientVars, ladderVars, challengeVars>>

MatchTypeOK ==
    /\ ClientsTypeOK
    /\ \A l \in Ladders : Range(queue[l]) \subseteq Conns
    /\ \A m \in Matches : pending[m] \in {NoChallenge, asked[m]}
    /\ sessions \subseteq {m \in Matches : asked[m] # NoChallenge}
    /\ \A c \in Conns : job[c] # NoJob => Served(c)
    /\ searches \in 0 .. MaxSearches

MatchInit ==
    /\ ClientsInit
    /\ queue = [l \in Ladders |-> <<>>]
    /\ pending = [m \in Matches |-> NoChallenge]
    /\ asked = [m \in Matches |-> NoChallenge]
    /\ job = [c \in Conns |-> NoJob]
    /\ sessions = {}
    /\ answers = [m \in Matches |-> <<>>]
    /\ heard = [c \in Conns |-> {}]
    /\ pairs = <<>>
    /\ acked = [c \in Conns |-> 0]
    /\ searches = 0

Idler(c) == job[c] = NoJob

\* A thread serves one message at a time, and none once its socket is closed.
Free(c) == Served(c) /\ job[c] = NoJob

----------------------------------------------------------------------------
\* Connections.  An exception in a handler ends its thread: the connection is
\* deregistered and closed; nothing is taken out of the queue or the table.

Gone(c) ==
    /\ registry' = [u \in Users |-> registry[u] \ {c}]
    /\ sock' = [sock EXCEPT ![c] = "closed"]
    /\ UNCHANGED idle

Login(c) == Enter(c) /\ UNCHANGED <<ladderVars, challengeVars>>
Drop(c) == PeerGone(c) /\ UNCHANGED <<ladderVars, challengeVars>>
Hangup(c) == Free(c) /\ Gone(c) /\ UNCHANGED <<ladderVars, challengeVars>>

\* What a send to d can do: a live peer gets it; the socket of a vanished one
\* takes it or raises; a closed one raises.
Sends(d) == sock[d] \in {"up", "gone"}
Raises(d) == sock[d] \in {"gone", "closed"}

----------------------------------------------------------------------------
\* LadderFindMatch: one handler, under the module's lock.

Search(c) ==
    /\ Free(c)
    /\ searches < MaxSearches
    /\ searches' = searches + 1

\* The entries of q, in their order, that are not user u's.
WithoutUser(q, u) ==
    LET kept == {i \in DOMAIN q : UserOf[q[i]] # u}
        rank(i) == Cardinality({j \in kept : j <= i})
    IN  [k \in 1 .. Cardinality(kept) |-> q[CHOOSE i \in kept : rank(i) = k]]

\* The cancelling player's entries are its user's, from whichever connection.
CancelSearch(c, l) ==
    /\ Search(c)
    /\ queue' = [queue EXCEPT ![l] = WithoutUser(@, UserOf[c])]
    /\ (Sends(c) /\ UNCHANGED clientVars) \/ (Raises(c) /\ Gone(c))
    /\ UNCHANGED <<pairs, acked, challengeVars>>

Waits(l) == queue[l] = <<>>

JoinQueue(c, l) ==
    /\ Search(c)
    /\ Waits(l)
    /\ queue' = [queue EXCEPT ![l] = Append(@, c)]
    /\ UNCHANGED <<clientVars, pairs, acked, challengeVars>>

OnlySearcher(c, d) == {c}

\* Both get a response, the searcher first.
Acknowledged(c, d) == {c, d}

\* The head leaves the queue before either response is sent: a send that
\* raises ends the searcher's thread, and what was not sent is lost.
Pair(c, l) ==
    LET d == Head(queue[l]) IN
    /\ Search(c)
    /\ queue[l] # <<>>
    /\ queue' = [queue EXCEPT ![l] = Tail(@)]
    /\ pairs' = Append(pairs, <<c, d>>)
    /\ \/ /\ Sends(c) /\ Sends(d)
          /\ acked' = [e \in Conns |-> IF e \in Acknowledged(c, d)
                                       THEN acked[e] + 1 ELSE acked[e]]
          /\ UNCHANGED clientVars
       \/ /\ Raises(c)
          /\ Gone(c)
          /\ UNCHANGED acked
       \/ /\ Sends(c) /\ Raises(d)
          /\ acked' = [acked EXCEPT ![c] = @ + 1]
          /\ Gone(c)
    /\ UNCHANGED challengeVars

----------------------------------------------------------------------------
\* SendQuickMatchChallenge (4013): stored, pushed, answered.

Hears(d, msg) == heard' = [heard EXCEPT ![d] = IF sock[d] = "up" THEN @ \cup {msg} ELSE @]

\* To each registered connection of the opponent; failures are swallowed.
HearAll(u, msg) ==
    heard' = [d \in Conns |-> IF d \in ClientsOf(u) /\ sock[d] = "up"
                              THEN heard[d] \cup {msg} ELSE heard[d]]

Challenge(c, u, m) ==
    LET ch == [from |-> c, to |-> u] IN
    /\ Free(c)
    /\ asked[m] = NoChallenge
    /\ asked' = [asked EXCEPT ![m] = ch]
    /\ pending' = [pending EXCEPT ![m] = ch]
    /\ job' = [job EXCEPT ![c] = [do |-> "push", match |-> m]]
    /\ UNCHANGED <<clientVars, ladderVars, sessions, answers, heard>>

PushChallenge(c) ==
    LET m == job[c].match IN
    /\ job[c].do = "push"
    /\ HearAll(asked[m].to, <<"found", m>>)
    /\ job' = [job EXCEPT ![c] = [do |-> "reply", match |-> m]]
    /\ UNCHANGED <<clientVars, ladderVars, pending, asked, sessions, answers>>

\* The challenger learns the match id last; if it cannot, its thread ends and
\* the challenge stays pending.
ReplyChallenge(c) ==
    /\ job[c].do = "reply"
    /\ job' = [job EXCEPT ![c] = NoJob]
    /\ \/ /\ Sends(c)
          /\ Hears(c, <<"sent", job[c].match>>)
          /\ UNCHANGED clientVars
       \/ /\ Raises(c)
          /\ Gone(c)
          /\ UNCHANGED heard
    /\ UNCHANGED <<ladderVars, pending, asked, sessions, answers>>

\* SendChallengeResponse (4017): whoever names a pending match first takes it.

Kept(m) == pending
Taken(m) == [pending EXCEPT ![m] = NoChallenge]

\* The answer on the respondent's own connection.
Answers(c, m, status) ==
    /\ answers' = [answers EXCEPT ![m] = Append(@, status)]
    /\ Hears(c, <<status, m>>)

KnowsMatch(c, m) == <<"found", m>> \in heard[c]

AnswerFailed(c, m) ==
    /\ Free(c) /\ KnowsMatch(c, m)
    /\ pending[m] = NoChallenge
    /\ \/ Sends(c) /\ Hears(c, <<"failed", m>>) /\ UNCHANGED clientVars
       \/ Raises(c) /\ Gone(c) /\ UNCHANGED heard
    /\ UNCHANGED <<ladderVars, pending, job, asked, sessions, answers>>

TakeChallenge(c, m) ==
    /\ Free(c) /\ KnowsMatch(c, m)
    /\ pending[m] # NoChallenge
    /\ pending' = Taken(m)
    /\ UNCHANGED <<ladderVars, asked>>

\* Declined: the answer, then a guarded push to the challenger's handler.
Decline(c, m) ==
    /\ TakeChallenge(c, m)
    /\ \/ /\ Sends(c)
          /\ Answers(c, m, "declined")
          /\ job' = [job EXCEPT ![c] = [do |-> "notify", match |-> m]]
          /\ UNCHANGED clientVars
       \/ /\ Raises(c)
          /\ Gone(c)
          /\ UNCHANGED <<answers, heard, job>>
    /\ UNCHANGED sessions

NotifyChallenger(c) ==
    LET m == job[c].match IN
    /\ job[c].do = "notify"
    /\ Hears(asked[m].from, <<"declined", m>>)
    /\ job' = [job EXCEPT ![c] = NoJob]
    /\ UNCHANGED <<clientVars, ladderVars, pending, asked, sessions, answers>>

Forgotten(c, m) == job' = [job EXCEPT ![c] = NoJob]

Promised(c, m) == job' = [job EXCEPT ![c] = [do |-> "create", match |-> m]]

\* Accepted: the answer comes first, and only then the session it promises.
Accept(c, m) ==
    /\ TakeChallenge(c, m)
    /\ \/ /\ Sends(c)
          /\ Answers(c, m, "accepted")
          /\ Promised(c, m)
          /\ UNCHANGED clientVars
       \/ /\ Raises(c)
          /\ Gone(c)
          /\ UNCHANGED <<answers, heard, job>>
    /\ UNCHANGED sessions

\* create_encounter_session, then 4028 to the challenger ...
CreateSession(c) ==
    LET m == job[c].match IN
    /\ job[c].do = "create"
    /\ sessions' = sessions \cup {m}
    /\ Hears(asked[m].from, <<"session", m>>)
    /\ job' = [job EXCEPT ![c] = [do |-> "join", match |-> m]]
    /\ UNCHANGED <<clientVars, ladderVars, pending, asked, answers>>

\* ... and to the respondent; both are guarded.
Invited(c, m) == Hears(c, <<"session", m>>)

JoinSession(c) ==
    LET m == job[c].match IN
    /\ job[c].do = "join"
    /\ Invited(c, m)
    /\ job' = [job EXCEPT ![c] = NoJob]
    /\ UNCHANGED <<clientVars, ladderVars, pending, asked, sessions, answers>>

----------------------------------------------------------------------------
LadderStep(c) == \E l \in Ladders : CancelSearch(c, l) \/ JoinQueue(c, l) \/ Pair(c, l)

ChallengeStep(c) ==
    \/ \E u \in Users, m \in Matches : Challenge(c, u, m)
    \/ \E m \in Matches : AnswerFailed(c, m) \/ Decline(c, m) \/ Accept(c, m)

Work(c) == PushChallenge(c) \/ ReplyChallenge(c) \/ NotifyChallenger(c)
           \/ CreateSession(c) \/ JoinSession(c)

MatchNext == \E c \in Conns :
    Login(c) \/ Drop(c) \/ Hangup(c) \/ LadderStep(c) \/ ChallengeStep(c) \/ Work(c)

MatchSpec == MatchInit /\ [][MatchNext]_matchVars

----------------------------------------------------------------------------
\* Properties.

\* Two searchers never wait for the same ladder: whoever finds one waiting is
\* paired with it (matchmaking.py:58-70).
OneWaits == \A l \in Ladders : Len(queue[l]) <= 1

PairsOf(c) == {i \in DOMAIN pairs : c \in Range(pairs[i])}

\* "pairs searching players and acknowledges the match" (matchmaking.py:1): a
\* client that is there has been told of every match it was paired for.
PairedAcknowledged == \A c \in Conns : sock[c] = "up" => acked[c] = Cardinality(PairsOf(c))

\* A challenge is answered once, however many of the opponent's clients answer:
\* one of them accepts or declines it, the others fail, and only what was
\* accepted gets a session (matchmaking.py:411).
TakenOnce ==
    \A m \in Matches :
        /\ Len(answers[m]) <= 1
        /\ m \in sessions => "accepted" \in Range(answers[m])

AllFree == \A c \in Conns : job[c] = NoJob

\* When no thread is at work, the challenger's connection and a respondent's,
\* as far as they are still there, know the session of an accepted challenge
\* (matchmaking.py:456-473).
SessionReachesBoth ==
    AllFree => \A m \in sessions :
        /\ sock[asked[m].from] = "up" => <<"session", m>> \in heard[asked[m].from]
        /\ \A c \in Conns : sock[c] = "up" /\ <<"accepted", m>> \in heard[c]
                            => <<"session", m>> \in heard[c]

\* What the service owes whoever uses it, connections lost at any moment
\* included.
MatchesAreMade == MatchTypeOK /\ OneWaits /\ TakenOnce /\ SessionReachesBoth

\* The respondent is answered before the session exists: it comes to exist
\* (matchmaking.py:437-449).
AcceptedIsPlayed ==
    \A m \in Matches : ("accepted" \in Range(answers[m])) ~> (m \in sessions)

==============================================================================
