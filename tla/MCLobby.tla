------------------------------- MODULE MCLobby -------------------------------
(***************************************************************************)
(* Two players in the lobby, in four scenes explored side by side.         *)
(*   friends   alice comes back once; one thread at a time                 *)
(*   overlap   a connection each; threads interleave, peers vanish, idle    *)
(*             clients are dropped                                         *)
(*   chat      alice comes back once to the room; idle clients are dropped  *)
(*   faulty    a connection each; peers vanish from the room               *)
(***************************************************************************)
EXTENDS Friends

CONSTANTS alice, bob, a1, a2, b1

Two == {alice, bob}
Three == {a1, a2, b1}
Pair == {a1, b1}
PairOf == [c \in Pair |-> IF c = b1 THEN bob ELSE alice]
ThreeOf == [c \in Three |-> IF c = b1 THEN bob ELSE alice]

VARIABLES scene, members, log, unsent, job, got, left, since, joins

Calm == INSTANCE Friends WITH
    Conns <- Three, UserOf <- ThreeOf, Faults <- FALSE, Idles <- FALSE,
    OneEach <- TRUE, Overlap <- FALSE, MaxCalls <- 5

Chat3 == INSTANCE ChatRoom WITH
    Conns <- Three, UserOf <- ThreeOf, Faults <- FALSE, Idles <- TRUE,
    OneEach <- TRUE, MaxMessages <- 2, HistoryLimit <- 2, MaxJoins <- 2

Chat2 == INSTANCE ChatRoom WITH
    Conns <- Pair, UserOf <- PairOf, Faults <- TRUE, Idles <- FALSE,
    OneEach <- TRUE, MaxMessages <- 1, HistoryLimit <- 2, MaxJoins <- 3

roomVars == <<members, log, unsent, job, got, left, since, joins>>
lobbyVars == <<scene, friendsVars, roomVars>>

NoRoom ==
    /\ members = {} /\ log = <<>> /\ unsent = {} /\ job = <<>> /\ got = <<>>
    /\ left = <<>> /\ since = <<>> /\ joins = 0

NoFriends ==
    /\ friends = {} /\ requests = {} /\ ignored = {} /\ todo = <<>>
    /\ unsynced = {} /\ view = <<>> /\ transactions = 0

LobbyInit ==
    \/ scene = "overlap" /\ FriendsInit /\ NoRoom
    \/ scene = "friends" /\ Calm!FriendsInit /\ NoRoom
    \/ scene = "chat" /\ Chat3!ChatInit /\ NoFriends
    \/ scene = "faulty" /\ Chat2!ChatInit /\ NoFriends

LobbyNext ==
    /\ UNCHANGED scene
    /\ \/ scene = "overlap" /\ FriendsNext /\ UNCHANGED roomVars
       \/ scene = "friends" /\ Calm!FriendsNext /\ UNCHANGED roomVars
       \/ scene = "chat" /\ Chat3!ChatNext /\ UNCHANGED <<rows, threads>>
       \/ scene = "faulty" /\ Chat2!ChatNext /\ UNCHANGED <<rows, threads>>

LobbySpec == LobbyInit /\ [][LobbyNext]_lobbyVars

\* Every variable stays in its type.
LobbyTypeOK ==
    CASE scene = "overlap" -> FriendsTypeOK
      [] scene = "friends" -> Calm!FriendsTypeOK
      [] scene = "chat" -> Chat3!ChatTypeOK
      [] scene = "faulty" -> Chat2!ChatTypeOK

\* Clients are told the truth.  With one thread at a time: when none has
\* anything left to push, clients show their users' rows and every friend who
\* is connected and was announced.  In the room: a registered member has every
\* message since it joined and those before it that the history holds, and who
\* is shown as gone is not there.
TruthfulViews ==
    /\ LobbyTypeOK
    /\ scene = "friends" => Calm!ViewsMatchRows /\ Calm!OnlineShown
    /\ scene = "chat" => Chat3!NothingMissed /\ Chat3!LeftIsGone
    /\ scene = "faulty" => Chat2!NothingMissed /\ Chat2!LeftIsGone

\* ... and whoever closes the last connection of a user leaves no client that
\* still shows that user online.
ClientsAreTold ==
    []TruthfulViews /\ [][scene = "friends" => Calm!DepartureShownStep]_friendsVars
==============================================================================
