------------------------------- MODULE Friends -------------------------------
(***************************************************************************)
(* Friends, friend requests and ignored players (services/social.py, the    *)
(* social tables of profile_db.py): each request is one transaction, and    *)
(* then, outside it, a response and a series of pushes, made by the thread  *)
(* of the connection that asked.  Each client keeps a view of its own.      *)
(***************************************************************************)
EXTENDS Clients, Sequences, SequencesExt

CONSTANTS
    Overlap,    \* may a handler start while another has pushes left to make?
    MaxCalls    \* bound on the transactions of a behaviour

ASSUME FriendsAssumption == IsFiniteSet(Users) /\ Overlap \in BOOLEAN /\ MaxCalls \in Nat

VARIABLES
    friends,    \* rows <<user, friend>>
    requests,   \* rows <<from, to>>
    ignored,    \* rows <<user, ignored user>>
    todo,       \* connection -> the pushes its thread has left, in order
    unsynced,   \* connections whose social data is not pushed yet
    view,       \* connection -> what its client shows (external)
    transactions \* transactions so far

rows == <<friends, requests, ignored>>
threads == <<todo, unsynced, view, transactions>>
friendsVars == <<clientVars, rows, threads>>

NoView == [friends |-> {}, online |-> {}, ignored |-> {}, listed |-> FALSE]

FriendsTypeOK ==
    /\ ClientsTypeOK
    /\ friends \subseteq Users \X Users
    /\ requests \subseteq Users \X Users
    /\ ignored \subseteq Users \X Users
    /\ unsynced \subseteq Conns
    /\ transactions \in 0 .. MaxCalls
    /\ \A c \in Conns :
          /\ view[c].friends \cup view[c].online \cup view[c].ignored \subseteq Users
          /\ todo[c] # <<>> => Served(c)

FriendsInit ==
    /\ ClientsInit
    /\ friends = {} /\ requests = {} /\ ignored = {}
    /\ todo = [c \in Conns |-> <<>>]
    /\ unsynced = {}
    /\ view = [c \in Conns |-> NoView]
    /\ transactions = 0

----------------------------------------------------------------------------
\* Jobs of a thread, and what they do to the clients that hear of them.

FriendsOf(u) == {v \in Users : <<u, v>> \in friends}

SendReply == [do |-> "respond"]
Own(kind, u, on) == [do |-> "own", kind |-> kind, about |-> u, on |-> on]
Tell(to, kind, u, on) == [do |-> "tell", to |-> to, kind |-> kind, about |-> u, on |-> on]
Do(what) == [do |-> what]

\* The broadcasts read the friends once and address them one after the other.
TellFriends(u, kind, on) == [i \in 1 .. Cardinality(FriendsOf(u)) |->
                                Tell(SetToSeq(FriendsOf(u))[i], kind, u, on)]

\* What a client does with an event about a friend.
Applied(v, kind, u, on) ==
    CASE kind = "added" -> [v EXCEPT !.friends = @ \cup {u},
                                     !.online = IF on THEN @ \cup {u} ELSE @ \ {u}]
      [] kind = "removed" -> [v EXCEPT !.friends = @ \ {u}, !.online = @ \ {u}]
      [] kind = "online" -> [v EXCEPT !.online = IF u \in v.friends THEN @ \cup {u} ELSE @]
      [] kind = "offline" -> [v EXCEPT !.online = @ \ {u}]
      [] kind = "ignored" -> [v EXCEPT !.ignored = @ \cup {u}]
      [] kind = "unignored" -> [v EXCEPT !.ignored = @ \ {u}]
      [] OTHER -> v         \* a friend request

Quiet == \A c \in Conns : todo[c] = <<>>

\* A thread takes a message when it is done with the last one.
MayStart(c) ==
    /\ Served(c) /\ todo[c] = <<>>
    /\ Overlap \/ Quiet

----------------------------------------------------------------------------
\* Connections.

Login(c) ==
    /\ Overlap \/ Quiet
    /\ Enter(c)
    /\ unsynced' = unsynced \cup {c}
    /\ UNCHANGED <<rows, todo, view, transactions>>

\* A client that has hung up, or an exception of its own handler.
Disconnect(c) ==
    /\ MayStart(c)
    /\ todo' = [todo EXCEPT ![c] = <<Do("leave")>>]
    /\ UNCHANGED <<clientVars, rows, unsynced, view, transactions>>

ClientStep ==
    /\ \E c \in Conns : PeerGone(c) \/ GrowIdle(c) \/ (MayStart(c) /\ Chat(c))
    /\ UNCHANGED <<rows, threads>>

\* The first routed message after a login: push_all_social_data, then
\* broadcast_friend_online.
FirstMessage(c) ==
    /\ MayStart(c)
    /\ c \in unsynced
    /\ unsynced' = unsynced \ {c}
    /\ todo' = [todo EXCEPT ![c] = <<Do("readlist")>>]
    /\ UNCHANGED <<clientVars, rows, view, transactions>>

----------------------------------------------------------------------------
\* Requests: a transaction, and the jobs it leaves.  A refused one only has
\* its response.

Request(c) ==
    /\ MayStart(c)
    /\ c \notin unsynced
    /\ transactions < MaxCalls
    /\ transactions' = transactions + 1
    /\ UNCHANGED <<clientVars, unsynced, view>>

Leaves(c, jobs) == todo' = [todo EXCEPT ![c] = <<SendReply>> \o jobs]

MayAskIfNotSent(me, u) == me # u /\ <<me, u>> \notin requests /\ <<me, u>> \notin friends

\* db_send_friend_request's five refusals.
MayAsk(me, u) ==
    /\ me # u
    /\ <<me, u>> \notin requests
    /\ <<u, me>> \notin requests
    /\ <<me, u>> \notin friends

AddFriend(c, u) ==
    LET me == UserOf[c] IN
    /\ Request(c)
    /\ \/ /\ MayAsk(me, u)
          /\ requests' = requests \cup {<<me, u>>}
          /\ Leaves(c, <<Tell(u, "request", me, FALSE)>>)
       \/ /\ ~MayAsk(me, u)
          /\ Leaves(c, <<>>)
          /\ UNCHANGED requests
    /\ UNCHANGED <<friends, ignored>>

\* Both directions of a friendship, which are two rows.
BothRows(me, u) == {<<me, u>>, <<u, me>>}

\* The request an accept settles.
WithoutRequest(from, to) == requests \ {<<from, to>>}

\* FriendAdded, as online, to the accepting connection and to every
\* connection of the other user.
AcceptJobs(c, u) == <<Own("added", u, TRUE), Tell(u, "added", UserOf[c], TRUE)>>

AcceptFriendRequest(c, u) ==
    LET me == UserOf[c] IN
    /\ Request(c)
    /\ \/ /\ <<u, me>> \in requests
          /\ requests' = WithoutRequest(u, me)
          /\ friends' = friends \cup BothRows(me, u)
          /\ Leaves(c, AcceptJobs(c, u))
       \/ /\ <<u, me>> \notin requests
          /\ Leaves(c, <<>>)
          /\ UNCHANGED <<requests, friends>>
    /\ UNCHANGED ignored

IgnoreFriendRequest(c, u) ==
    /\ Request(c)
    /\ requests' = requests \ {<<u, UserOf[c]>>}
    /\ Leaves(c, <<>>)
    /\ UNCHANGED <<friends, ignored>>

\* db_remove_friend deletes both directions, and succeeds without any.
RowsRemoved(me, u) == BothRows(me, u)

RemoveFriend(c, u) ==
    LET me == UserOf[c] IN
    /\ Request(c)
    /\ friends' = friends \ RowsRemoved(me, u)
    /\ Leaves(c, <<Own("removed", u, FALSE), Tell(u, "removed", me, FALSE)>>)
    /\ UNCHANGED <<requests, ignored>>

IgnorePlayer(c, u) ==
    LET me == UserOf[c]
        new == me # u /\ <<me, u>> \notin ignored
    IN  /\ Request(c)
        /\ ignored' = IF new THEN ignored \cup {<<me, u>>} ELSE ignored
        /\ Leaves(c, IF new THEN <<Own("ignored", u, FALSE)>> ELSE <<>>)
        /\ UNCHANGED <<friends, requests>>

UnignorePlayer(c, u) ==
    LET row == <<UserOf[c], u>> IN
    /\ Request(c)
    /\ ignored' = ignored \ {row}
    /\ Leaves(c, IF row \in ignored THEN <<Own("unignored", u, FALSE)>> ELSE <<>>)
    /\ UNCHANGED <<friends, requests>>

----------------------------------------------------------------------------
\* The jobs.

Job(c, what) == todo[c] # <<>> /\ Head(todo[c]).do = what
Rest(c, jobs) == todo' = [todo EXCEPT ![c] = jobs \o Tail(@)]

\* A send on the thread's own connection raises when the peer is gone, now or
\* at a later write; the thread then drops what it had left and disconnects.
SendRaises(c) ==
    /\ sock[c] = "gone"
    /\ todo' = [todo EXCEPT ![c] = <<Do("leave")>>]
    /\ UNCHANGED view

Answer(c) ==
    /\ Job(c, "respond")
    /\ (Rest(c, <<>>) /\ UNCHANGED view) \/ SendRaises(c)
    /\ UNCHANGED <<clientVars, rows, unsynced, transactions>>

PushOwn(c) ==
    LET j == Head(todo[c]) IN
    /\ Job(c, "own")
    /\ \/ /\ view' = [view EXCEPT ![c] = Applied(@, j.kind, j.about, j.on)]
          /\ Rest(c, <<>>)
       \/ SendRaises(c)
    /\ UNCHANGED <<clientVars, rows, unsynced, transactions>>

\* To every registered connection of a user; failures are swallowed.
PushPeers(c) ==
    LET j == Head(todo[c]) IN
    /\ Job(c, "tell")
    /\ view' = [d \in Conns |-> IF d \in ClientsOf(j.to)
                                THEN Applied(view[d], j.kind, j.about, j.on) ELSE view[d]]
    /\ Rest(c, <<>>)
    /\ UNCHANGED <<clientVars, rows, unsynced, transactions>>

\* push_friends_list reads the rows and the registry, then sends the list.
ReadList(c) ==
    LET me == UserOf[c]
        list == [do |-> "list", friends |-> FriendsOf(me),
                 online |-> {v \in FriendsOf(me) : ClientsOf(v) # {}}]
    IN  /\ Job(c, "readlist")
        /\ Rest(c, <<list, Do("lists")>>)
        /\ UNCHANGED <<clientVars, rows, unsynced, view, transactions>>

\* A failed push ends push_all_social_data only: the broadcast is still made.
\* The client of a vanished peer shows nothing, so that case needs no step.
PushList(c) ==
    LET j == Head(todo[c]) IN
    /\ Job(c, "list")
    /\ view' = [view EXCEPT ![c] = [@ EXCEPT !.friends = j.friends, !.online = j.online,
                                             !.listed = TRUE]]
    /\ Rest(c, <<>>)
    /\ UNCHANGED <<clientVars, rows, unsynced, transactions>>

\* FriendComeOnline for the listed friends that are online by now, then the
\* pending requests and the ignored list, then the broadcast.
PushLists(c) ==
    LET me == UserOf[c]
        here == {v \in view[c].friends : ClientsOf(v) # {}}
    IN  /\ Job(c, "lists")
        /\ view' = [view EXCEPT
                       ![c].online = @ \cup here,
                       ![c].ignored = {v \in Users : <<me, v>> \in ignored}]
        /\ Rest(c, <<Do("announce")>>)
        /\ UNCHANGED <<clientVars, rows, unsynced, transactions>>

\* broadcast_friend_online.
Announcement(c) == TellFriends(UserOf[c], "online", TRUE)

Announce(c) ==
    /\ Job(c, "announce")
    /\ Rest(c, Announcement(c))
    /\ UNCHANGED <<clientVars, rows, unsynced, view, transactions>>

\* _handle_disconnect leaves the registry before broadcast_friend_offline
\* looks whether the user has another session.
Leave(c) ==
    /\ Job(c, "leave")
    /\ Deregister(c)
    /\ Rest(c, <<Do("lastcheck")>>)
    /\ UNCHANGED <<rows, unsynced, view, transactions>>

NobodyTold(u) == FALSE

LastSession(u) == ClientsOf(u) = {}

LastCheck(c) ==
    LET me == UserOf[c] IN
    /\ Job(c, "lastcheck")
    /\ Rest(c, (IF LastSession(me) THEN TellFriends(me, "offline", FALSE) ELSE <<>>)
               \o <<Do("close")>>)
    /\ UNCHANGED <<clientVars, rows, unsynced, view, transactions>>

Hangup(c) ==
    /\ Job(c, "close")
    /\ Close(c)
    /\ Rest(c, <<>>)
    /\ unsynced' = unsynced \ {c}
    /\ view' = [view EXCEPT ![c] = NoView]
    /\ UNCHANGED <<rows, transactions>>

----------------------------------------------------------------------------
Ask(c) == \E u \in Users :
    AddFriend(c, u) \/ AcceptFriendRequest(c, u) \/ IgnoreFriendRequest(c, u)
    \/ RemoveFriend(c, u) \/ IgnorePlayer(c, u) \/ UnignorePlayer(c, u)

Work(c) == Answer(c) \/ PushOwn(c) \/ PushPeers(c) \/ ReadList(c) \/ PushList(c)
           \/ PushLists(c) \/ Announce(c) \/ Leave(c) \/ LastCheck(c) \/ Hangup(c)

FriendsNext ==
    \/ ClientStep
    \/ \E c \in Conns : Login(c) \/ Disconnect(c) \/ FirstMessage(c) \/ Ask(c) \/ Work(c)

FriendsSpec == FriendsInit /\ [][FriendsNext]_friendsVars

----------------------------------------------------------------------------
\* Properties.

\* A friendship is two rows or none, whatever transactions follow each other
\* (profile_db.py:285-334).
Mutual == \A u, v \in Users : <<u, v>> \in friends => <<v, u>> \in friends

\* Two users who are friends have no request between them, and two requests
\* never cross: what an accept would do is settled by who asked first.
RequestsSettled ==
    \A u, v \in Users : <<u, v>> \in requests =>
        u # v /\ <<v, u>> \notin requests /\ <<u, v>> \notin friends

\* The two tables of social.py agree with each other and with themselves.
FriendshipsAreSettled == Mutual /\ RequestsSettled

\* A connection that is closed is in nobody's registry entry, whichever way its
\* thread ended and whoever else cleaned up meanwhile (hconnect_server.py:11824).
ClosedIsUnregistered ==
    \A c \in Conns, u \in Users : c \in ClientsOf(u) => Served(c) /\ u = UserOf[c]

\* When no thread has anything left to push, every client that got its list
\* shows the friends its user has, and ignores whom its user ignores.
ViewsMatchRows ==
    Quiet => \A c \in Conns :
        sock[c] = "up" /\ view[c].listed =>
            /\ view[c].friends = FriendsOf(UserOf[c])
            /\ view[c].ignored = {v \in Users : <<UserOf[c], v>> \in ignored}

\* ... and shows online every friend who is connected and was announced.
OnlineShown ==
    Quiet => \A c, d \in Conns :
        /\ sock[c] = "up" /\ view[c].listed
        /\ sock[d] = "up" /\ view[d].listed
        /\ UserOf[d] \in FriendsOf(UserOf[c])
        => UserOf[d] \in view[c].online

\* A departure reaches the friends: whoever closes the last connection of a
\* user leaves no client that still shows that user online.
DepartureShownStep ==
    \A c \in Conns : sock[c] # "closed" /\ sock'[c] = "closed" /\ ClientsOf(UserOf[c]) = {}
        => \A d \in Conns : UserOf[c] \notin view'[d].online

==============================================================================
