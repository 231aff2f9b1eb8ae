------------------------------ MODULE ChatRoom -------------------------------
(***************************************************************************)
(* One chat room (services/chat.py): its members are the connections whose  *)
(* handlers hold the room, its messages are stored before they are sent,    *)
(* and the other members hear of a message, an arrival or a departure       *)
(* through the registry of active clients.                                  *)
(***************************************************************************)
EXTENDS Clients, Sequences

CONSTANTS
    MaxMessages,    \* bound on the messages of a behaviour
    HistoryLimit,   \* how many stored messages a joining client is sent
    MaxJoins        \* bound on the joins of a behaviour

VARIABLES
    members,    \* connections whose _chat_rooms holds the room
    log,        \* the stored messages: who said each
    unsent,     \* positions stored for a sender who was gone before the echo
    job,        \* connection -> what its thread has left to do
    got,        \* connection -> positions in log its client has shown (external)
    left,       \* connection -> users its client shows as gone from the room
    since,      \* connection -> length of log when it joined
    joins

roomVars == <<members, log, unsent, job, got, left, since, joins>>
chatVars == <<clientVars, roomVars>>

NoJob == [do |-> "nothing"]

ChatTypeOK ==
    /\ ClientsTypeOK
    /\ members \subseteq Conns
    /\ log \in Seq(Users) /\ Len(log) <= MaxMessages
    /\ \A c \in Conns : got[c] \subseteq DOMAIN log /\ left[c] \subseteq Users
    /\ \A c \in Conns : job[c] # NoJob => Served(c)

ChatInit ==
    /\ ClientsInit
    /\ members = {}
    /\ log = <<>> /\ unsent = {}
    /\ job = [c \in Conns |-> NoJob]
    /\ got = [c \in Conns |-> {}]
    /\ left = [c \in Conns |-> {}]
    /\ since = [c \in Conns |-> 0]
    /\ joins = 0

Idler(c) == job[c] = NoJob

Free(c) == Served(c) /\ job[c] = NoJob
Becomes(c, what) == job' = [job EXCEPT ![c] = [do |-> what]]
Done(c) == job' = [job EXCEPT ![c] = NoJob]

\* A send on the thread's own connection raises once the peer is gone; the
\* handler swallows it, and with it the rest of the message.
GivesUp(c) == sock[c] = "gone" /\ Done(c)

\* The members that hear the thread of c: registered, and not c itself.
Audience(c) == {d \in members \ {c} : d \in ClientsOf(UserOf[d]) /\ sock[d] = "up"}

HearsLeft(d, u) == left[d] \cup {u}
HearsJoin(d, u) == left[d] \ {u}

----------------------------------------------------------------------------
Arrive(c) == Enter(c) /\ UNCHANGED roomVars
Drop(c) == PeerGone(c) /\ UNCHANGED roomVars
Idle(c) == GrowIdle(c) /\ UNCHANGED roomVars

\* rjoin: member first, then the acknowledgement ...
Join(c) ==
    /\ Free(c)
    /\ joins < MaxJoins
    /\ joins' = joins + 1
    /\ members' = members \cup {c}
    /\ since' = [since EXCEPT ![c] = Len(log)]
    /\ left' = [left EXCEPT ![c] = {}]
    /\ Becomes(c, "announce") \/ GivesUp(c)
    /\ UNCHANGED <<clientVars, log, unsent, got>>

\* ... then the others are told, and the history is read ...
AnnounceJoin(c) ==
    /\ job[c].do = "announce"
    /\ left' = [d \in Conns |-> IF d \in Audience(c) THEN HearsJoin(d, UserOf[c]) ELSE left[d]]
    /\ Becomes(c, "history")
    /\ UNCHANGED <<clientVars, members, log, unsent, got, since, joins>>

Lately(i) == i > Len(log) - HistoryLimit

ReadHistory(c) ==
    /\ job[c].do = "history"
    /\ job' = [job EXCEPT ![c] = [do |-> "show", rows |-> {i \in DOMAIN log : Lately(i)}]]
    /\ UNCHANGED <<clientVars, members, log, unsent, got, left, since, joins>>

\* ... and sent.
ShowHistory(c) ==
    /\ job[c].do = "show"
    /\ got' = [got EXCEPT ![c] = @ \cup job[c].rows]
    /\ Done(c)
    /\ UNCHANGED <<clientVars, members, log, unsent, left, since, joins>>

LeaveRoom(c) ==
    /\ Free(c)
    /\ c \in members
    /\ members' = members \ {c}
    /\ Becomes(c, "leave")
    /\ UNCHANGED <<clientVars, log, unsent, got, left, since, joins>>

BroadcastLeave(c) ==
    left' = [d \in Conns |-> IF d \in Audience(c) THEN HearsLeft(d, UserOf[c]) ELSE left[d]]

AnnounceLeave(c) ==
    /\ job[c].do = "leave"
    /\ BroadcastLeave(c)
    /\ Done(c)
    /\ UNCHANGED <<clientVars, members, log, unsent, got, since, joins>>

----------------------------------------------------------------------------
\* rchat, say: stored and echoed ...
Say(c) ==
    /\ Free(c)
    /\ Len(log) < MaxMessages
    /\ log' = Append(log, UserOf[c])
    /\ \/ /\ got' = [got EXCEPT ![c] = @ \cup {Len(log')}]
          /\ job' = [job EXCEPT ![c] = [do |-> "send", msg |-> Len(log')]]
          /\ UNCHANGED unsent
       \/ /\ GivesUp(c)
          /\ unsent' = unsent \cup {Len(log')}
          /\ UNCHANGED got
    /\ UNCHANGED <<clientVars, members, left, since, joins>>

\* ... then the sender's entry is renewed, stale ones are dropped ...
Renew(c) ==
    /\ job[c].do = "send"
    /\ Chat(c)
    /\ job' = [job EXCEPT ![c].do = "broadcast"]
    /\ UNCHANGED <<members, log, unsent, got, left, since, joins>>

\* ... and the members that are left in the registry get it.
Broadcast(c) ==
    /\ job[c].do = "broadcast"
    /\ got' = [d \in Conns |-> IF d \in Audience(c) THEN got[d] \cup {job[c].msg} ELSE got[d]]
    /\ Done(c)
    /\ UNCHANGED <<clientVars, members, log, unsent, left, since, joins>>

----------------------------------------------------------------------------
\* _handle_disconnect: rleave for a member, then the registry, then the socket.
Depart(c) ==
    /\ Free(c)
    /\ Becomes(c, "deregister")
    /\ IF c \in members THEN BroadcastLeave(c) ELSE UNCHANGED left
    /\ UNCHANGED <<clientVars, members, log, unsent, got, since, joins>>

Unlist(c) ==
    /\ job[c].do = "deregister"
    /\ Deregister(c)
    /\ Becomes(c, "close")
    /\ UNCHANGED <<members, log, unsent, got, left, since, joins>>

\* What the handler and its client held goes with them.
CloseConn(c) ==
    /\ job[c].do = "close"
    /\ Close(c)
    /\ Done(c)
    /\ members' = members \ {c}
    /\ got' = [got EXCEPT ![c] = {}] /\ left' = [left EXCEPT ![c] = {}]
    /\ since' = [since EXCEPT ![c] = 0]
    /\ UNCHANGED <<log, unsent, joins>>

ChatWork(c) == AnnounceJoin(c) \/ ReadHistory(c) \/ ShowHistory(c) \/ AnnounceLeave(c)
           \/ Renew(c) \/ Broadcast(c) \/ Unlist(c) \/ CloseConn(c)

ChatNext == \E c \in Conns :
    Arrive(c) \/ Drop(c) \/ Idle(c) \/ Join(c) \/ LeaveRoom(c) \/ Say(c) \/ Depart(c)
    \/ ChatWork(c)

ChatSpec == ChatInit /\ [][ChatNext]_chatVars

----------------------------------------------------------------------------
\* Properties.

AllFree == \A c \in Conns : job[c] = NoJob

\* A member that is still registered has every message since it joined, and
\* those before it that the history still holds: whatever is stored while it joins is in the history
\* it reads or is sent to it live (chat.py:35-87, 180-236).
NothingMissed ==
    AllFree => \A c \in members :
        sock[c] = "up" /\ c \in ClientsOf(UserOf[c]) =>
            \A i \in DOMAIN log \ unsent :
                i > since[c] \/ Len(log) <= HistoryLimit => i \in got[c]

\* "UIBattle uses this room-presence event to maintain its opponent list and
\* online status" (chat.py:50-51): who is shown as gone is not in the room.
LeftIsGone ==
    AllFree => \A c, d \in members :
        /\ UserOf[c] # UserOf[d]
        /\ sock[c] = "up" /\ sock[d] = "up" /\ c \in ClientsOf(UserOf[c])
        => UserOf[d] \notin left[c]

==============================================================================
