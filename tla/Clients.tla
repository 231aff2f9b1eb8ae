------------------------------- MODULE Clients -------------------------------
(***************************************************************************)
(* The connections of the server and its registry of active clients        *)
(* (hconnect_server.py): one handler, with a thread of its own, per         *)
(* connection; a registry user -> handlers that pushes are addressed by.    *)
(* A connection is used once: a player who comes back has a new one.        *)
(***************************************************************************)
EXTENDS Naturals, FiniteSets

CONSTANTS
    Users,      \* the accounts
    Conns,      \* the connections a behaviour may use
    UserOf,     \* the account each connection logs in to
    Faults,     \* may a peer vanish without closing its socket?
    Idles,      \* may a client stay out of the chat for SESSION_TIMEOUT?
    OneEach     \* is a player connected at most once at a time?

ASSUME ClientsAssumption ==
    /\ UserOf \in [Conns -> Users]
    /\ {Faults, Idles, OneEach} \subseteq BOOLEAN

VARIABLES
    sock,       \* connection -> "off", "up", "gone" (peer vanished), "closed"
    registry,   \* _active_clients: user -> its registered connections
    idle        \* registered connections whose entry is older than the timeout

clientVars == <<sock, registry, idle>>

ClientsTypeOK ==
    /\ sock \in [Conns -> {"off", "up", "gone", "closed"}]
    /\ registry \in [Users -> SUBSET Conns]
    /\ idle \subseteq Conns

ClientsInit ==
    /\ sock = [c \in Conns |-> "off"]
    /\ registry = [u \in Users |-> {}]
    /\ idle = {}

\* A handler thread serves a connection until it has closed it itself: it may
\* still be at work on a message when the peer is gone.
Served(c) == sock[c] \in {"up", "gone"}

\* The peers a push addressed to u goes to: a snapshot of the registry, taken
\* under its lock.
ClientsOf(u) == registry[u]

\* auth:req: the handler is registered before the response is sent.
Enter(c) ==
    /\ sock[c] = "off"
    /\ OneEach => \A d \in Conns : UserOf[d] = UserOf[c] => ~Served(d)
    /\ sock' = [sock EXCEPT ![c] = "up"]
    /\ registry' = [registry EXCEPT ![UserOf[c]] = @ \cup {c}]
    /\ idle' = idle \ {c}

\* The peer vanishes; nothing tells the server.
PeerGone(c) ==
    /\ Faults
    /\ sock[c] = "up"
    /\ sock' = [sock EXCEPT ![c] = "gone"]
    /\ UNCHANGED <<registry, idle>>

KeepsRegistered(c) == UNCHANGED clientVars

\* _handle_disconnect takes the handler out of the registry ...
Deregister(c) ==
    /\ registry' = [u \in Users |-> registry[u] \ {c}]
    /\ UNCHANGED <<sock, idle>>

\* ... and handle() closes the socket when it returns.
Close(c) ==
    /\ sock' = [sock EXCEPT ![c] = "closed"]
    /\ UNCHANGED <<registry, idle>>

\* SESSION_TIMEOUT passes without a chat message from a client.
GrowIdle(c) ==
    /\ Idles
    /\ c \in registry[UserOf[c]]
    /\ idle' = idle \cup {c}
    /\ UNCHANGED <<sock, registry>>

\* cleanup_stale_sessions, after touch_session renewed the sender's own entry.
Cleanup(c) == registry' = [u \in Users |-> registry[u] \ (idle \ {c})]

\* A chat message touches its sender's entry and drops everybody's stale ones.
Chat(c) ==
    /\ Served(c)
    /\ idle' = idle \ {c}
    /\ Cleanup(c)
    /\ UNCHANGED sock

==============================================================================
