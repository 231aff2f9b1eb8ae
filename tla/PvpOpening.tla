----------------------------- MODULE PvpOpening -----------------------------
(***************************************************************************)
(* The opening of a tournament battle: the coin-flip winner picks play or  *)
(* draw, the players keep or redraw their hands in turn, and the native    *)
(* scheduler takes over for the first turn.                                *)
(*                                                                         *)
(* Each client has a connection thread of its own.  A request first loads  *)
(* a session wrapper, a private copy of the durable row, and only then     *)
(* takes the session's lock; what runs under the lock is one step here.    *)
(* The answers to the dialogs (play, draw, keep, redraw) read and write    *)
(* that copy.  Every other request (a priority sync, the phase stops)      *)
(* attaches the shared native port, makes the port's own checkpoint, live, *)
(* current, and writes it over the row.                                    *)
(***************************************************************************)
EXTENDS Integers, FiniteSets

CONSTANTS
    Winner, Loser,   \* of the coin flip
    Unset,           \* None: no seat, no copy, no port
    HandSize,        \* cards of an opening hand
    Eager,           \* do clients answer a dialog they have no green light for?
    MaxOther,        \* bound on each client's other requests
    OtherIn          \* the stages of the opening in which clients send those

\* What is assumed of the constants: a coin flip has a winner and a loser,
\* and None is no value of the checkpoint or the port.
OpeningAssumption ==
    /\ Winner # Loser /\ Unset \notin {Winner, Loser}
    /\ HandSize \in Nat \ {0} /\ MaxOther \in Nat /\ Eager \in BOOLEAN

Seats  == {Winner, Loser}
Opponent(p) == IF p = Winner THEN Loser ELSE Winner
Phases   == {"PickGoesFirst", "Mulligan", "StartGame", "Playing"}
OpeningRequests == {"play", "draw", "keep", "redraw", "sync", "stops"}

\* The checkpoint: turn_order in the row, _pvp_state in the port.
States == [phase : Phases, picked : BOOLEAN, turn : Seats,
           kept : SUBSET Seats, asked : Seats \cup {Unset},
           prio : Seats \cup {Unset},
           stops : SUBSET Seats]      \* whose stops_opp_ key is set
PortStates == [phase : Phases, turn : Seats, prio : Seats \cup {Unset},
               window : BOOLEAN]            \* a priority window is on its stack

NoPortAssumption == Unset \notin PortStates \cup States

ASSUME OpeningConstants == OpeningAssumption /\ NoPortAssumption

VARIABLES
    durable,   \* the row's checkpoint
    live,      \* the shared port's checkpoint
    port,      \* the shared port, Unset until a request attaches it
    conn,      \* per player: the request its thread serves, how far, its copy
    client,    \* per player: dialog shown, green light, requests left to send
    hand,      \* per player: cards in hand
    accepted,  \* the players told that their hand is accepted
    wish       \* the players whose client asked to stop on the opponent's turn

openVars == <<durable, live, port, conn, client, hand, accepted, wish>>

Idle == [at |-> "idle", req |-> "sync", copy |-> Unset]

OpeningInit ==
    /\ durable = [phase |-> "PickGoesFirst", picked |-> FALSE, turn |-> Winner,
                  kept |-> {}, asked |-> Unset, prio |-> Unset, stops |-> {}]
    /\ live = Unset
    /\ port = Unset
    /\ conn = [p \in Seats |-> Idle]
    /\ client = [p \in Seats |->
                   [dialog |-> IF p = Winner THEN "pick" ELSE "none",
                    light |-> p = Winner, again |-> FALSE, left |-> MaxOther]]
    /\ hand = [p \in Seats |-> 0]
    /\ accepted = {}
    /\ wish = {}

-----------------------------------------------------------------------------
(* The clients.  One request at a time; a client may send its keep again.  *)

Send(p, r) ==
    /\ conn[p].at = "idle"
    /\ conn' = [conn EXCEPT ![p] = [Idle EXCEPT !.at = "sent", !.req = r]]

MayAnswer(p, d) == client[p].dialog = d /\ (client[p].light \/ Eager)

Choose(p, r) ==
    /\ MayAnswer(p, "pick") /\ r \in {"play", "draw"}
    /\ Send(p, r)
    /\ UNCHANGED <<durable, live, port, client, hand, accepted, wish>>

AnswerHand(p, r) ==
    /\ MayAnswer(p, "hand")
    /\ r = "keep" \/ (r = "redraw" /\ hand[p] > 1)
    /\ Send(p, r)
    /\ client' = [client EXCEPT ![p].again = r = "keep"]
    /\ UNCHANGED <<durable, live, port, hand, accepted, wish>>

KeepAgain(p) ==
    /\ client[p].again
    /\ Send(p, "keep")
    /\ client' = [client EXCEPT ![p].again = FALSE]
    /\ UNCHANGED <<durable, live, port, hand, accepted, wish>>

SendOther(p, r) ==
    /\ durable.phase \in OtherIn /\ client[p].left > 0 /\ r \in {"sync", "stops"}
    /\ Send(p, r)
    /\ client' = [client EXCEPT ![p].left = @ - 1]
    /\ wish' = IF r = "stops" THEN wish \cup {p} ELSE wish
    /\ UNCHANGED <<durable, live, port, hand, accepted>>

-----------------------------------------------------------------------------
(* The connection threads.                                                 *)

\* find_session_by_player: the wrapper is loaded before any lock is taken.
Load(p) ==
    /\ conn[p].at = "sent"
    /\ conn' = [conn EXCEPT ![p].at = "loaded", ![p].copy = durable]
    /\ UNCHANGED <<durable, live, port, client, hand, accepted, wish>>

Serving(p, r) == conn[p].at = "loaded" /\ conn[p].req = r
Done(p)       == conn' = [conn EXCEPT ![p] = Idle]

\* Which clients see a dialog, and who holds the green light.
Show(d, owner) ==
    client' = [q \in Seats |->
                 [client[q] EXCEPT !.dialog = d[q], !.light = q = owner]]

Dialogs == [q \in Seats |-> client[q].dialog]

\* _handle_choose_pick_transaction.
PickStep(p, r) ==
    /\ Serving(p, r) /\ r \in {"play", "draw"}
    /\ Done(p)
    /\ LET d == conn[p].copy IN
       IF p # Winner \/ d.picked
         THEN UNCHANGED <<durable, client, hand>>
         ELSE /\ durable' = [d EXCEPT !.phase = "Mulligan", !.picked = TRUE,
                                !.turn = IF r = "play" THEN p ELSE Opponent(p),
                                !.asked = p]
              /\ hand' = [q \in Seats |-> hand[q] + HandSize]
              /\ Show([q \in Seats |-> "hand"], p)
    /\ UNCHANGED <<live, port, accepted, wish>>

\* sync_to_pvp_state: the port's view projected on a checkpoint.
Projected(d) == [d EXCEPT !.phase = port.phase, !.turn = port.turn,
                          !.prio = port.prio]

\* sync_from_pvp_state and sync_checkpoint on a port just built from d.
BuiltFrom(d) == [phase |-> d.phase, turn |-> d.turn, prio |-> d.prio,
                 window |-> d.prio # Unset]

\* mulligan_transition, when one of the hands is not kept yet.
NextAsked(d, p) == IF Opponent(p) \notin d.kept THEN Opponent(p) ELSE p

\* Mutant of BothKept: one hand is enough.
BothKeptHalf(d) == Cardinality(d.kept) >= 1

BothKept(d) == Cardinality(d.kept) >= 2

\* pvp_mulligan_next with a prompt: the green light changes hands.
Prompt(d, p, dialogs) ==
    LET n == NextAsked(d, p) IN
    /\ durable' = [d EXCEPT !.asked = n, !.prio = n]
    /\ Show(dialogs, n)
    /\ UNCHANGED <<live, port>>

\* pvp_mulligan_next once both hands are kept: attach the port (the shared
\* one, with its own checkpoint, if a request attached it before) and let it
\* run to the first turn.  It refuses unless it stands at the mulligan, and it
\* stops at StartGame when a window is left on its stack.
StartTurn(d, dialogs) ==
    LET s  == [d EXCEPT !.phase = "Mulligan", !.prio = Unset, !.asked = Unset]
        lv == IF port = Unset THEN s ELSE Projected(live)
        po == IF port = Unset THEN BuiltFrom(s) ELSE port
        at == IF po.window THEN "StartGame" ELSE "Playing"
        on == [lv EXCEPT !.phase = at, !.prio = lv.turn]
    IN IF po.phase \notin {"Mulligan", "StartGame"}
         THEN /\ durable' = s
              /\ live' = lv
              /\ Show(dialogs, Unset)
              /\ UNCHANGED port
         ELSE /\ durable' = on
              /\ live' = on
              /\ port' = [po EXCEPT !.phase = at, !.window = TRUE,
                            !.prio = IF at = "Playing" THEN lv.turn ELSE Unset]
              /\ Show([q \in Seats |-> "none"], lv.turn)

MulliganNext(d, p, dialogs) ==
    IF BothKept(d) THEN StartTurn(d, dialogs) ELSE Prompt(d, p, dialogs)

\* The guard against a keep sent twice.
AlreadyKept(d, p) == p \in d.kept

\* _handle_mulligan_keep_transaction.  The state "inside the lock" is still
\* the wrapper's.
KeepStep(p) ==
    /\ Serving(p, "keep")
    /\ Done(p)
    /\ LET d == conn[p].copy IN
       IF AlreadyKept(d, p)
         THEN UNCHANGED <<durable, live, port, client, accepted>>
         ELSE /\ accepted' = accepted \cup {p}
              /\ MulliganNext([d EXCEPT !.kept = @ \cup {p}], p,
                              [Dialogs EXCEPT ![p] = "none"])
    /\ UNCHANGED <<hand, wish>>

\* _handle_mulligan_redraw_transaction: one card fewer, at least one.
Redrawn(n) == IF n > 1 THEN n - 1 ELSE 1

RedrawStep(p) ==
    /\ Serving(p, "redraw")
    /\ Done(p)
    /\ hand' = [hand EXCEPT ![p] = Redrawn(@)]
    /\ MulliganNext(conn[p].copy, p, Dialogs)
    /\ UNCHANGED <<accepted, wish>>

\* attach_pvp_rules_port for any other request: the first one builds the
\* shared port from its copy and persists it, a later one only points its
\* wrapper at the port's checkpoint.
AttachStep(p) ==
    /\ conn[p].at = "loaded" /\ conn[p].req \in {"sync", "stops"}
    /\ conn' = [conn EXCEPT ![p].at = "attached", ![p].copy = Unset]
    /\ IF port = Unset
         THEN /\ live' = conn[p].copy
              /\ durable' = conn[p].copy
              /\ port' = BuiltFrom(conn[p].copy)
         ELSE live' = Projected(live) /\ UNCHANGED <<durable, port>>
    /\ UNCHANGED <<client, hand, accepted, wish>>

\* What set_stops stores: the sender's stops on the opponent's turn, under
\* the opponent's key.
StopsKey(p) == Opponent(p)

\* What the dispatch leaves in the row: the port's checkpoint.
Stored(p) ==
    IF conn[p].req = "stops"
      THEN [live EXCEPT !.stops = @ \cup {StopsKey(p)}] ELSE live

\* _dispatch_rules_port_transaction.
DispatchStep(p) ==
    /\ conn[p].at = "attached"
    /\ Done(p)
    /\ durable' = Stored(p)
    /\ live' = Stored(p)
    /\ port' = [phase |-> live.phase, turn |-> live.turn, prio |-> live.prio,
                window |-> port.window \/ live.prio # Unset]
    /\ UNCHANGED <<client, hand, accepted, wish>>

-----------------------------------------------------------------------------
ServeOpening(p) ==
    \/ Load(p)
    \/ \E r \in {"play", "draw"} : PickStep(p, r)
    \/ KeepStep(p)
    \/ RedrawStep(p)
    \/ AttachStep(p)
    \/ DispatchStep(p)

Answer(p) ==
    \/ \E r \in {"play", "draw"} : Choose(p, r)
    \/ \E r \in {"keep", "redraw"} : AnswerHand(p, r)

OpeningNext ==
    \E p \in Seats :
        \/ ServeOpening(p)
        \/ Answer(p)
        \/ KeepAgain(p)
        \/ \E r \in {"sync", "stops"} : SendOther(p, r)

OpeningSpec == OpeningInit /\ [][OpeningNext]_openVars

\* Connection threads run on, and a player who holds the green light of an
\* open dialog answers it in the end.
OpeningFairSpec ==
    /\ OpeningSpec
    /\ \A p \in Seats : WF_openVars(ServeOpening(p)) /\ WF_openVars(Answer(p))

-----------------------------------------------------------------------------
\* Types, and that the port is attached exactly when it has a checkpoint.
OpeningTypeOK ==
    /\ durable \in States
    /\ live \in States \cup {Unset}
    /\ port \in PortStates \cup {Unset}
    /\ port = Unset <=> live = Unset
    /\ conn \in [Seats ->
                   [at : {"idle", "sent", "loaded", "attached"},
                    req : OpeningRequests, copy : States \cup {Unset}]]
    /\ client \in [Seats -> [dialog : {"none", "pick", "hand"},
                               light : BOOLEAN, again : BOOLEAN,
                               left : 0..MaxOther]]
    /\ hand \in [Seats -> 0..HandSize]
    /\ accepted \subseteq Seats /\ wish \subseteq Seats

\* A keep that was accepted stays on record until the first turn: neither the
\* opponent's keep nor any other request writes an older checkpoint over it.
KeepsStand == durable.phase = "Mulligan" => accepted \subseteq durable.kept

\* The native scheduler is started only when both hands are accepted.
StartNeedsBoth ==
    durable.phase \in {"StartGame", "Playing"} => accepted = Seats

\* At most one player can answer a dialog at a time, the one the checkpoint
\* asks.
OneDecides ==
    \A p \in Seats :
        client[p].dialog = "hand" /\ client[p].light => durable.asked = p

\* While the first turn runs, the row, the port's checkpoint and the native
\* scheduler agree on the phase and the priority owner.
OneCheckpoint ==
    durable.phase = "Playing" =>
        durable = live /\ port.phase = durable.phase /\ port.prio = durable.prio

\* The opening is in order: every variable has its type; a keep that was
\* accepted stays on record until the first turn; the native scheduler is
\* started only when both hands are accepted; at most one player can answer a
\* dialog at a time, the one the checkpoint asks; and while the first turn
\* runs, row, port and scheduler agree.
OpeningIsOrderly ==
    OpeningTypeOK /\ KeepsStand /\ StartNeedsBoth /\ OneDecides /\ OneCheckpoint

=============================================================================
