---------------------------- MODULE MCRulesLive ----------------------------
(* Two or three clients whose battle must get somewhere, also when the      *)
(* session is rebuilt from its checkpoint on the way, for TLC.              *)
EXTENDS RulesReconnect

CONSTANTS ann, bob, cat, a, t, c

Duel == <<ann, bob>>
KindOf == (a :> "ability") @@ (t :> "trigger") @@ (c :> "card")
KindsHere == [i \in Items |-> KindOf[i]]

\* The scheduler is treated as fairly before as after it is rebuilt.
FairReconnectSpec == ReconnectSpec /\ Fairness

\* The host's loops never run out: a request attaches its checkpoint only when
\* the session waits for a client.
AtRest == prompt \/ (TopWindow /\ ~Over(EnteredQueues(Queues)))

RestingNext == Begin \/ SubmitSome \/ Tick \/ Host \/ (AtRest /\ AttachSome)

RestingSpec ==
    ReconnectInit /\ [][RestingNext /\ UNCHANGED <<savedChain, restarts, nominee>>]_reconnectVars
=============================================================================
