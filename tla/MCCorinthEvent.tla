--------------------------- MODULE MCCorinthEvent ---------------------------
(***************************************************************************)
(* Five occasions of the event for TLC, explored side by side; each narrows *)
(* what may be asked of the server, and when.                              *)
(*   serial   ann and bob ask anything, one request at a time              *)
(*   overlap  searches and game timeouts of several threads interleave     *)
(*   rematch  the same when ann and bob have been matched already          *)
(*   live     searches and leaves, with one restart                        *)
(*   join     cat, who has no slot yet, joins the two                      *)
(***************************************************************************)
EXTENDS CorinthEvent

CONSTANTS ann, bob, cat

VARIABLE scene

Budget == [serial |-> 6, overlap |-> 4, rematch |-> 3, live |-> 3, join |-> 5]

\* What two searches of ann and bob leave behind.
Matched ==
  /\ started = FALSE /\ slots = Entered
  /\ signup = [p \in Players |-> IF p \in Entered THEN [NewSignup EXCEPT !.ready = TRUE]
                                 ELSE NoSignup]
  /\ pool = [p \in Players |-> p \in Entered] /\ online = pool
  /\ games = <<[pair |-> <<ann, bob>>, state |-> "playing"]>>
  /\ rows = {[id |-> 1, game |-> 1, pair |-> <<ann, bob>>, done |-> FALSE,
              winner |-> NoOne, live |-> {ann, bob}]}
  /\ nextId = 2
  /\ results = [p \in Players |-> <<>>] /\ mail = results
  /\ todo = [th \in Threads |-> <<>>]
  /\ matcher = NoOne /\ ending = {} /\ stale = {}
  /\ left = MaxRequests /\ restarts = 0

MCInit == /\ scene \in DOMAIN Budget
          /\ IF scene = "rematch" THEN Matched ELSE Init

Searching == \E p \in Players : Search(p)
Leaving == \E p \in Players : Leave(p)
Entering == \E p \in Players : Enter(p) \/ Reconnect(p)
TimingOut == \E g \in DOMAIN games, p \in Players : Timeout(g, p)
Ageing == \E g \in DOMAIN games : Age(g)

\* What each scene may begin.
Asked ==
  CASE scene = "serial" -> AtRest /\ Request
    [] scene \in {"overlap", "rematch"} -> Searching \/ TimingOut
    [] scene = "live" -> AtRest /\ (Searching \/ Leaving \/ Sweep)
    [] scene = "join" -> AtRest /\ (Entering \/ Searching \/ Leaving)

MCNext ==
  /\ UNCHANGED scene
  /\ \/ Asked /\ MaxRequests - left' <= Budget[scene]
     \/ \E th \in Threads : ThreadStep(th)
     \/ scene \in {"serial", "live"} /\ Ageing
     \/ scene = "live" /\ (RestartServer \/ RestartScheduler)
  /\ scene # "join" => todo'[cat] = <<>>

MCSpec == MCInit /\ [][MCNext]_<<scene, vars>>

Lively == scene \in {"overlap", "live"}

\* CorinthEvent's fairness, in the scenes that ask for it.
MCFairSpec ==
  /\ MCSpec
  /\ WF_vars(scene = "live" /\ AtRest /\ Sweep)
  /\ \A th \in Threads : WF_vars(Lively /\ ThreadStep(th))

InTurn == scene = "serial"

\* Runs are settled as the handlers intend when requests come one at a time,
\* for interleaved requests break it: a run is finalized once, within its
\* limits and, if it reached the wins, with one reward mail; a discarded match
\* counts for nobody; the event's two players are not left waiting for each
\* other.
RunsAreSettled ==
  /\ TypeOK
  /\ InTurn => /\ RunOnce
               /\ ScoreInLimits
               /\ RewardPerRun
               /\ DiscardNotCounted
               /\ ReadyPaired

\* What is on record stays: a completed match keeps its winner, the scheduler's
\* recovery closes stale matches only, and nobody loses a slot in a match.
RecordsStand == ResultStands /\ RecoverStaleOnly /\ SlotKept

\* Handlers whose requests overlap come to their end.
OverlapFinishes == scene = "overlap" => HandlersFinish

\* A run at its limit is retired in the end, whatever restart cut it short.
LiveRunsRetire == scene = "live" => RunsRetire
=============================================================================
