----------------------------- MODULE UIEventBus -----------------------------
(* AsyncUIEventBus of rules_port/async_bridge.py: a request registers a      *)
(* future under its key, calls the subscribers one after the other and then  *)
(* waits for the future; transport code answers or cancels it by its key,    *)
(* in time, late or twice.                                                   *)
(*                                                                           *)
(* Everything runs in one asyncio loop: a coroutine runs without a break     *)
(* from one suspension to the next, and those that can go on do so in the    *)
(* order in which they became ready.  An action is such a piece.             *)
EXTENDS Naturals, Sequences

CONSTANTS
  Requests,   \* the requests that may be made
  Keys,       \* request ids, normalised by str()
  Handlers,   \* how many subscribers the event type has
  MaxSends,   \* bound: how often the answer to one request arrives
  NoRequest, Unanswered, Cancelled

ASSUME BusAssumption ==
  /\ Handlers \in Nat /\ MaxSends \in Nat
  /\ {NoRequest, Unanswered, Cancelled} \cap Requests = {}
  /\ Unanswered # Cancelled

VARIABLES
  pending,  \* _pending: the request whose future is registered under a key
  keyOf,    \* the key of each request
  at,       \* where the coroutine of each request is
  calls,    \* how many subscribers it has called
  reply,    \* its future: the request it was answered for, or not yet
  ready,    \* the loop's queue of coroutines that can go on
  sends     \* how often the answer to each request has arrived

vars == <<pending, keyOf, at, calls, reply, ready, sends>>

Replies == Requests \cup {Unanswered, Cancelled}
Places == {"new", "scheduled", "handler", "future", "closed", "refused", "failed"}

\* Registered: between the first step and the "finally" of request().
Live(r) == at[r] \in {"handler", "future"}
Over(r) == at[r] \in {"closed", "refused", "failed"}
Queued(r) == \E n \in DOMAIN ready : ready[n] = r

Init ==
  /\ pending = [k \in Keys |-> NoRequest]
  /\ keyOf \in [Requests -> Keys]
  /\ at = [r \in Requests |-> "new"]
  /\ calls = [r \in Requests |-> 0]
  /\ reply = [r \in Requests |-> Unanswered]
  /\ ready = <<>>
  /\ sends = [r \in Requests |-> 0]

--------------------------------------------------------------------------
\* The details a mistake would be made in, each after its mutant.

NeverTaken(k) == FALSE
Taken(k) == pending[k] # NoRequest

AlwaysWaits(a) == "future"
AfterHandlers(a) == IF a = Unanswered THEN "future" ELSE "closed"

HeldAt(place) == place \in {"handler", "future"}

Takes(f) == f # NoRequest /\ reply[f] = Unanswered

Called(n) == n

OnlyReady(f) == ready
Woken(f) == IF at[f] = "future" THEN Append(ready, f) ELSE ready

--------------------------------------------------------------------------
\* The pieces of a request.

\* request_nowait makes a task, which the loop starts in its turn.
RequestNowait(r) ==
  /\ at[r] = "new"
  /\ at' = [at EXCEPT ![r] = "scheduled"]
  /\ ready' = Append(ready, r)
  /\ UNCHANGED <<pending, keyOf, calls, reply, sends>>

\* request r runs on from subscriber m, which is 0 for the first piece or the
\* one that had suspended, up to subscriber n, which suspends or raises, or
\* to the end; a future that is done is not waited for.  One of the
\* subscribers that ran may have answered the request itself.
RunOn(r, m, registered) ==
  \E n \in m .. Handlers, own \in BOOLEAN, place \in Places :
    LET answer == IF own THEN r ELSE reply[r]
    IN  /\ own => n > 0 /\ reply[r] = Unanswered
        /\ \/ place = "handler" /\ n > m
           \/ place = "failed" /\ n > 0
           \/ place = AfterHandlers(answer) /\ n = Handlers
        /\ at' = [at EXCEPT ![r] = place]
        /\ calls' = [calls EXCEPT ![r] = Called(n)]
        /\ reply' = [reply EXCEPT ![r] = answer]
        /\ pending' = [registered EXCEPT
                         ![keyOf[r]] = IF HeldAt(place) THEN r ELSE NoRequest]

Begin(r) ==
  /\ at[r] = "scheduled"
  /\ IF Taken(keyOf[r])
     THEN /\ at' = [at EXCEPT ![r] = "refused"]  \* ValueError
          /\ UNCHANGED <<pending, calls, reply>>
     ELSE RunOn(r, 0, pending)

Resume(r) == at[r] = "handler" /\ RunOn(r, calls[r], pending)

\* The future is done: the request returns its result or raises its error.
Return(r) ==
  /\ at[r] = "future"
  /\ at' = [at EXCEPT ![r] = "closed"]
  /\ pending' = [pending EXCEPT ![keyOf[r]] = NoRequest]
  /\ UNCHANGED <<calls, reply>>

\* The loop runs the coroutine that became ready first.
RunNext ==
  /\ ready # <<>>
  /\ LET r == Head(ready) IN Begin(r) \/ Resume(r) \/ Return(r)
  /\ ready' = Tail(ready)
  /\ UNCHANGED <<keyOf, sends>>

\* What a suspended subscriber waits for is there.
HandlerReady(r) ==
  /\ at[r] = "handler" /\ ~Queued(r)
  /\ ready' = Append(ready, r)
  /\ UNCHANGED <<pending, keyOf, at, calls, reply, sends>>

--------------------------------------------------------------------------
\* The transport.

SetFuture(k, value) ==
  LET f == pending[k]
  IN  /\ IF Takes(f)
         THEN /\ reply' = [reply EXCEPT ![f] = value]
              /\ ready' = Woken(f)
         ELSE UNCHANGED <<reply, ready>>
      /\ UNCHANGED <<pending, keyOf, at, calls>>

\* A client's answer to request s arrives; it names its key only.
Respond(s) ==
  /\ calls[s] > 0 /\ sends[s] < MaxSends
  /\ sends' = [sends EXCEPT ![s] = @ + 1]
  /\ SetFuture(keyOf[s], s)

Cancel(k) ==
  /\ Taken(k)
  /\ SetFuture(k, Cancelled)
  /\ UNCHANGED sends

Next ==
  \/ RunNext
  \/ \E r \in Requests : RequestNowait(r) \/ HandlerReady(r) \/ Respond(r)
  \/ \E k \in Keys : Cancel(k)

Spec == Init /\ [][Next]_vars

\* The loop runs what is ready, and subscribers do not wait for ever.
Fairness == WF_vars(RunNext) /\ \A r \in Requests : WF_vars(HandlerReady(r))

FairSpec == Spec /\ Fairness

--------------------------------------------------------------------------
\* Properties.

\* Type invariant.
TypeOK ==
  /\ pending \in [Keys -> Requests \cup {NoRequest}]
  /\ keyOf \in [Requests -> Keys]
  /\ at \in [Requests -> Places]
  /\ calls \in [Requests -> 0 .. Handlers]
  /\ reply \in [Requests -> Replies]
  /\ ready \in Seq(Requests)
  /\ sends \in [Requests -> 0 .. MaxSends]

\* A key is taken exactly as long as the one request made under it runs,
\* however that request ends: no request that is over keeps later ones out,
\* and a refused one does not free the key of the request it met.
KeyOfItsRequest ==
  \A r \in Requests : Live(r) <=> pending[keyOf[r]] = r

\* No lost wake-up: a coroutine that waits for its future is in the loop's
\* queue, once, as soon as the future is done, and not before.
WokenWhenDone ==
  /\ \A r \in Requests : at[r] = "future" => (Queued(r) <=> reply[r] # Unanswered)
  /\ \A m, n \in DOMAIN ready : ready[m] = ready[n] => m = n

\* The first answer or cancellation of a request is final, and none reaches
\* a request that is over.
FirstAnswerStays ==
  [][\A r \in Requests :
        reply'[r] # reply[r] => reply[r] = Unanswered /\ (at[r] = "scheduled" \/ Live(r))]_vars

\* An answer that was meant for another request is only ever taken when that
\* one was made under the same key and is over.
StraysAreLate ==
  \A r, s \in Requests :
     reply[r] = s /\ s # r => keyOf[s] = keyOf[r] /\ Over(s)

\* The books of the bus are right: keys, queued wake-ups and answers are those
\* of the requests they belong to.
BooksAgree == KeyOfItsRequest /\ WokenWhenDone /\ StraysAreLate

\* What is promised of requests and answers.
Status ==
  [r \in Requests |-> IF Live(r) THEN "open" ELSE IF Over(r) THEN at[r] ELSE "new"]

Promise == INSTANCE RequestReply WITH
  Answers <- Requests, answer <- reply, status <- Status

KeepsPromise == Promise!Spec

\* A request that was answered comes to an end and frees its key.
AnsweredEnds ==
  \A r \in Requests : (Live(r) /\ reply[r] # Unanswered) ~> ~Live(r)

=============================================================================
