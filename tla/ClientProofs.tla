---------------------------- MODULE ClientProofs -----------------------------
(***************************************************************************)
(* What a client meets outside its games and inside one, for any set of    *)
(* users, connections, requests, keys and subscribers.                     *)
(*                                                                         *)
(* The event bus that asks it: a key is freed with its request, no wake-up *)
(* is lost, the first answer is final.                                     *)
(*                                                                         *)
(* The social tables and the registry: friendships are mutual and requests *)
(* are settled, which each transaction keeps and no push, login or         *)
(* disconnect touches; and no connection that was closed is in anybody's   *)
(* registry entry, whatever the pushes and the handlers' threads do in     *)
(* between.                                                                *)
(*                                                                         *)
(* The chat room, on the same connections: a registered member hears every *)
(* message, and where a player is connected once, nobody who is in the     *)
(* room is shown as gone from it.                                          *)
(***************************************************************************)
EXTENDS UIEventBus, Friends, ChatRoom, FiniteSetTheorems, SequenceTheorems, TLAPS

(***************************************************************************)
(* The event bus.                                                          *)
(***************************************************************************)

\* What the invariants need of each other: a registered future belongs to a
\* live request of that key; only a request that is under way is in the
\* loop's queue; a request that has not begun was neither shown nor answered.
Registered ==
  \A k \in Keys : pending[k] # NoRequest =>
     Live(pending[k]) /\ keyOf[pending[k]] = k

QueuedUnderWay == \A r \in Requests : Queued(r) => at[r] = "scheduled" \/ Live(r)

Unbegun ==
  \A r \in Requests : at[r] \in {"new", "scheduled"} =>
     calls[r] = 0 /\ reply[r] = Unanswered

IInv ==
  /\ TypeOK /\ KeyOfItsRequest /\ WokenWhenDone /\ StraysAreLate
  /\ Registered /\ QueuedUnderWay /\ Unbegun

--------------------------------------------------------------------------
\* The loop's queue.

Holds(q, e) == \E n \in DOMAIN q : q[n] = e
Distinct(q) == \A m, n \in DOMAIN q : q[m] = q[n] => m = n

\* Append keeps a queue free of repetitions, and adds one element.
LEMMA QueueAppend ==
  ASSUME NEW S, NEW q \in Seq(S), NEW e \in S, Distinct(q), ~Holds(q, e)
  PROVE  /\ Append(q, e) \in Seq(S)
         /\ Distinct(Append(q, e))
         /\ \A d \in S : Holds(Append(q, e), d) <=> Holds(q, d) \/ d = e
<1> DEFINE a == Append(q, e)
<1>1. /\ a \in Seq(S) /\ Len(a) = Len(q) + 1 /\ DOMAIN a = 1 .. Len(q) + 1
      /\ DOMAIN q = 1 .. Len(q) /\ Len(q) \in Nat
      /\ a[Len(q) + 1] = e /\ \A n \in 1 .. Len(q) : a[n] = q[n]
  OBVIOUS
<1>2. Distinct(a)
  BY <1>1 DEF Distinct, Holds
<1>3. ASSUME NEW d \in S PROVE Holds(a, d) <=> Holds(q, d) \/ d = e
  BY <1>1 DEF Holds
<1> QED BY <1>1, <1>2, <1>3

\* Tail takes the first element away, and that element alone.
LEMMA QueueTail ==
  ASSUME NEW S, NEW q \in Seq(S), q # <<>>, Distinct(q)
  PROVE  /\ Head(q) \in S /\ Holds(q, Head(q))
         /\ Tail(q) \in Seq(S)
         /\ Distinct(Tail(q))
         /\ \A d \in S : Holds(Tail(q), d) <=> Holds(q, d) /\ d # Head(q)
<1> DEFINE t == Tail(q)
<1>1. /\ t \in Seq(S) /\ Len(t) = Len(q) - 1 /\ DOMAIN t = 1 .. Len(q) - 1
      /\ DOMAIN q = 1 .. Len(q) /\ Len(q) \in Nat /\ Len(q) > 0
      /\ Head(q) = q[1] /\ \A n \in 1 .. Len(q) - 1 : t[n] = q[n + 1]
  OBVIOUS
<1>2. Head(q) \in S /\ Holds(q, Head(q))
  BY <1>1 DEF Holds
<1>3. Distinct(t)
  BY <1>1 DEF Distinct
<1>4. ASSUME NEW d \in S PROVE Holds(t, d) <=> Holds(q, d) /\ d # Head(q)
  <2>1. ASSUME Holds(t, d) PROVE Holds(q, d) /\ d # Head(q)
    <3>1. PICK n \in 1 .. Len(q) - 1 : t[n] = d
      BY <1>1, <2>1 DEF Holds
    <3>2. q[n + 1] = d /\ n + 1 \in DOMAIN q /\ n + 1 # 1 /\ 1 \in DOMAIN q
      BY <3>1, <1>1
    <3> QED BY <3>2, <1>1 DEF Holds, Distinct
  <2>2. ASSUME Holds(q, d), d # Head(q) PROVE Holds(t, d)
    <3>1. PICK n \in DOMAIN q : q[n] = d
      BY <2>2 DEF Holds
    <3>2. n # 1 /\ n - 1 \in DOMAIN t /\ t[n - 1] = d
      BY <3>1, <2>2, <1>1
    <3> QED BY <3>2 DEF Holds
  <2> QED BY <2>1, <2>2
<1> QED BY <1>1, <1>2, <1>3, <1>4

--------------------------------------------------------------------------
\* The invariant is inductive: one lemma for each action.

LEMMA InitInv == Init => IInv
  BY BusAssumption DEF Init, IInv, TypeOK, Places, Replies, KeyOfItsRequest,
     WokenWhenDone, StraysAreLate, Registered, QueuedUnderWay, Unbegun, Live,
     Over, Queued

\* In terms of the queue lemmas.
LEMMA QueueFacts ==
  ASSUME IInv
  PROVE  /\ ready \in Seq(Requests) /\ Distinct(ready)
         /\ \A r \in Requests : Queued(r) <=> Holds(ready, r)
  BY DEF IInv, TypeOK, WokenWhenDone, Distinct, Holds, Queued

\* A request that neither is queued nor was: it is queued from now on.
LEMMA AppendStep ==
  ASSUME IInv, NEW r \in Requests, ~Queued(r), ready' = Append(ready, r)
  PROVE  /\ ready' \in Seq(Requests)
         /\ \A m, n \in DOMAIN ready' : ready'[m] = ready'[n] => m = n
         /\ \A s \in Requests : Queued(s)' <=> Queued(s) \/ s = r
  BY QueueFacts, QueueAppend DEF Distinct, Holds, Queued

\* The coroutine that runs leaves the queue.
LEMMA TailStep ==
  ASSUME IInv, ready # <<>>, ready' = Tail(ready)
  PROVE  /\ Head(ready) \in Requests /\ Queued(Head(ready))
         /\ ready' \in Seq(Requests)
         /\ \A m, n \in DOMAIN ready' : ready'[m] = ready'[n] => m = n
         /\ \A s \in Requests : Queued(s)' <=> Queued(s) /\ s # Head(ready)
  BY QueueFacts, QueueTail DEF Distinct, Holds, Queued

LEMMA RequestStep ==
  ASSUME IInv, NEW r \in Requests, RequestNowait(r)
  PROVE  IInv'
<1> USE DEF IInv, TypeOK, RequestNowait, Places
<1>1. ~Queued(r)
  BY DEF QueuedUnderWay, Live
<1>2. /\ ready' \in Seq(Requests)
      /\ \A m, n \in DOMAIN ready' : ready'[m] = ready'[n] => m = n
      /\ \A s \in Requests : Queued(s)' <=> Queued(s) \/ s = r
  BY <1>1, AppendStep
<1>3. \A s \in Requests : (Live(s)' <=> Live(s)) /\ (Over(s)' <=> Over(s))
  BY DEF Live, Over
<1>4. TypeOK'
  BY <1>2
<1>5. KeyOfItsRequest' /\ Registered'
  BY <1>3 DEF KeyOfItsRequest, Registered
<1>6. WokenWhenDone'
  BY <1>2 DEF WokenWhenDone
<1>7. StraysAreLate'
  BY <1>3 DEF StraysAreLate
<1>8. QueuedUnderWay' /\ Unbegun'
  BY <1>2, <1>3 DEF QueuedUnderWay, Unbegun
<1> QED BY <1>4, <1>5, <1>6, <1>7, <1>8

LEMMA HandlerReadyStep ==
  ASSUME IInv, NEW r \in Requests, HandlerReady(r)
  PROVE  IInv'
<1> USE DEF IInv, TypeOK, HandlerReady
<1>1. /\ ready' \in Seq(Requests)
      /\ \A m, n \in DOMAIN ready' : ready'[m] = ready'[n] => m = n
      /\ \A s \in Requests : Queued(s)' <=> Queued(s) \/ s = r
  BY AppendStep
<1>2. TypeOK'
  BY <1>1
<1>3. KeyOfItsRequest' /\ Registered' /\ StraysAreLate' /\ Unbegun'
  BY DEF KeyOfItsRequest, Registered, StraysAreLate, Unbegun, Live, Over
<1>4. WokenWhenDone'
  BY <1>1 DEF WokenWhenDone
<1>5. QueuedUnderWay'
  BY <1>1 DEF QueuedUnderWay, Live
<1> QED BY <1>2, <1>3, <1>4, <1>5

\* The future of a live request is done now, and a coroutine that waits for
\* it is woken.
LEMMA SetFutureStep ==
  ASSUME IInv, NEW k \in Keys, NEW v \in Replies \ {Unanswered},
         SetFuture(k, v), sends' \in [Requests -> 0 .. MaxSends],
         v \in Requests => keyOf[v] = k /\ calls[v] > 0
  PROVE  IInv'
<1> DEFINE f == pending[k]
<1> USE DEF IInv, TypeOK
<1>1. CASE ~Takes(f)
  <2>1. UNCHANGED <<reply, ready, pending, keyOf, at, calls>>
    BY <1>1 DEF SetFuture
  <2> QED BY <2>1 DEF KeyOfItsRequest, WokenWhenDone, StraysAreLate, Registered,
             QueuedUnderWay, Unbegun, Live, Over, Queued
<1>2. CASE Takes(f)
  <2>1. /\ f \in Requests /\ reply[f] = Unanswered /\ Live(f) /\ keyOf[f] = k
        /\ reply' = [reply EXCEPT ![f] = v] /\ ready' = Woken(f)
        /\ UNCHANGED <<pending, keyOf, at, calls>>
    BY <1>2 DEF SetFuture, Takes, Registered
  <2>2. \A s \in Requests : (Live(s)' <=> Live(s)) /\ (Over(s)' <=> Over(s))
    BY <2>1 DEF Live, Over
  <2>3. /\ ready' \in Seq(Requests)
        /\ \A m, n \in DOMAIN ready' : ready'[m] = ready'[n] => m = n
        /\ \A s \in Requests :
             Queued(s)' <=> Queued(s) \/ (s = f /\ at[f] = "future")
    <3>1. CASE at[f] = "future"
      <4>1. ~Queued(f) /\ ready' = Append(ready, f)
        BY <3>1, <2>1 DEF WokenWhenDone, Woken
      <4> QED BY <4>1, <3>1, <2>1, AppendStep
    <3>2. CASE at[f] # "future"
      <4>1. ready' = ready
        BY <3>2, <2>1 DEF Woken
      <4> QED BY <4>1, <3>2 DEF WokenWhenDone, Queued
    <3> QED BY <3>1, <3>2
  <2>4. TypeOK'
    BY <2>1, <2>3
  <2>5. KeyOfItsRequest' /\ Registered'
    BY <2>1, <2>2 DEF KeyOfItsRequest, Registered
  <2>6. WokenWhenDone'
    BY <2>1, <2>3 DEF WokenWhenDone, Replies
  <2>7. StraysAreLate'
    <3>1. SUFFICES ASSUME NEW r \in Requests, NEW s \in Requests,
                          reply'[r] = s, s # r
                   PROVE  (keyOf[s] = keyOf[r] /\ Over(s))'
      BY DEF StraysAreLate
    <3>2. CASE r # f
      BY <3>1, <3>2, <2>1, <2>2 DEF StraysAreLate
    <3>3. CASE r = f
      <4>1. s = v /\ keyOf[s] = k /\ calls[s] > 0
        BY <3>1, <3>3, <2>1
      <4>2. ~Live(s)
        BY <4>1, <3>1, <3>3, <2>1 DEF KeyOfItsRequest
      <4>3. at[s] \notin {"new", "scheduled"}
        BY <4>1 DEF Unbegun
      <4>4. Over(s)
        BY <4>2, <4>3 DEF Live, Over, Places
      <4> QED BY <4>1, <4>4, <3>3, <2>1, <2>2
    <3> QED BY <3>2, <3>3
  <2>8. QueuedUnderWay'
    BY <2>1, <2>2, <2>3 DEF QueuedUnderWay
  <2>9. Unbegun'
    BY <2>1 DEF Unbegun, Live
  <2> QED BY <2>4, <2>5, <2>6, <2>7, <2>8, <2>9, <2>1
<1> QED BY <1>1, <1>2

LEMMA RespondStep ==
  ASSUME IInv, NEW s \in Requests, Respond(s)
  PROVE  IInv'
<1>1. /\ s \in Replies \ {Unanswered} /\ keyOf[s] \in Keys
      /\ sends' \in [Requests -> 0 .. MaxSends]
  BY BusAssumption DEF IInv, TypeOK, Respond, Replies
<1> QED BY <1>1, SetFutureStep DEF Respond

LEMMA CancelStep ==
  ASSUME IInv, NEW k \in Keys, Cancel(k)
  PROVE  IInv'
<1>1. /\ Cancelled \in Replies \ {Unanswered} /\ Cancelled \notin Requests
      /\ sends' \in [Requests -> 0 .. MaxSends]
  BY BusAssumption DEF IInv, TypeOK, Cancel, Replies
<1> QED BY <1>1, SetFutureStep DEF Cancel

\* A piece of a request: its key is held exactly while it is not over, and it
\* waits for its future only when that is not done.
LEMMA RunOnStep ==
  ASSUME IInv, ready # <<>>, ready' = Tail(ready), UNCHANGED <<keyOf, sends>>,
         NEW r \in Requests, r = Head(ready), NEW m \in 0 .. Handlers,
         RunOn(r, m, pending),
         \/ at[r] = "scheduled" /\ ~Taken(keyOf[r])
         \/ at[r] = "handler"
  PROVE  IInv'
<1> DEFINE key == keyOf[r]
<1> USE DEF IInv, TypeOK
<1>1. PICK n \in m .. Handlers, own \in BOOLEAN, place \in Places :
        LET answer == IF own THEN r ELSE reply[r]
        IN  /\ own => n > 0 /\ reply[r] = Unanswered
            /\ \/ place = "handler" /\ n > m
               \/ place = "failed" /\ n > 0
               \/ place = AfterHandlers(answer) /\ n = Handlers
            /\ at' = [at EXCEPT ![r] = place]
            /\ calls' = [calls EXCEPT ![r] = n]
            /\ reply' = [reply EXCEPT ![r] = answer]
            /\ pending' = [pending EXCEPT
                             ![keyOf[r]] = IF HeldAt(place) THEN r ELSE NoRequest]
  BY DEF RunOn, Called
<1> DEFINE answer == IF own THEN r ELSE reply[r]
<1>2. /\ answer \in Replies /\ key \in Keys /\ n \in 0 .. Handlers
      /\ place \in {"handler", "failed", "future", "closed"}
      /\ place = "future" => answer = Unanswered
  BY <1>1, BusAssumption DEF Replies, AfterHandlers
<1>3. /\ at' = [at EXCEPT ![r] = place] /\ calls' = [calls EXCEPT ![r] = n]
      /\ reply' = [reply EXCEPT ![r] = answer]
      /\ pending' = [pending EXCEPT ![key] = IF HeldAt(place) THEN r ELSE NoRequest]
      /\ keyOf' = keyOf /\ sends' = sends
  BY <1>1
<1>4. pending[key] \in {r, NoRequest} /\ at[r] \in {"scheduled", "handler"}
  BY DEF Taken, KeyOfItsRequest, Live
<1>5. /\ ready' \in Seq(Requests)
      /\ \A i, j \in DOMAIN ready' : ready'[i] = ready'[j] => i = j
      /\ \A s \in Requests : Queued(s)' <=> Queued(s) /\ s # r
  BY TailStep
<1>6. /\ Live(r)' <=> HeldAt(place)
      /\ \A s \in Requests \ {r} : (Live(s)' <=> Live(s)) /\ (Over(s)' <=> Over(s))
      /\ ~Over(r)
  BY <1>3, <1>4 DEF Live, Over, HeldAt
<1>7. TypeOK'
  BY <1>2, <1>3, <1>5
<1>8. KeyOfItsRequest'
  <2>1. ASSUME NEW s \in Requests PROVE (Live(s) <=> pending[keyOf[s]] = s)'
    <3>1. CASE s = r
      BY <3>1, <1>2, <1>3, <1>6, BusAssumption
    <3>2. CASE s # r
      <4>1. CASE keyOf[s] = key
        <5>1. pending[key] # s /\ pending'[key] # s
          BY <3>2, <4>1, <1>3, <1>4, <1>2, BusAssumption
        <5> QED BY <5>1, <4>1, <3>2, <1>6, <1>3 DEF KeyOfItsRequest
      <4>2. CASE keyOf[s] # key
        BY <3>2, <4>2, <1>3, <1>6 DEF KeyOfItsRequest
      <4> QED BY <4>1, <4>2
    <3> QED BY <3>1, <3>2
  <2> QED BY <2>1 DEF KeyOfItsRequest
<1>9. Registered'
  <2>1. SUFFICES ASSUME NEW k \in Keys, pending'[k] # NoRequest
                 PROVE  (Live(pending[k]) /\ keyOf[pending[k]] = k)'
    BY DEF Registered
  <2>2. CASE k = key
    BY <2>1, <2>2, <1>2, <1>3, <1>6
  <2>3. CASE k # key
    <3>1. pending'[k] = pending[k] /\ pending[k] \in Requests
          /\ Live(pending[k]) /\ keyOf[pending[k]] = k
      BY <2>1, <2>3, <1>3 DEF Registered
    <3>2. pending[k] # r
      BY <3>1, <2>3
    <3> QED BY <3>1, <3>2, <1>3, <1>6
  <2> QED BY <2>2, <2>3
<1>10. WokenWhenDone'
  BY <1>2, <1>3, <1>5 DEF WokenWhenDone
<1>11. StraysAreLate'
  <2>1. SUFFICES ASSUME NEW t \in Requests, NEW s \in Requests,
                        reply'[t] = s, s # t
                 PROVE  (keyOf[s] = keyOf[t] /\ Over(s))'
    BY DEF StraysAreLate
  <2>2. reply[t] = s
    BY <2>1, <1>3
  <2>3. keyOf[s] = keyOf[t] /\ Over(s)
    BY <2>2, <2>1 DEF StraysAreLate
  <2> QED BY <2>3, <1>3, <1>6
<1>12. QueuedUnderWay'
  BY <1>3, <1>5, <1>6 DEF QueuedUnderWay
<1>13. Unbegun'
  BY <1>2, <1>3 DEF Unbegun
<1> QED BY <1>7, <1>8, <1>9, <1>10, <1>11, <1>12, <1>13

\* A request that ends without running a subscriber, refused or answered.
LEMMA EndStep ==
  ASSUME IInv, ready # <<>>, ready' = Tail(ready), UNCHANGED <<keyOf, sends>>,
         NEW r \in Requests, r = Head(ready), UNCHANGED <<calls, reply>>,
         \/ /\ at[r] = "scheduled" /\ UNCHANGED pending
            /\ at' = [at EXCEPT ![r] = "refused"]
         \/ Return(r)
  PROVE  IInv'
<1> USE DEF IInv, TypeOK
<1>1. /\ ready' \in Seq(Requests)
      /\ \A i, j \in DOMAIN ready' : ready'[i] = ready'[j] => i = j
      /\ \A s \in Requests : Queued(s)' <=> Queued(s) /\ s # r
  BY TailStep
<1>2. /\ keyOf[r] \in Keys
      /\ at' \in [Requests -> Places] /\ at'[r] \in {"refused", "closed"}
      /\ \A s \in Requests \ {r} : at'[s] = at[s]
      /\ at[r] = "scheduled" \/ (at[r] = "future" /\ pending[keyOf[r]] = r)
      /\ IF Live(r) THEN pending' = [pending EXCEPT ![keyOf[r]] = NoRequest]
                    ELSE pending' = pending
  BY DEF Return, Places, KeyOfItsRequest, Live
<1>3. /\ ~Live(r)' /\ Over(r)' /\ ~Over(r)
      /\ \A s \in Requests \ {r} : (Live(s)' <=> Live(s)) /\ (Over(s)' <=> Over(s))
  BY <1>2 DEF Live, Over
<1>4. TypeOK'
  BY <1>1, <1>2
<1>5. KeyOfItsRequest'
  BY <1>2, <1>3, BusAssumption DEF KeyOfItsRequest
<1>6. Registered'
  BY <1>2, <1>3 DEF Registered
<1>7. WokenWhenDone'
  BY <1>1, <1>2 DEF WokenWhenDone
<1>8. StraysAreLate'
  BY <1>3 DEF StraysAreLate
<1>9. QueuedUnderWay' /\ Unbegun'
  BY <1>1, <1>2, <1>3 DEF QueuedUnderWay, Unbegun, Live
<1> QED BY <1>4, <1>5, <1>6, <1>7, <1>8, <1>9

LEMMA RunNextStep == IInv /\ RunNext => IInv'
<1> SUFFICES ASSUME IInv, RunNext PROVE IInv'
  OBVIOUS
<1> DEFINE r == Head(ready)
<1>1. /\ ready # <<>> /\ ready' = Tail(ready) /\ UNCHANGED <<keyOf, sends>>
      /\ r \in Requests /\ (Begin(r) \/ Resume(r) \/ Return(r))
  BY TailStep DEF RunNext
<1>2. CASE Begin(r) /\ Taken(keyOf[r])
  BY <1>1, <1>2, EndStep DEF Begin
<1>3. CASE Begin(r) /\ ~Taken(keyOf[r])
  <2>1. 0 \in 0 .. Handlers /\ RunOn(r, 0, pending) /\ at[r] = "scheduled"
    BY <1>3, BusAssumption DEF Begin
  <2> QED BY <2>1, <1>1, <1>3, RunOnStep
<1>4. CASE Resume(r)
  <2>1. calls[r] \in 0 .. Handlers
    BY <1>1 DEF IInv, TypeOK
  <2> QED BY <2>1, <1>1, <1>4, RunOnStep DEF Resume
<1>5. CASE Return(r)
  BY <1>1, <1>5, EndStep DEF Return
<1> QED BY <1>1, <1>2, <1>3, <1>4, <1>5

LEMMA StepInv == IInv /\ [Next]_vars => IInv'
<1> SUFFICES ASSUME IInv, [Next]_vars PROVE IInv'
  OBVIOUS
<1>1. CASE RunNext
  BY <1>1, RunNextStep
<1>2. ASSUME NEW r \in Requests,
             RequestNowait(r) \/ HandlerReady(r) \/ Respond(r)
      PROVE  IInv'
  BY <1>2, RequestStep, HandlerReadyStep, RespondStep
<1>3. ASSUME NEW k \in Keys, Cancel(k) PROVE IInv'
  BY <1>3, CancelStep
<1>4. CASE UNCHANGED vars
  BY <1>4 DEF vars, IInv, TypeOK, KeyOfItsRequest, WokenWhenDone, StraysAreLate,
     Registered, QueuedUnderWay, Unbegun, Live, Over, Queued
<1> QED BY <1>1, <1>2, <1>3, <1>4 DEF Next

LEMMA Invariant == Spec => []IInv
  BY InitInv, StepInv, PTL DEF Spec

--------------------------------------------------------------------------
\* Theorems.

\* Every variable keeps to its values, whatever clients and subscribers do.
THEOREM TypeCorrect == Spec => []TypeOK
  BY Invariant, PTL DEF IInv

\* The key of request() is taken exactly as long as its request runs: the
\* check for a pending one and the "finally" fit together on every path.
THEOREM KeysAreFreed == Spec => []KeyOfItsRequest
  BY Invariant, PTL DEF IInv

\* A coroutine that waits for its future is woken once, when it is done.
THEOREM NoLostWakeUp == Spec => []WokenWhenDone
  BY Invariant, PTL DEF IInv

\* respond hands a request the answer to another only when that one was made
\* under the same key and is over.
THEOREM OnlyLateStrays == Spec => []StraysAreLate
  BY Invariant, PTL DEF IInv

\* Keys, futures and answers agree about every request, at every moment
\* (rules_port/async_bridge.py).
THEOREM BooksAlwaysAgree == Spec => []BooksAgree
<1>1. IInv => BooksAgree
  BY DEF IInv, BooksAgree
<1> QED BY <1>1, Invariant, PTL

\* What a step does to one request.
LEMMA ReplyStep ==
  ASSUME IInv, [Next]_vars, NEW r \in Requests, reply'[r] # reply[r]
  PROVE  reply[r] = Unanswered /\ (at[r] = "scheduled" \/ Live(r))
<1> USE DEF IInv, TypeOK
<1>1. CASE RunNext
  <2> DEFINE h == Head(ready)
  <2>1. h \in Requests /\ (Begin(h) \/ Resume(h) \/ Return(h))
    BY <1>1, TailStep DEF RunNext
  <2>2. ASSUME NEW m \in 0 .. Handlers, RunOn(h, m, pending)
        PROVE  r = h /\ reply[h] = Unanswered
    BY <2>1, <2>2 DEF RunOn
  <2>3. calls[h] \in 0 .. Handlers /\ 0 \in 0 .. Handlers
    BY <2>1, BusAssumption
  <2>4. CASE Begin(h)
    BY <2>4, <2>2, <2>3 DEF Begin
  <2>5. CASE Resume(h)
    BY <2>5, <2>2, <2>3 DEF Resume, Live
  <2>6. CASE Return(h)
    BY <2>6 DEF Return
  <2> QED BY <2>1, <2>4, <2>5, <2>6
<1>2. ASSUME NEW k \in Keys, NEW v, SetFuture(k, v)
      PROVE  reply[r] = Unanswered /\ Live(r)
  <2>1. Takes(pending[k]) /\ r = pending[k]
    BY <1>2 DEF SetFuture, Takes
  <2> QED BY <2>1, <1>2 DEF Takes, Registered
<1>3. ASSUME NEW s \in Requests, RequestNowait(s) \/ HandlerReady(s) \/ Respond(s)
      PROVE  reply[r] = Unanswered /\ Live(r)
  <2>1. Respond(s)
    BY <1>3 DEF RequestNowait, HandlerReady
  <2> QED BY <2>1, <1>2 DEF Respond
<1>4. ASSUME NEW k \in Keys, Cancel(k)
      PROVE  reply[r] = Unanswered /\ Live(r)
  BY <1>4, <1>2 DEF Cancel
<1>5. CASE UNCHANGED vars
  BY <1>5 DEF vars
<1> QED BY <1>1, <1>3, <1>4, <1>5 DEF Next

\* The first answer or cancellation of a request is final.
THEOREM FirstAnswerIsFinal == Spec => FirstAnswerStays
<1>1. IInv /\ [Next]_vars =>
        [\A r \in Requests :
            reply'[r] # reply[r] =>
              reply[r] = Unanswered /\ (at[r] = "scheduled" \/ Live(r))]_vars
  BY ReplyStep
<1> QED BY <1>1, Invariant, PTL DEF Spec, FirstAnswerStays

--------------------------------------------------------------------------
\* The bus implements RequestReply.

LEMMA PromiseInit == Init => Promise!Init
  BY DEF Init, Promise!Init, Status, Live, Over

\* The status of one request after a step that moves at most that one.
LEMMA StatusStep ==
  ASSUME IInv, NEW r \in Requests, NEW place \in Places,
         at' = [at EXCEPT ![r] = place]
  PROVE  Status' = [Status EXCEPT ![r] =
                      IF place \in {"handler", "future"} THEN "open"
                      ELSE IF place \in {"closed", "refused", "failed"} THEN place
                      ELSE "new"]
  BY DEF IInv, TypeOK, Status, Live, Over

\* A piece of a request is an abstract opening, answer, end or nothing.
LEMMA PromiseRunOn ==
  ASSUME IInv, UNCHANGED keyOf, NEW r \in Requests, NEW m \in 0 .. Handlers,
         RunOn(r, m, pending),
         \/ at[r] = "scheduled" /\ ~Taken(keyOf[r])
         \/ at[r] = "handler"
  PROVE  Promise!Next \/ UNCHANGED <<Status, reply>>
<1> USE DEF IInv, TypeOK
<1>1. PICK n \in m .. Handlers, own \in BOOLEAN, place \in Places :
        LET answer == IF own THEN r ELSE reply[r]
        IN  /\ own => n > 0 /\ reply[r] = Unanswered
            /\ \/ place = "handler" /\ n > m
               \/ place = "failed" /\ n > 0
               \/ place = AfterHandlers(answer) /\ n = Handlers
            /\ at' = [at EXCEPT ![r] = place]
            /\ reply' = [reply EXCEPT ![r] = answer]
  BY DEF RunOn
<1> DEFINE answer == IF own THEN r ELSE reply[r]
           after == IF place \in {"handler", "future"} THEN "open" ELSE place
<1>2. /\ reply' = [reply EXCEPT ![r] = answer] /\ keyOf' = keyOf
      /\ place \in {"handler", "failed", "future", "closed"}
      /\ place = "closed" => answer # Unanswered
      /\ own => reply[r] = Unanswered
  BY <1>1, BusAssumption DEF AfterHandlers
<1>3. /\ Status' = [Status EXCEPT ![r] = after]
      /\ after \in {"open", "closed", "failed"}
      /\ after = "closed" => answer # Unanswered
  BY <1>1, <1>2, StatusStep
<1>4. CASE at[r] = "scheduled" /\ ~Taken(keyOf[r])
  <2>1. Status[r] = "new" /\ reply[r] = Unanswered
    BY <1>4 DEF Status, Live, Over, Unbegun
  <2>2. Promise!OpenUnder(keyOf[r]) = {}
    <3>1. ASSUME NEW q \in Requests, Status[q] = "open", keyOf[q] = keyOf[r]
          PROVE  FALSE
      <4>1. Live(q)
        BY <3>1 DEF Status, Over
      <4>2. pending[keyOf[r]] = q
        BY <3>1, <4>1 DEF KeyOfItsRequest
      <4> QED BY <1>4, <4>2, BusAssumption DEF Taken
    <3> QED BY <3>1 DEF Promise!OpenUnder
  <2>3. answer \in Requests \cup {Unanswered}
    BY <2>1
  <2>4. Promise!Open(r)
    BY <2>1, <2>2, <2>3, <1>2, <1>3 DEF Promise!Open
  <2> QED BY <2>4 DEF Promise!Next
<1>5. CASE at[r] = "handler"
  <2>1. Status[r] = "open"
    BY <1>5 DEF Status, Live
  <2>2. CASE own
    <3>1. Promise!Answer(r)
      BY <2>1, <2>2, <1>2, <1>3 DEF Promise!Answer
    <3> QED BY <3>1 DEF Promise!Next
  <2>3. CASE ~own /\ after = "open"
    <3>1. reply' = reply /\ Status' = Status
      BY <2>1, <2>3, <1>2, <1>3 DEF Status
    <3> QED BY <3>1
  <2>4. CASE ~own /\ after = "closed"
    <3>1. reply' = reply /\ reply[r] # Unanswered
      BY <2>4, <1>2, <1>3
    <3>2. Promise!Close(r)
      BY <3>1, <2>1, <2>4, <1>2, <1>3 DEF Promise!Close
    <3> QED BY <3>2 DEF Promise!Next
  <2>5. CASE ~own /\ after = "failed"
    <3>1. Promise!Fail(r)
      BY <2>1, <2>5, <1>2, <1>3 DEF Promise!Fail
    <3> QED BY <3>1 DEF Promise!Next
  <2> QED BY <2>2, <2>3, <2>4, <2>5, <1>3
<1> QED BY <1>4, <1>5

\* An answer or a cancellation from outside.
LEMMA PromiseSetFuture ==
  ASSUME IInv, NEW k \in Keys, NEW v \in Requests \cup {Cancelled}, SetFuture(k, v)
  PROVE  Promise!Next \/ UNCHANGED <<Status, keyOf, reply>>
<1> DEFINE f == pending[k]
<1> USE DEF IInv, TypeOK
<1>1. Status' = Status /\ keyOf' = keyOf
  BY DEF SetFuture, Status, Live, Over
<1>2. CASE ~Takes(f)
  BY <1>1, <1>2 DEF SetFuture
<1>3. CASE Takes(f)
  <2>1. /\ f \in Requests /\ Status[f] = "open" /\ reply[f] = Unanswered
        /\ reply' = [reply EXCEPT ![f] = v]
    BY <1>3 DEF SetFuture, Takes, Registered, Status
  <2>2. Status' = [Status EXCEPT ![f] = "open"]
    BY <2>1, <1>1 DEF Status
  <2>3. Promise!Answer(f)
    BY <2>1, <2>2, <1>1 DEF Promise!Answer
  <2> QED BY <2>1, <2>3 DEF Promise!Next
<1> QED BY <1>2, <1>3

LEMMA PromiseStep ==
  ASSUME IInv, [Next]_vars
  PROVE  [Promise!Next]_<<Status, keyOf, reply>>
<1> USE DEF IInv, TypeOK
<1>1. CASE RunNext
  <2> DEFINE r == Head(ready)
  <2>1. r \in Requests /\ keyOf' = keyOf /\ (Begin(r) \/ Resume(r) \/ Return(r))
    BY <1>1, TailStep DEF RunNext
  <2>2. calls[r] \in 0 .. Handlers /\ 0 \in 0 .. Handlers /\ keyOf[r] \in Keys
    BY <2>1, BusAssumption
  <2>3. CASE Begin(r) /\ Taken(keyOf[r])
    <3>1. /\ Status[r] = "new" /\ reply' = reply
          /\ at' = [at EXCEPT ![r] = "refused"] /\ "refused" \in Places
      BY <2>1, <2>3 DEF Begin, Status, Live, Over, Places
    <3>2. Status' = [Status EXCEPT ![r] = "refused"]
      BY <3>1, <2>1, StatusStep
    <3>3. pending[keyOf[r]] \in Promise!OpenUnder(keyOf[r])
      BY <2>2, <2>3 DEF Taken, Registered, Promise!OpenUnder, Status
    <3>4. Promise!Refuse(r)
      BY <3>1, <3>2, <3>3, <2>1 DEF Promise!Refuse
    <3> QED BY <3>4, <2>1 DEF Promise!Next
  <2>4. CASE Begin(r) /\ ~Taken(keyOf[r])
    <3>1. RunOn(r, 0, pending) /\ at[r] = "scheduled"
      BY <2>4 DEF Begin
    <3> QED BY <3>1, <2>1, <2>2, <2>4, PromiseRunOn
  <2>5. CASE Resume(r)
    <3>1. RunOn(r, calls[r], pending) /\ at[r] = "handler"
      BY <2>5 DEF Resume
    <3> QED BY <3>1, <2>1, <2>2, PromiseRunOn
  <2>6. CASE Return(r)
    <3>1. /\ Status[r] = "open" /\ reply' = reply
          /\ at' = [at EXCEPT ![r] = "closed"] /\ "closed" \in Places
      BY <2>6, <2>1 DEF Return, Status, Live, Places
    <3>2. reply[r] # Unanswered
      BY <2>6, <2>1, <1>1, TailStep DEF Return, WokenWhenDone, RunNext
    <3>3. Status' = [Status EXCEPT ![r] = "closed"]
      BY <3>1, <2>1, StatusStep
    <3>4. Promise!Close(r)
      BY <3>1, <3>2, <3>3, <2>1 DEF Promise!Close
    <3> QED BY <3>4, <2>1 DEF Promise!Next
  <2> QED BY <2>1, <2>3, <2>4, <2>5, <2>6
<1>2. ASSUME NEW r \in Requests, RequestNowait(r) \/ HandlerReady(r)
      PROVE  UNCHANGED <<Status, keyOf, reply>>
  <2>1. \A s \in Requests : (Live(s)' <=> Live(s)) /\ (Over(s)' <=> Over(s))
                             /\ (Over(s) => at'[s] = at[s])
    BY <1>2 DEF RequestNowait, HandlerReady, Live, Over
  <2> QED BY <2>1, <1>2 DEF RequestNowait, HandlerReady, Status
<1>3. ASSUME NEW r \in Requests, Respond(r)
      PROVE  [Promise!Next]_<<Status, keyOf, reply>>
  <2>1. keyOf[r] \in Keys /\ SetFuture(keyOf[r], r)
    BY <1>3 DEF Respond
  <2> QED BY <2>1, PromiseSetFuture
<1>4. ASSUME NEW k \in Keys, Cancel(k)
      PROVE  [Promise!Next]_<<Status, keyOf, reply>>
  BY <1>4, PromiseSetFuture DEF Cancel
<1>5. CASE UNCHANGED vars
  BY <1>5 DEF vars, Status, Live, Over
<1> QED BY <1>1, <1>2, <1>3, <1>4, <1>5 DEF Next

\* Every behaviour of the bus is one that RequestReply allows.
THEOREM BusKeepsPromise == Spec => KeepsPromise
  BY PromiseInit, PromiseStep, Invariant, PTL
     DEF Spec, KeepsPromise, Promise!Spec, Promise!rrvars

-----------------------------------------------------------------------------
(***************************************************************************)
(* The lobby.                                                              *)
(***************************************************************************)

----------------------------------------------------------------------------
(* The tables.  FriendshipsAreSettled is inductive: it is what one            *)
(* transaction relies on when it looks at the rows the others left.           *)

LEMMA EmptyTables == FriendsInit => FriendshipsAreSettled
  BY DEF FriendsInit, FriendshipsAreSettled, Mutual, RequestsSettled

\* A step that leaves the rows alone leaves them well.
LEMMA SameTables ==
  ASSUME FriendshipsAreSettled, UNCHANGED rows
  PROVE  FriendshipsAreSettled'
  BY DEF FriendshipsAreSettled, Mutual, RequestsSettled, rows

LEMMA AddKeepsTables ==
  ASSUME FriendshipsAreSettled, NEW c \in Conns, NEW u \in Users, AddFriend(c, u)
  PROVE  FriendshipsAreSettled'
<1> DEFINE me == UserOf[c]
<1>1. CASE UNCHANGED requests
  BY <1>1, SameTables DEF AddFriend, rows
<1>2. CASE MayAsk(me, u) /\ requests' = requests \cup {<<me, u>>}
  <2>1. friends' = friends
    BY DEF AddFriend
  <2>2. Mutual'
    BY <2>1 DEF FriendshipsAreSettled, Mutual
  <2>3. <<u, me>> \notin friends
    BY <1>2, ClientsAssumption DEF MayAsk, FriendshipsAreSettled, Mutual
  <2>4. RequestsSettled'
    BY <1>2, <2>1, <2>3 DEF MayAsk, FriendshipsAreSettled, RequestsSettled
  <2> QED BY <2>2, <2>4 DEF FriendshipsAreSettled
<1> QED BY <1>1, <1>2 DEF AddFriend

LEMMA AcceptKeepsTables ==
  ASSUME FriendshipsAreSettled, NEW c \in Conns, NEW u \in Users, AcceptFriendRequest(c, u)
  PROVE  FriendshipsAreSettled'
<1> DEFINE me == UserOf[c]
<1>1. CASE UNCHANGED <<requests, friends>>
  BY <1>1, SameTables DEF AcceptFriendRequest, rows
<1>2. CASE /\ <<u, me>> \in requests
           /\ requests' = WithoutRequest(u, me)
           /\ friends' = friends \cup BothRows(me, u)
  <2>1. me \in Users
    BY ClientsAssumption
  <2>2. <<me, u>> \notin requests
    BY <1>2, <2>1 DEF FriendshipsAreSettled, RequestsSettled
  <2>3. Mutual'
    BY <1>2 DEF FriendshipsAreSettled, Mutual, BothRows
  <2>4. RequestsSettled'
    BY <1>2, <2>2 DEF FriendshipsAreSettled, RequestsSettled, BothRows, WithoutRequest
  <2> QED BY <2>3, <2>4 DEF FriendshipsAreSettled
<1> QED BY <1>1, <1>2 DEF AcceptFriendRequest

LEMMA RemoveKeepsTables ==
  ASSUME FriendshipsAreSettled, NEW c \in Conns, NEW u \in Users, RemoveFriend(c, u)
  PROVE  FriendshipsAreSettled'
<1>1. friends' = friends \ BothRows(UserOf[c], u) /\ requests' = requests
  BY DEF RemoveFriend, RowsRemoved
<1> QED BY <1>1 DEF FriendshipsAreSettled, Mutual, RequestsSettled, BothRows

LEMMA OtherRequestsKeepTables ==
  ASSUME FriendshipsAreSettled, NEW c \in Conns, NEW u \in Users,
         IgnoreFriendRequest(c, u) \/ IgnorePlayer(c, u) \/ UnignorePlayer(c, u)
  PROVE  FriendshipsAreSettled'
<1>1. friends' = friends /\ requests' \subseteq requests
  BY DEF IgnoreFriendRequest, IgnorePlayer, UnignorePlayer
<1> QED BY <1>1 DEF FriendshipsAreSettled, Mutual, RequestsSettled

LEMMA StepKeepsTables == FriendshipsAreSettled /\ [FriendsNext]_friendsVars => FriendshipsAreSettled'
<1> SUFFICES ASSUME FriendshipsAreSettled, [FriendsNext]_friendsVars
             PROVE  FriendshipsAreSettled'
  OBVIOUS
<1>1. CASE ClientStep
  BY <1>1, SameTables DEF ClientStep
<1>2. ASSUME NEW c \in Conns, Login(c) \/ Disconnect(c) \/ FirstMessage(c)
      PROVE  FriendshipsAreSettled'
  BY <1>2, SameTables DEF Login, Disconnect, FirstMessage, rows
<1>3. ASSUME NEW c \in Conns, Ask(c)
      PROVE  FriendshipsAreSettled'
  BY <1>3, AddKeepsTables, AcceptKeepsTables, RemoveKeepsTables, OtherRequestsKeepTables
     DEF Ask
<1>4. ASSUME NEW c \in Conns, Work(c)
      PROVE  UNCHANGED rows
  BY <1>4 DEF Work, Answer, PushOwn, PushPeers, ReadList, PushList, PushLists, Announce,
              Leave, LastCheck, Hangup, rows
<1>5. CASE UNCHANGED friendsVars
  BY <1>5, SameTables DEF friendsVars
<1> QED BY <1>1, <1>2, <1>3, <1>4, <1>5, SameTables DEF FriendsNext

\* Whatever requests the clients make, in whatever order the transactions
\* commit, a friendship is in the table in both directions or in neither, no
\* two users ask each other at once, and no friend is asked
\* (profile_db.py:250-334).
THEOREM TablesStaySettled == FriendsSpec => []FriendshipsAreSettled
  BY EmptyTables, StepKeepsTables, PTL DEF FriendsSpec

----------------------------------------------------------------------------
(* The registry.                                                            *)

\* A sequence, of whatever.
IsSeq(s) == s \in Seq(Range(s))

JobsOf(c) == Range(todo[c])

\* A thread that has left the registry and has not closed its socket yet.
Leaving(c) == \E j \in JobsOf(c) : j.do \in {"lastcheck", "close"}

Unregistered(c) == \A u \in Users : c \notin registry[u]

\* A connection that is closed is unregistered because its thread closes the
\* socket only after it left the registry, and nothing registers it again:
\* that needs what a thread has left, and that a new connection has nothing.
RegistryOK ==
    /\ ClientsTypeOK
    /\ DOMAIN todo = Conns
    /\ \A c \in Conns :
          /\ IsSeq(todo[c])
          /\ sock[c] = "off" => todo[c] = <<>>
          /\ Leaving(c) => Unregistered(c)
    /\ ClosedIsUnregistered

LEMMA SeqOfOne == \A j : IsSeq(<<j>>) /\ Range(<<j>>) = {j}
  BY DEF IsSeq, Range

LEMMA SeqOfNone == IsSeq(<<>>) /\ Range(<<>>) = {}
  BY DEF IsSeq, Range

LEMMA SeqsJoined ==
  ASSUME NEW s, NEW t, IsSeq(s), IsSeq(t)
  PROVE  IsSeq(s \o t) /\ Range(s \o t) = Range(s) \cup Range(t)
<1> DEFINE X == Range(s) \cup Range(t)
<1>1. s \in Seq(X) /\ t \in Seq(X)
  BY DEF IsSeq
<1>2. s \o t \in Seq(X)
  BY <1>1
<1> QED BY <1>1, <1>2, SeqOfRange, RangeConcatenation DEF IsSeq

LEMMA SeqsTail ==
  ASSUME NEW s, IsSeq(s), s # <<>>
  PROVE  IsSeq(Tail(s)) /\ Range(Tail(s)) \subseteq Range(s)
<1>1. Tail(s) \in Seq(Range(s))
  BY DEF IsSeq
<1>2. IsSeq(Tail(s))
  BY <1>1, SeqOfRange DEF IsSeq
<1>3. Range(Tail(s)) \subseteq Range(s)
  <2> SUFFICES ASSUME NEW i \in DOMAIN Tail(s)
               PROVE  Tail(s)[i] \in Range(s)
    BY DEF Range
  <2> QED BY <1>1
<1> QED BY <1>2, <1>3

\* A step that touches what one thread has left, and one connection.
LEMMA OneThread ==
  ASSUME RegistryOK, ClientsTypeOK', NEW c \in Conns, DOMAIN todo' = Conns,
         \A d \in Conns \ {c} : todo'[d] = todo[d] /\ sock'[d] = sock[d],
         \A d \in Conns \ {c}, u \in Users : d \in registry'[u] => d \in registry[u],
         IsSeq(todo'[c]), sock'[c] = "off" => todo'[c] = <<>>,
         Leaving(c)' => Unregistered(c)',
         \A u \in Users : c \in registry'[u] => sock'[c] \in {"up", "gone"} /\ u = UserOf[c]
  PROVE  RegistryOK'
<1>1. \A d \in Conns : IsSeq(todo'[d]) /\ (sock'[d] = "off" => todo'[d] = <<>>)
  BY DEF RegistryOK
<1>2. \A d \in Conns : Leaving(d)' => Unregistered(d)'
  BY DEF RegistryOK, Leaving, JobsOf, Unregistered
<1>3. ClosedIsUnregistered'
  BY DEF RegistryOK, ClosedIsUnregistered, ClientsOf, Served
<1> QED BY <1>1, <1>2, <1>3 DEF RegistryOK

\* ... and leaves the connections alone.
LEMMA OneTodo ==
  ASSUME RegistryOK, NEW c \in Conns, NEW s, todo' = [todo EXCEPT ![c] = s],
         UNCHANGED clientVars, sock[c] # "off", IsSeq(s),
         \A j \in Range(s) : j.do \in {"lastcheck", "close"} => Unregistered(c)
  PROVE  RegistryOK'
<1>1. ClientsTypeOK' /\ DOMAIN todo' = Conns /\ todo'[c] = s
  BY DEF RegistryOK, ClientsTypeOK, clientVars
<1>2. Leaving(c)' => Unregistered(c)'
  BY <1>1 DEF Leaving, JobsOf, Unregistered, clientVars
<1>3. \A u \in Users : c \in registry'[u] => sock'[c] \in {"up", "gone"} /\ u = UserOf[c]
  BY DEF RegistryOK, ClosedIsUnregistered, ClientsOf, Served, clientVars
<1> QED BY <1>1, <1>2, <1>3, OneThread DEF RegistryOK, clientVars, Served

LEMMA NextJobs ==
  ASSUME RegistryOK, NEW c \in Conns, todo[c] # <<>>, NEW jobs, Rest(c, jobs),
         UNCHANGED clientVars, IsSeq(jobs),
         \A j \in Range(jobs) : j.do \in {"lastcheck", "close"} => Leaving(c)
  PROVE  RegistryOK'
<1> DEFINE s == jobs \o Tail(todo[c])
<1>1. todo' = [todo EXCEPT ![c] = s]
  BY DEF Rest
<1>2. IsSeq(s) /\ Range(s) \subseteq Range(jobs) \cup JobsOf(c)
  BY SeqsTail, SeqsJoined DEF RegistryOK, JobsOf
<1>3. \A j \in Range(s) : j.do \in {"lastcheck", "close"} => Leaving(c)
  BY <1>2 DEF Leaving
<1>4. sock[c] # "off" /\ (Leaving(c) => Unregistered(c))
  BY DEF RegistryOK
<1> HIDE DEF s
<1> QED BY <1>1, <1>2, <1>3, <1>4, OneTodo

\* What a broadcast leaves to do is to tell.
LEMMA TellingFriends ==
  ASSUME NEW u \in Users, NEW kind, NEW on
  PROVE  /\ IsSeq(TellFriends(u, kind, on))
         /\ \A j \in Range(TellFriends(u, kind, on)) : j.do = "tell"
<1> DEFINE n == Cardinality(FriendsOf(u))
           s == TellFriends(u, kind, on)
<1>1. n \in Nat
  <2>1. IsFiniteSet(FriendsOf(u))
    BY FriendsAssumption, FS_Subset DEF FriendsOf
  <2> QED BY <2>1, FS_CardinalityType
<1> HIDE DEF n
<1>2. DOMAIN s = 1 .. n /\ s = [i \in 1 .. n |-> s[i]] /\ \A i \in 1 .. n : s[i].do = "tell"
  BY DEF TellFriends, Tell, n
<1>3. s \in [1 .. n -> Range(s)]
  BY <1>2 DEF Range
<1> HIDE DEF s
<1>4. IsSeq(s)
  BY <1>1, <1>3 DEF IsSeq
<1>5. \A j \in Range(s) : j.do = "tell"
  BY <1>2 DEF Range
<1> QED BY <1>4, <1>5 DEF s

LEMMA EmptyRegistry == FriendsInit => RegistryOK
<1> SUFFICES ASSUME FriendsInit PROVE RegistryOK
  OBVIOUS
<1>1. \A c \in Conns : todo[c] = <<>> /\ ~Leaving(c) /\ IsSeq(todo[c])
  BY SeqOfNone DEF FriendsInit, Leaving, JobsOf
<1>2. ClientsTypeOK /\ DOMAIN todo = Conns /\ ClosedIsUnregistered
  BY DEF FriendsInit, ClientsInit, ClientsTypeOK, ClosedIsUnregistered, ClientsOf
<1> QED BY <1>1, <1>2 DEF RegistryOK

\* A new connection is registered under its own account.
LEMMA LoginKeepsRegistry ==
  ASSUME RegistryOK, NEW c \in Conns, Login(c)
  PROVE  RegistryOK'
<1>1. /\ sock[c] = "off" /\ sock' = [sock EXCEPT ![c] = "up"] /\ todo' = todo
      /\ registry' = [registry EXCEPT ![UserOf[c]] = @ \cup {c}] /\ idle' = idle \ {c}
  BY DEF Login, Enter
<1>2. ClientsTypeOK' /\ sock'[c] = "up"
  BY <1>1, ClientsAssumption DEF RegistryOK, ClientsTypeOK
<1>3. \A u \in Users : c \in registry'[u] => u = UserOf[c]
  BY <1>1, ClientsAssumption DEF RegistryOK, ClientsTypeOK, ClosedIsUnregistered, ClientsOf, Served
<1>4. ~Leaving(c)'
  BY <1>1, SeqOfNone DEF RegistryOK, Leaving, JobsOf
<1>5. \A d \in Conns \ {c}, u \in Users : d \in registry'[u] => d \in registry[u]
  BY <1>1, ClientsAssumption DEF RegistryOK, ClientsTypeOK
<1>6. \A d \in Conns \ {c} : todo'[d] = todo[d] /\ sock'[d] = sock[d]
  BY <1>1 DEF RegistryOK, ClientsTypeOK
<1>7. IsSeq(todo'[c]) /\ DOMAIN todo' = Conns
  BY <1>1 DEF RegistryOK
<1> QED BY <1>2, <1>3, <1>4, <1>5, <1>6, <1>7, OneThread

\* Peers vanish, clients grow idle, and a chat message drops idle entries: the
\* registry only loses entries.
LEMMA ClientsKeepRegistry ==
  ASSUME RegistryOK, NEW c \in Conns, PeerGone(c) \/ GrowIdle(c) \/ Chat(c), todo' = todo
  PROVE  RegistryOK'
<1>1. \A u \in Users : registry'[u] \subseteq registry[u]
  BY DEF PeerGone, GrowIdle, Chat, Cleanup
<1>2. ClientsTypeOK'
  BY DEF RegistryOK, ClientsTypeOK, PeerGone, GrowIdle, Chat, Cleanup, Served
<1>3. \A d \in Conns : sock'[d] = sock[d] \/ (Served(d) /\ Served(d)')
  BY DEF RegistryOK, ClientsTypeOK, PeerGone, GrowIdle, Chat, Served
<1>4. \A d \in Conns : Leaving(d)' => Unregistered(d)'
  BY <1>1 DEF RegistryOK, Leaving, JobsOf, Unregistered
<1>5. ClosedIsUnregistered'
  BY <1>1, <1>3 DEF RegistryOK, ClosedIsUnregistered, ClientsOf, Served
<1>6. \A d \in Conns : IsSeq(todo'[d]) /\ (sock'[d] = "off" => todo'[d] = <<>>)
  BY <1>3 DEF RegistryOK, Served
<1> QED BY <1>2, <1>4, <1>5, <1>6 DEF RegistryOK

\* A thread takes up a disconnection, a first message or a request.
LEMMA StartsKeepRegistry ==
  ASSUME RegistryOK, NEW c \in Conns, Disconnect(c) \/ FirstMessage(c) \/ Ask(c)
  PROVE  RegistryOK'
<1>1. UNCHANGED clientVars /\ sock[c] # "off"
  BY DEF Disconnect, FirstMessage, Ask, MayStart, Served, AddFriend, AcceptFriendRequest,
         IgnoreFriendRequest, RemoveFriend, IgnorePlayer, UnignorePlayer, Request
<1>2. ASSUME NEW s, todo' = [todo EXCEPT ![c] = s], IsSeq(s),
             \A j \in Range(s) : j.do \notin {"lastcheck", "close"}
      PROVE  RegistryOK'
  BY <1>1, <1>2, OneTodo
<1>3. ASSUME NEW what \in {"leave", "readlist"}, todo' = [todo EXCEPT ![c] = <<Do(what)>>]
      PROVE  RegistryOK'
  <2>1. \A j \in {Do(what)} : j.do \notin {"lastcheck", "close"}
    BY DEF Do
  <2> QED BY <1>2, <1>3, <2>1, SeqOfOne
<1>4. ASSUME NEW jobs, Leaves(c, jobs), IsSeq(jobs),
             \A j \in Range(jobs) : j.do \in {"own", "tell"}
      PROVE  RegistryOK'
  <2>1. IsSeq(<<SendReply>> \o jobs) /\ Range(<<SendReply>> \o jobs) = {SendReply} \cup Range(jobs)
    BY <1>4, SeqsJoined, SeqOfOne
  <2>2. todo' = [todo EXCEPT ![c] = <<SendReply>> \o jobs]
    BY <1>4 DEF Leaves
  <2>3. \A j \in {SendReply} \cup Range(jobs) : j.do \notin {"lastcheck", "close"}
    BY <1>4 DEF SendReply
  <2> QED BY <1>2, <2>1, <2>2, <2>3
<1>5. ASSUME Leaves(c, <<>>) PROVE RegistryOK'
  BY <1>4, <1>5, SeqOfNone
<1>6. ASSUME NEW j, j.do \in {"own", "tell"}, Leaves(c, <<j>>) PROVE RegistryOK'
  BY <1>4, <1>6, SeqOfOne
<1>7. ASSUME NEW i, NEW j, i.do = "own", j.do = "tell", Leaves(c, <<i, j>>) PROVE RegistryOK'
  <2>1. <<i, j>> \in Seq({i, j}) /\ DOMAIN <<i, j>> = {1, 2}
    OBVIOUS
  <2>2. IsSeq(<<i, j>>)
    BY <2>1, SeqOfRange DEF IsSeq
  <2>3. Range(<<i, j>>) = {i, j}
    BY <2>1 DEF Range
  <2> QED BY <1>4, <1>7, <2>2, <2>3
<1>8. ASSUME NEW u \in Users, AddFriend(c, u) PROVE RegistryOK'
  BY <1>5, <1>6, <1>8 DEF AddFriend, Tell
<1>9. ASSUME NEW u \in Users, AcceptFriendRequest(c, u) PROVE RegistryOK'
  BY <1>5, <1>7, <1>9 DEF AcceptFriendRequest, AcceptJobs, Tell, Own
<1>10. ASSUME NEW u \in Users, RemoveFriend(c, u) PROVE RegistryOK'
  BY <1>7, <1>10 DEF RemoveFriend, Tell, Own
<1>11. ASSUME NEW u \in Users,
              IgnoreFriendRequest(c, u) \/ IgnorePlayer(c, u) \/ UnignorePlayer(c, u)
       PROVE  RegistryOK'
  BY <1>5, <1>6, <1>11 DEF IgnoreFriendRequest, IgnorePlayer, UnignorePlayer, Own
<1> QED BY <1>3, <1>8, <1>9, <1>10, <1>11 DEF Ask, Disconnect, FirstMessage

\* A thread whose send raised drops what it had left, and leaves.
LEMMA RaisesKeepsRegistry ==
  ASSUME RegistryOK, NEW c \in Conns, SendRaises(c), UNCHANGED clientVars
  PROVE  RegistryOK'
<1>1. sock[c] # "off" /\ todo' = [todo EXCEPT ![c] = <<Do("leave")>>]
  BY DEF SendRaises
<1>2. \A j \in {Do("leave")} : j.do \notin {"lastcheck", "close"}
  BY DEF Do
<1> QED BY <1>1, <1>2, OneTodo, SeqOfOne

\* Jobs that only talk to clients.
LEMMA TalkKeepsRegistry ==
  ASSUME RegistryOK, NEW c \in Conns,
         \/ Answer(c) \/ PushOwn(c) \/ PushPeers(c) \/ ReadList(c) \/ PushList(c)
         \/ PushLists(c) \/ Announce(c)
  PROVE  RegistryOK'
<1>1. UNCHANGED clientVars /\ todo[c] # <<>>
  BY DEF Answer, PushOwn, PushPeers, ReadList, PushList, PushLists, Announce, Job
<1>2. ASSUME NEW jobs, Rest(c, jobs), IsSeq(jobs),
             \A j \in Range(jobs) : j.do \notin {"lastcheck", "close"}
      PROVE  RegistryOK'
  BY <1>1, <1>2, NextJobs
<1>3. CASE Answer(c) \/ PushOwn(c) \/ PushPeers(c) \/ PushList(c)
  <2>1. Rest(c, <<>>) \/ SendRaises(c)
    BY <1>3 DEF Answer, PushOwn, PushPeers, PushList
  <2> QED BY <1>1, <1>2, <2>1, SeqOfNone, RaisesKeepsRegistry
<1>4. CASE ReadList(c)
  <2>1. PICK list : list.do = "list" /\ Rest(c, <<list, Do("lists")>>)
    BY <1>4 DEF ReadList
  <2> DEFINE s == <<list, Do("lists")>>
  <2>2. s \in Seq({list, Do("lists")}) /\ DOMAIN s = {1, 2}
    OBVIOUS
  <2>3. IsSeq(s) /\ Range(s) = {list, Do("lists")}
    BY <2>2, SeqOfRange DEF IsSeq, Range
  <2>4. \A j \in Range(s) : j.do \notin {"lastcheck", "close"}
    BY <2>1, <2>3 DEF Do
  <2> QED BY <1>2, <2>1, <2>3, <2>4
<1>5. CASE PushLists(c)
  <2>1. Rest(c, <<Do("announce")>>)
    BY <1>5 DEF PushLists
  <2>2. \A j \in {Do("announce")} : j.do \notin {"lastcheck", "close"}
    BY DEF Do
  <2> QED BY <1>2, <2>1, <2>2, SeqOfOne
<1>6. CASE Announce(c)
  <2>1. Rest(c, TellFriends(UserOf[c], "online", TRUE)) /\ UserOf[c] \in Users
    BY <1>6, ClientsAssumption DEF Announce, Announcement
  <2> QED BY <1>2, <2>1, TellingFriends
<1> QED BY <1>3, <1>4, <1>5, <1>6

\* The registry is left before the last check, the last check is made before
\* the socket is closed.
LEMMA PartingKeepsRegistry ==
  ASSUME RegistryOK, NEW c \in Conns, Leave(c) \/ LastCheck(c) \/ Hangup(c)
  PROVE  RegistryOK'
<1>1. todo[c] # <<>> /\ Head(todo[c]) \in JobsOf(c)
  <2>1. todo[c] # <<>> /\ IsSeq(todo[c])
    BY DEF Leave, LastCheck, Hangup, Job, RegistryOK
  <2> QED BY <2>1, HeadTailProperties DEF IsSeq, JobsOf
<1>2. ASSUME NEW jobs, Rest(c, jobs), IsSeq(jobs)
      PROVE  /\ DOMAIN todo' = Conns /\ \A d \in Conns \ {c} : todo'[d] = todo[d]
             /\ IsSeq(todo'[c])
             /\ JobsOf(c)' \subseteq Range(jobs) \cup JobsOf(c)
  <2>1. todo' = [todo EXCEPT ![c] = jobs \o Tail(todo[c])]
    BY <1>2 DEF Rest
  <2>2. /\ IsSeq(jobs \o Tail(todo[c]))
        /\ Range(jobs \o Tail(todo[c])) \subseteq Range(jobs) \cup JobsOf(c)
    BY <1>1, <1>2, SeqsTail, SeqsJoined DEF RegistryOK, JobsOf
  <2> QED BY <2>1, <2>2 DEF RegistryOK, JobsOf
<1>3. CASE Leave(c)
  <2>1. UNCHANGED <<sock, idle>> /\ registry' = [u \in Users |-> registry[u] \ {c}]
        /\ Rest(c, <<Do("lastcheck")>>)
    BY <1>3 DEF Leave, Deregister
  <2>2. ClientsTypeOK' /\ Unregistered(c)'
    BY <2>1 DEF RegistryOK, ClientsTypeOK, Unregistered
  <2>3. sock'[c] # "off"
    BY <1>1, <2>1 DEF RegistryOK
  <2> QED BY <1>2, <2>1, <2>2, <2>3, SeqOfOne, OneThread DEF Unregistered
<1>4. CASE LastCheck(c)
  <2>1. Leaving(c) /\ UNCHANGED clientVars /\ UserOf[c] \in Users
    BY <1>1, <1>4, ClientsAssumption DEF LastCheck, Job, Leaving
  <2>2. PICK jobs : Rest(c, jobs \o <<Do("close")>>) /\ IsSeq(jobs)
    BY <1>4, <2>1, TellingFriends, SeqOfNone DEF LastCheck
  <2>3. IsSeq(jobs \o <<Do("close")>>)
    BY <2>2, SeqOfOne, SeqsJoined
  <2> QED BY <1>1, <2>1, <2>2, <2>3, NextJobs
<1>5. CASE Hangup(c)
  <2>1. Leaving(c)
    BY <1>1, <1>5 DEF Hangup, Job, Leaving
  <2>2. UNCHANGED <<registry, idle>> /\ sock' = [sock EXCEPT ![c] = "closed"]
        /\ Rest(c, <<>>)
    BY <1>5 DEF Hangup, Close
  <2>3. ClientsTypeOK' /\ sock'[c] = "closed" /\ \A d \in Conns \ {c} : sock'[d] = sock[d]
    BY <2>2 DEF RegistryOK, ClientsTypeOK
  <2>4. Unregistered(c)'
    BY <2>1, <2>2 DEF RegistryOK, Unregistered
  <2> QED BY <1>2, <2>2, <2>3, <2>4, SeqOfNone, OneThread DEF Unregistered
<1> QED BY <1>3, <1>4, <1>5

LEMMA StepKeepsRegistry == RegistryOK /\ [FriendsNext]_friendsVars => RegistryOK'
<1> SUFFICES ASSUME RegistryOK, [FriendsNext]_friendsVars
             PROVE  RegistryOK'
  OBVIOUS
<1>1. CASE ClientStep
  BY <1>1, ClientsKeepRegistry DEF ClientStep, threads
<1>2. ASSUME NEW c \in Conns,
             Login(c) \/ Disconnect(c) \/ FirstMessage(c) \/ Ask(c) \/ Work(c)
      PROVE  RegistryOK'
  BY <1>2, LoginKeepsRegistry, StartsKeepRegistry, TalkKeepsRegistry, PartingKeepsRegistry
     DEF Work
<1>3. CASE UNCHANGED friendsVars
  BY <1>3 DEF friendsVars, clientVars, threads, RegistryOK, ClientsTypeOK, IsSeq, Leaving,
              JobsOf, Unregistered, ClosedIsUnregistered, ClientsOf, Served
<1> QED BY <1>1, <1>2, <1>3 DEF FriendsNext

\* Whichever way the thread of a connection ends, and whoever drops idle
\* entries meanwhile, a connection whose socket is closed is in nobody's entry
\* of the registry, and no connection is ever under another account
\* (hconnect_server.py:11824, 448-520).
THEOREM ClosedIsNeverRegistered == FriendsSpec => []ClosedIsUnregistered
<1>1. RegistryOK => ClosedIsUnregistered
  BY DEF RegistryOK
<1> QED BY <1>1, EmptyRegistry, StepKeepsRegistry, PTL DEF FriendsSpec

----------------------------------------------------------------------------
(* The chat room.                                                             *)

\* The jobs of a thread.
Sending == [do : {"send", "broadcast"}, msg : Nat]
Showing == [do : {"show"}, rows : SUBSET Nat]
Jobs == [do : {"nothing", "announce", "history", "leave", "deregister", "close"}]
          \cup Sending \cup Showing

RoomTypes ==
    /\ ClientsTypeOK
    /\ members \subseteq Conns
    /\ log \in Seq(Users)
    /\ job \in [Conns -> Jobs] /\ got \in [Conns -> SUBSET Nat]
    /\ left \in [Conns -> SUBSET Users] /\ since \in [Conns -> Nat]

\* Only a connection that is served is in the room, or has anything to do.
InService ==
    /\ \A c \in members : Served(c)
    /\ \A c \in Conns : job[c] # NoJob => Served(c)

\* Who is told what is said in the room.
Hears(c) == c \in members /\ sock[c] = "up" /\ c \in ClientsOf(UserOf[c])

\* A thread other than c's is about to send the message i.
OnItsWay(c, i) == \E d \in Conns \ {c} : job[d].do \in {"send", "broadcast"} /\ job[d].msg = i

\* The thread of c is about to show its client the message i.
ToBeShown(c, i) == \/ job[c].do \in {"announce", "history"}
                   \/ job[c].do = "show" /\ i \in job[c].rows

Delivered ==
    \A c \in Conns : Hears(c) =>
        \A i \in DOMAIN log \ unsent :
            /\ i > since[c] => i \in got[c] \/ OnItsWay(c, i)
            /\ Len(log) <= HistoryLimit => i \in got[c] \/ OnItsWay(c, i) \/ ToBeShown(c, i)

RoomInv == RoomTypes /\ InService /\ Delivered

LEMMA JobsAre ==
  ASSUME RoomTypes
  PROVE  /\ NoJob \in Jobs /\ NoJob.do = "nothing"
         /\ \A c \in Conns : job[c].do \in {"send", "broadcast"} => job[c] \in Sending
         /\ \A c \in Conns : job[c].do = "show" => job[c] \in Showing
         /\ \A c \in Conns : job[c] # NoJob <=> job[c].do # "nothing"
<1>1. NoJob \in [do : {"nothing", "announce", "history", "leave", "deregister", "close"}]
      /\ NoJob.do = "nothing"
  BY DEF NoJob
<1>2. ASSUME NEW c \in Conns
      PROVE  /\ job[c].do \in {"send", "broadcast"} => job[c] \in Sending
             /\ job[c].do = "show" => job[c] \in Showing
             /\ job[c] # NoJob <=> job[c].do # "nothing"
  <2>1. job[c] \in Jobs
    BY DEF RoomTypes
  <2>2. CASE job[c] \in [do : {"nothing", "announce", "history", "leave", "deregister", "close"}]
    BY <2>2 DEF NoJob
  <2>3. CASE job[c] \in Sending
    BY <2>3, <1>1 DEF Sending
  <2>4. CASE job[c] \in Showing
    BY <2>4, <1>1 DEF Showing
  <2> QED
    BY <2>1, <2>2, <2>3, <2>4 DEF Jobs
<1> QED
  BY <1>1, <1>2 DEF Jobs

\* A step that adds no message, and after which who hears heard before, has
\* as much, and awaits as much.
LEMMA StaysDelivered ==
  ASSUME Delivered, log' = log, unsent' = unsent,
         \A c \in Conns : Hears(c)' =>
            /\ Hears(c) /\ since'[c] = since[c] /\ got[c] \subseteq got'[c]
            /\ \A i \in DOMAIN log :
                  /\ OnItsWay(c, i) => OnItsWay(c, i)' \/ i \in got'[c]
                  /\ Len(log) <= HistoryLimit /\ ToBeShown(c, i) =>
                        ToBeShown(c, i)' \/ i \in got'[c]
  PROVE  Delivered'
<1> SUFFICES ASSUME NEW c \in Conns, Hears(c)', NEW i \in DOMAIN log \ unsent
             PROVE  /\ i > since[c] => i \in got'[c] \/ OnItsWay(c, i)'
                    /\ Len(log) <= HistoryLimit =>
                          i \in got'[c] \/ OnItsWay(c, i)' \/ ToBeShown(c, i)'
  BY DEF Delivered
<1>1. /\ i > since[c] => i \in got[c] \/ OnItsWay(c, i)
      /\ Len(log) <= HistoryLimit => i \in got[c] \/ OnItsWay(c, i) \/ ToBeShown(c, i)
  BY DEF Delivered
<1> QED
  BY <1>1

\* The registry and the sockets change, the room does not.
LEMMA ClientsKeepRoom ==
  ASSUME RoomInv, NEW c \in Conns, Arrive(c) \/ Drop(c) \/ Idle(c)
  PROVE  RoomInv'
<1>1. UNCHANGED roomVars
  BY DEF Arrive, Drop, Idle
<1>2. ClientsTypeOK'
  <2>1. CASE Arrive(c)
    <3>1. /\ sock' = [sock EXCEPT ![c] = "up"] /\ idle' = idle \ {c}
          /\ registry' = [registry EXCEPT ![UserOf[c]] = @ \cup {c}]
      BY <2>1 DEF Arrive, Enter
    <3> QED
      BY <3>1, ClientsAssumption DEF RoomInv, RoomTypes, ClientsTypeOK
  <2>2. CASE Drop(c) \/ Idle(c)
    BY <2>2 DEF Drop, Idle, PeerGone, GrowIdle, RoomInv, RoomTypes, ClientsTypeOK
  <2> QED
    BY <2>1, <2>2
<1>3. \A d \in Conns : Served(d) => Served(d)'
  BY DEF Arrive, Drop, Idle, Enter, PeerGone, GrowIdle, RoomInv, RoomTypes, ClientsTypeOK, Served
<1>4. \A d \in members : Hears(d)' => Hears(d)
  <2>1. CASE Arrive(c)
    <3>1. c \notin members
      BY <2>1 DEF Arrive, Enter, RoomInv, InService, Served
    <3> QED
      BY <2>1, <3>1, ClientsAssumption
      DEF Arrive, Enter, Hears, ClientsOf, RoomInv, RoomTypes, ClientsTypeOK
  <2>2. CASE Drop(c) \/ Idle(c)
    BY <2>2, ClientsAssumption
    DEF Drop, Idle, PeerGone, GrowIdle, Hears, ClientsOf, RoomInv, RoomTypes, ClientsTypeOK,
        roomVars
  <2> QED
    BY <2>1, <2>2
<1>5. \A d \in Conns : Hears(d)' => Hears(d)
  BY <1>1, <1>4 DEF Hears, roomVars
<1>6. Delivered'
  BY <1>1, <1>5, StaysDelivered DEF RoomInv, roomVars, OnItsWay, ToBeShown
<1> QED
  BY <1>1, <1>2, <1>3, <1>6 DEF RoomInv, RoomTypes, InService, roomVars

\* One thread takes up another job, and nothing is said.
LEMMA OneJobKeepsRoom ==
  ASSUME RoomInv, NEW c \in Conns, Served(c), NEW j \in Jobs, job' = [job EXCEPT ![c] = j],
         UNCHANGED <<clientVars, log, unsent, since>>, members' \subseteq members,
         left' \in [Conns -> SUBSET Users], got' \in [Conns -> SUBSET Nat],
         \A d \in Conns : got[d] \subseteq got'[d],
         job[c].do \in {"send", "broadcast"} =>
            \/ j.do \in {"send", "broadcast"} /\ j.msg = job[c].msg
            \/ \A d \in Conns \ {c} : Hears(d)' => job[c].msg \in got'[d],
         Hears(c)' => \A i \in DOMAIN log : Len(log) <= HistoryLimit /\ ToBeShown(c, i) =>
                         ToBeShown(c, i)' \/ i \in got'[c]
  PROVE  RoomInv'
<1>1. \A d \in Conns : job'[d] = IF d = c THEN j ELSE job[d]
  BY DEF RoomInv, RoomTypes
<1>2. RoomTypes' /\ InService'
  BY <1>1 DEF RoomInv, RoomTypes, InService, ClientsTypeOK, clientVars, Served
<1>3. ASSUME NEW d \in Conns, Hears(d)'
      PROVE  /\ Hears(d)
             /\ \A i \in DOMAIN log : OnItsWay(d, i) => OnItsWay(d, i)' \/ i \in got'[d]
             /\ \A i \in DOMAIN log : Len(log) <= HistoryLimit /\ ToBeShown(d, i) =>
                                        ToBeShown(d, i)' \/ i \in got'[d]
  <2>1. Hears(d)
    BY <1>3 DEF Hears, ClientsOf, clientVars
  <2>2. ASSUME NEW i \in DOMAIN log, OnItsWay(d, i)
        PROVE  OnItsWay(d, i)' \/ i \in got'[d]
    <3>1. PICK e \in Conns \ {d} : job[e].do \in {"send", "broadcast"} /\ job[e].msg = i
      BY <2>2 DEF OnItsWay
    <3>2. CASE e # c
      BY <1>1, <3>1, <3>2 DEF OnItsWay
    <3>3. CASE e = c
      BY <1>1, <1>3, <3>1, <3>3 DEF OnItsWay
    <3> QED
      BY <3>2, <3>3
  <2>3. ASSUME NEW i \in DOMAIN log, Len(log) <= HistoryLimit, ToBeShown(d, i)
        PROVE  ToBeShown(d, i)' \/ i \in got'[d]
    <3>1. CASE d # c
      BY <1>1, <2>3, <3>1 DEF ToBeShown
    <3>2. CASE d = c
      BY <1>3, <2>3, <3>2
    <3> QED
      BY <3>1, <3>2
  <2> QED
    BY <2>1, <2>2, <2>3
<1>4. Delivered'
  BY <1>3, StaysDelivered DEF RoomInv
<1> QED
  BY <1>2, <1>4 DEF RoomInv

\* A connection joins: what was said before, it will be shown.
LEMMA JoinKeepsRoom ==
  ASSUME RoomInv, NEW c \in Conns, Join(c)
  PROVE  RoomInv'
<1>1. /\ Served(c) /\ job[c] = NoJob /\ members' = members \cup {c}
      /\ since' = [since EXCEPT ![c] = Len(log)] /\ left' = [left EXCEPT ![c] = {}]
      /\ UNCHANGED <<clientVars, log, unsent, got>>
  BY DEF Join, Free
<1>2. PICK j \in Jobs : /\ job' = [job EXCEPT ![c] = j]
                        /\ j.do \in {"announce", "nothing"}
                        /\ j.do = "announce" \/ sock[c] = "gone"
  <2>1. CASE Becomes(c, "announce")
    <3>1. [do |-> "announce"] \in Jobs /\ [do |-> "announce"].do = "announce"
      BY DEF Jobs
    <3> QED
      BY <2>1, <3>1 DEF Becomes
  <2>2. CASE GivesUp(c)
    BY <2>2, JobsAre DEF GivesUp, Done, RoomInv
  <2> QED
    BY <2>1, <2>2 DEF Join
<1>3. \A d \in Conns : job'[d] = IF d = c THEN j ELSE job[d]
  BY <1>2 DEF RoomInv, RoomTypes
<1>4. Len(log) \in Nat /\ DOMAIN log = 1 .. Len(log)
  BY DEF RoomInv, RoomTypes
<1>5. RoomTypes' /\ InService'
  BY <1>1, <1>2, <1>3, <1>4 DEF RoomInv, RoomTypes, InService, ClientsTypeOK, clientVars, Served
<1>6. ASSUME NEW d \in Conns, Hears(d)', NEW i \in DOMAIN log \ unsent
      PROVE  /\ i > since'[d] => i \in got[d] \/ OnItsWay(d, i)'
             /\ Len(log) <= HistoryLimit =>
                   i \in got[d] \/ OnItsWay(d, i)' \/ ToBeShown(d, i)'
  <2>1. CASE d = c
    <3>1. since'[c] = Len(log) /\ i <= Len(log)
      BY <1>1, <1>4 DEF RoomInv, RoomTypes
    <3>2. sock[c] = "up"
      BY <1>1, <1>6, <2>1 DEF Hears, clientVars
    <3>3. ToBeShown(c, i)'
      BY <1>2, <1>3, <3>2 DEF ToBeShown
    <3> QED
      BY <1>4, <2>1, <3>1, <3>3
  <2>2. CASE d # c
    <3>1. Hears(d) /\ since'[d] = since[d]
      BY <1>1, <1>6, <2>2 DEF Hears, ClientsOf, clientVars, RoomInv, RoomTypes
    <3>2. OnItsWay(d, i) => OnItsWay(d, i)'
      BY <1>1, <1>3, JobsAre DEF OnItsWay, RoomInv
    <3>3. ToBeShown(d, i) => ToBeShown(d, i)'
      BY <1>3, <2>2 DEF ToBeShown
    <3> QED
      BY <3>1, <3>2, <3>3 DEF RoomInv, Delivered
  <2> QED
    BY <2>1, <2>2
<1>7. Delivered'
  BY <1>1, <1>6 DEF Delivered
<1> QED
  BY <1>5, <1>7 DEF RoomInv

\* A message is stored, and its sender's thread is to send it, unless the
\* sender is gone.
LEMMA SayKeepsRoom ==
  ASSUME HistoryLimit \in Nat, RoomInv, NEW c \in Conns, Say(c)
  PROVE  RoomInv'
<1>0. PICK n : n = Len(log) + 1
  OBVIOUS
<1>1. /\ Served(c) /\ job[c] = NoJob /\ log' = Append(log, UserOf[c])
      /\ UNCHANGED <<clientVars, members, left, since>>
  BY DEF Say, Free
<1>2. /\ Len(log) \in Nat /\ DOMAIN log = 1 .. Len(log) /\ log' \in Seq(Users)
      /\ Len(log') = n /\ DOMAIN log' = DOMAIN log \cup {n} /\ n \notin DOMAIN log
  BY <1>0, <1>1, ClientsAssumption DEF RoomInv, RoomTypes
<1>3. \/ /\ got' = [got EXCEPT ![c] = @ \cup {n}] /\ unsent' = unsent
         /\ job' = [job EXCEPT ![c] = [do |-> "send", msg |-> n]]
      \/ /\ job' = [job EXCEPT ![c] = NoJob] /\ got' = got
         /\ unsent' = unsent \cup {n}
  BY <1>2 DEF Say, GivesUp, Done
<1>4. n \in Nat
  BY <1>0, <1>2
<1>5. PICK j \in Jobs : /\ \A d \in Conns : job'[d] = IF d = c THEN j ELSE job[d]
                        /\ \/ j.do = "send" /\ j.msg = n /\ n \in got'[c]
                           \/ n \in unsent'
  <2>1. [do |-> "send", msg |-> n] \in Jobs
    BY <1>4 DEF Jobs, Sending
  <2>2. CASE job' = [job EXCEPT ![c] = [do |-> "send", msg |-> n]]
             /\ got' = [got EXCEPT ![c] = @ \cup {n}]
    BY <2>1, <2>2 DEF RoomInv, RoomTypes
  <2>3. CASE job' = [job EXCEPT ![c] = NoJob] /\ unsent' = unsent \cup {n}
    BY <2>3, JobsAre DEF RoomInv, RoomTypes
  <2> QED
    BY <1>3, <2>2, <2>3
<1>6. /\ got' \in [Conns -> SUBSET Nat] /\ job' \in [Conns -> Jobs] /\ unsent \subseteq unsent'
      /\ \A d \in Conns : got[d] \subseteq got'[d]
  <2>1. got' = [got EXCEPT ![c] = got[c] \cup {n}] \/ got' = got
    BY <1>3
  <2>2. \A d \in Conns : got[d] \subseteq Nat /\ got'[d] \in {got[d], got[d] \cup {n}}
    BY <2>1 DEF RoomInv, RoomTypes
  <2>3. DOMAIN got' = Conns /\ got' = [d \in Conns |-> got'[d]]
    BY <2>1 DEF RoomInv, RoomTypes
  <2>4. \A d \in Conns : got[d] \subseteq got'[d] /\ got'[d] \in SUBSET Nat
    BY <2>2, <1>4
  <2>5. got' \in [Conns -> SUBSET Nat]
    BY <2>3, <2>4
  <2>6. job' \in [Conns -> Jobs]
    BY <1>3, <1>5 DEF RoomInv, RoomTypes
  <2> QED
    BY <1>3, <2>4, <2>5, <2>6
<1>7. RoomTypes' /\ InService'
  BY <1>1, <1>2, <1>5, <1>6 DEF RoomInv, RoomTypes, InService, ClientsTypeOK, clientVars, Served
<1>8. ASSUME NEW d \in Conns, Hears(d)', NEW i \in DOMAIN log' \ unsent'
      PROVE  /\ i > since[d] => i \in got'[d] \/ OnItsWay(d, i)'
             /\ Len(log') <= HistoryLimit =>
                   i \in got'[d] \/ OnItsWay(d, i)' \/ ToBeShown(d, i)'
  <2>1. CASE i = n
    <3>1. j.do = "send" /\ j.msg = n /\ n \in got'[c]
      BY <1>5, <1>8, <2>1
    <3>2. job'[c].do = "send" /\ job'[c].msg = n
      BY <1>5, <3>1
    <3>3. CASE d = c
      BY <2>1, <3>1, <3>3
    <3>4. CASE d # c
      <4>1. c \in Conns \ {d}
        BY <3>4
      <4>2. OnItsWay(d, n)'
        BY <3>2, <4>1 DEF OnItsWay
      <4> QED
        BY <2>1, <4>2
    <3> QED
      BY <3>3, <3>4
  <2>2. CASE i # n
    <3>1. Hears(d) /\ i \in DOMAIN log \ unsent
      BY <1>1, <1>2, <1>6, <1>8, <2>2 DEF Hears, ClientsOf, clientVars
    <3>2. OnItsWay(d, i) => OnItsWay(d, i)'
      BY <1>1, <1>5, JobsAre DEF OnItsWay, RoomInv
    <3>3. ToBeShown(d, i) => ToBeShown(d, i)'
      BY <1>1, <1>5, JobsAre DEF ToBeShown, RoomInv
    <3>4. Len(log') <= HistoryLimit => Len(log) <= HistoryLimit
      <4>1. Len(log') = Len(log) + 1
        BY <1>0, <1>2
      <4>2. SUFFICES ASSUME Len(log) + 1 <= HistoryLimit PROVE Len(log) <= HistoryLimit
        BY <4>1
      <4> QED
        BY <1>2, <4>2
    <3>5. got[d] \subseteq got'[d]
      BY <1>6
    <3> QED
      BY <3>1, <3>2, <3>3, <3>4, <3>5 DEF RoomInv, Delivered
  <2> QED
    BY <2>1, <2>2
<1>9. Delivered'
  BY <1>1, <1>8 DEF Delivered
<1> QED
  BY <1>7, <1>9 DEF RoomInv

\* The threads' steps that change neither the registry nor the messages.
LEMMA PlainJobsAre ==
  \A w \in {"nothing", "announce", "history", "leave", "deregister", "close"} :
     [do |-> w] \in Jobs /\ [do |-> w].do = w
BY DEF Jobs

LEMMA AnnounceJoinKeepsRoom ==
  ASSUME RoomInv, NEW c \in Conns, AnnounceJoin(c)
  PROVE  RoomInv'
<1> DEFINE j == [do |-> "history"]
<1>1. /\ job[c].do = "announce" /\ job' = [job EXCEPT ![c] = j] /\ j \in Jobs /\ j.do = "history"
      /\ UNCHANGED <<clientVars, members, log, unsent, got, since>>
  BY PlainJobsAre DEF AnnounceJoin, Becomes
<1>2. left' \in [Conns -> SUBSET Users]
  BY ClientsAssumption DEF AnnounceJoin, HearsJoin, RoomInv, RoomTypes
<1>3. Served(c) /\ job'[c] = j
  BY <1>1, JobsAre DEF RoomInv, InService, RoomTypes
<1> HIDE DEF j
<1>4. \A i : ToBeShown(c, i)'
  BY <1>1, <1>3 DEF ToBeShown
<1> QED
  BY <1>1, <1>2, <1>3, <1>4, OneJobKeepsRoom DEF RoomInv, RoomTypes

LEMMA ReadHistoryKeepsRoom ==
  ASSUME HistoryLimit \in Nat, RoomInv, NEW c \in Conns, ReadHistory(c)
  PROVE  RoomInv'
<1>1. Len(log) \in Nat /\ DOMAIN log = 1 .. Len(log)
  BY DEF RoomInv, RoomTypes
<1>2. PICK j : j = [do |-> "show", rows |-> {i \in DOMAIN log : Lately(i)}]
  OBVIOUS
<1>3. j \in Jobs /\ j.do = "show" /\ j.rows = {i \in DOMAIN log : Lately(i)}
  BY <1>1, <1>2 DEF Jobs, Showing
<1>4. /\ job[c].do = "history" /\ job' = [job EXCEPT ![c] = j]
      /\ UNCHANGED <<clientVars, members, log, unsent, got, left, since>>
  BY <1>2 DEF ReadHistory
<1>5. Served(c) /\ job'[c] = j
  BY <1>4, JobsAre DEF RoomInv, InService, RoomTypes
<1>6. Len(log) <= HistoryLimit => \A i \in DOMAIN log : Lately(i)
  BY <1>1 DEF Lately
<1>7. Len(log) <= HistoryLimit => \A i \in DOMAIN log : ToBeShown(c, i)'
  BY <1>3, <1>5, <1>6 DEF ToBeShown
<1> QED
  BY <1>3, <1>4, <1>5, <1>7, OneJobKeepsRoom DEF RoomInv, RoomTypes

LEMMA ShowHistoryKeepsRoom ==
  ASSUME RoomInv, NEW c \in Conns, ShowHistory(c)
  PROVE  RoomInv'
<1>1. /\ job[c].do = "show" /\ job' = [job EXCEPT ![c] = NoJob]
      /\ got' = [got EXCEPT ![c] = got[c] \cup job[c].rows]
      /\ UNCHANGED <<clientVars, members, log, unsent, left, since>>
  BY DEF ShowHistory, Done
<1>2. job[c].rows \in SUBSET Nat /\ NoJob \in Jobs
  BY <1>1, JobsAre DEF RoomInv, Showing
<1>3. Served(c)
  BY <1>1, JobsAre DEF RoomInv, InService
<1>4. got'[c] = got[c] \cup job[c].rows /\ \A d \in Conns : got[d] \subseteq got'[d]
  BY <1>1 DEF RoomInv, RoomTypes
<1>5. got' \in [Conns -> SUBSET Nat]
  BY <1>1, <1>2 DEF RoomInv, RoomTypes
<1>6. \A i \in DOMAIN log : ToBeShown(c, i) => i \in got'[c]
  BY <1>1, <1>4 DEF ToBeShown
<1> QED
  BY <1>1, <1>2, <1>3, <1>4, <1>5, <1>6, OneJobKeepsRoom DEF RoomInv, RoomTypes

LEMMA LeaveKeepsRoom ==
  ASSUME RoomInv, NEW c \in Conns, LeaveRoom(c) \/ AnnounceLeave(c) \/ Depart(c)
  PROVE  RoomInv'
<1>1. PICK j \in Jobs : job' = [job EXCEPT ![c] = j]
  BY PlainJobsAre, JobsAre DEF LeaveRoom, AnnounceLeave, Depart, Becomes, Done, RoomInv
<1>2. /\ UNCHANGED <<clientVars, log, unsent, got, since>> /\ members' \subseteq members
      /\ job[c].do \in {"nothing", "leave"}
  BY JobsAre DEF LeaveRoom, AnnounceLeave, Depart, Free, RoomInv
<1>3. left' \in [Conns -> SUBSET Users]
  <2>1. CASE BroadcastLeave(c)
    <3>1. \A d \in Conns : left[d] \subseteq Users /\ HearsLeft(d, UserOf[c]) \subseteq Users
      BY ClientsAssumption DEF HearsLeft, RoomInv, RoomTypes
    <3> QED
      BY <2>1, <3>1 DEF BroadcastLeave
  <2>2. CASE left' = left
    BY <2>2 DEF RoomInv, RoomTypes
  <2> QED
    BY <2>1, <2>2 DEF LeaveRoom, AnnounceLeave, Depart
<1>4. Served(c)
  BY JobsAre DEF LeaveRoom, AnnounceLeave, Depart, Free, RoomInv, InService
<1>5. \A i : ~ToBeShown(c, i)
  BY <1>2 DEF ToBeShown
<1> QED
  BY <1>1, <1>2, <1>3, <1>4, <1>5, OneJobKeepsRoom DEF RoomInv, RoomTypes

LEMMA BroadcastKeepsRoom ==
  ASSUME RoomInv, NEW c \in Conns, Broadcast(c)
  PROVE  RoomInv'
<1>1. /\ job[c].do = "broadcast" /\ job' = [job EXCEPT ![c] = NoJob]
      /\ UNCHANGED <<clientVars, members, log, unsent, left, since>>
  BY DEF Broadcast, Done
<1>2. job[c].msg \in Nat /\ NoJob \in Jobs
  BY <1>1, JobsAre DEF RoomInv, Sending
<1>3. \A d \in Conns : got'[d] = IF d \in Audience(c) THEN got[d] \cup {job[c].msg} ELSE got[d]
  BY DEF Broadcast
<1>4. got' \in [Conns -> SUBSET Nat] /\ \A d \in Conns : got[d] \subseteq got'[d]
  BY <1>2 DEF Broadcast, RoomInv, RoomTypes
<1>5. \A d \in Conns \ {c} : Hears(d)' => d \in Audience(c)
  BY <1>1 DEF Hears, Audience, ClientsOf, clientVars
<1>6. \A d \in Conns \ {c} : Hears(d)' => job[c].msg \in got'[d]
  BY <1>3, <1>5
<1>7. Served(c)
  BY <1>1, JobsAre DEF RoomInv, InService
<1>8. \A i : ~ToBeShown(c, i)
  BY <1>1 DEF ToBeShown
<1> QED
  BY <1>1, <1>2, <1>4, <1>6, <1>7, <1>8, OneJobKeepsRoom DEF RoomInv, RoomTypes

\* Connections leave the registry or are closed: what is on its way stays so.
LEMMA RenewKeepsRoom ==
  ASSUME RoomInv, NEW c \in Conns, Renew(c)
  PROVE  RoomInv'
<1>1. /\ job[c].do = "send" /\ job' = [job EXCEPT ![c].do = "broadcast"]
      /\ UNCHANGED <<members, log, unsent, got, left, since>>
      /\ sock' = sock /\ idle' = idle \ {c}
      /\ registry' = [u \in Users |-> registry[u] \ (idle \ {c})]
  BY DEF Renew, Chat, Cleanup
<1>2. PICK m \in Nat : job[c].msg = m /\ job[c] = [do |-> "send", msg |-> m]
  BY <1>1, JobsAre DEF RoomInv, Sending
<1>3. PICK j : j = [do |-> "broadcast", msg |-> m]
  OBVIOUS
<1>4. j \in Jobs /\ j.do = "broadcast" /\ j.msg = m
  BY <1>3 DEF Jobs, Sending
<1>5. job' = [job EXCEPT ![c] = j]
  <2>1. [job[c] EXCEPT !.do = "broadcast"] = j
    BY <1>2, <1>3
  <2>2. job' = [job EXCEPT ![c] = [job[c] EXCEPT !.do = "broadcast"]]
    BY <1>1
  <2> QED
    BY <2>1, <2>2
<1>6. \A d \in Conns : job'[d] = IF d = c THEN j ELSE job[d]
  BY <1>5 DEF RoomInv, RoomTypes
<1>7. Served(c)
  BY <1>1, JobsAre DEF RoomInv, InService
<1>8. RoomTypes' /\ InService'
  BY <1>1, <1>4, <1>5, <1>6, <1>7
  DEF RoomInv, RoomTypes, InService, ClientsTypeOK, Served
<1>9. \A d \in Conns : Hears(d)' => Hears(d)
  BY <1>1, ClientsAssumption DEF Hears, ClientsOf
<1>10. \A d \in Conns : \A i : OnItsWay(d, i) => OnItsWay(d, i)'
  BY <1>2, <1>4, <1>6 DEF OnItsWay
<1>11. \A d \in Conns : \A i : ToBeShown(d, i) => ToBeShown(d, i)'
  BY <1>1, <1>6 DEF ToBeShown
<1>12. Delivered'
  BY <1>1, <1>9, <1>10, <1>11, StaysDelivered DEF RoomInv
<1> QED
  BY <1>8, <1>12 DEF RoomInv

LEMMA HangUpKeepsRoom ==
  ASSUME RoomInv, NEW c \in Conns, Unlist(c) \/ CloseConn(c)
  PROVE  RoomInv'
<1>1. job[c].do \in {"deregister", "close"} /\ UNCHANGED <<log, unsent, idle>>
  BY DEF Unlist, CloseConn, Deregister, Close
<1>2. PICK j \in Jobs : /\ job' = [job EXCEPT ![c] = j] /\ (sock' = sock \/ j = NoJob)
                        /\ \A i : ~(j.do = "send" /\ j.msg = i)
  BY PlainJobsAre, JobsAre DEF Unlist, CloseConn, Becomes, Done, Deregister, RoomInv
<1>3. \A d \in Conns : job'[d] = IF d = c THEN j ELSE job[d]
  BY <1>2 DEF RoomInv, RoomTypes
<1>4. Served(c)
  BY <1>1, JobsAre DEF RoomInv, InService
<1>5. \A d \in Conns \ {c} : sock'[d] = sock[d] /\ got'[d] = got[d] /\ since'[d] = since[d]
  BY DEF Unlist, CloseConn, Deregister, Close, RoomInv, RoomTypes, ClientsTypeOK
<1>6. RoomTypes'
  <2>1. ClientsTypeOK'
    BY <1>1 DEF Unlist, CloseConn, Deregister, Close, RoomInv, RoomTypes, ClientsTypeOK
  <2>2. CASE Unlist(c)
    BY <1>1, <1>2, <2>1, <2>2 DEF Unlist, RoomInv, RoomTypes
  <2>3. CASE CloseConn(c)
    <3>1. got' \in [Conns -> SUBSET Nat] /\ left' \in [Conns -> SUBSET Users]
          /\ since' \in [Conns -> Nat] /\ members' \subseteq Conns
      BY <2>3 DEF CloseConn, RoomInv, RoomTypes
    <3> QED
      BY <1>1, <1>2, <2>1, <3>1 DEF RoomInv, RoomTypes
  <2> QED
    BY <2>2, <2>3
<1>7. /\ members' \subseteq members
      /\ (sock' = sock \/ (job'[c] = NoJob /\ c \notin members'))
  BY <1>2, <1>3 DEF Unlist, CloseConn, Deregister
<1>8. InService'
  BY <1>3, <1>4, <1>5, <1>7 DEF RoomInv, RoomTypes, InService, Served
<1>9. \A d \in Conns : Hears(d)' => Hears(d) /\ d # c
  <2>1. ~Hears(c)'
    <3>1. CASE Unlist(c)
      BY <3>1, ClientsAssumption DEF Unlist, Deregister, Hears, ClientsOf
    <3>2. CASE CloseConn(c)
      BY <3>2 DEF CloseConn, Hears
    <3> QED
      BY <3>1, <3>2
  <2>2. \A d \in Conns : d \in ClientsOf(UserOf[d])' => d \in ClientsOf(UserOf[d])
    BY ClientsAssumption DEF Unlist, CloseConn, Deregister, Close, ClientsOf
  <2> QED
    BY <1>5, <1>7, <2>1, <2>2 DEF Hears
<1>10. \A d \in Conns : \A i : OnItsWay(d, i) => OnItsWay(d, i)'
  BY <1>1, <1>3 DEF OnItsWay
<1>11. \A d \in Conns \ {c} : \A i : ToBeShown(d, i) => ToBeShown(d, i)'
  BY <1>3 DEF ToBeShown
<1>12. Delivered'
  BY <1>1, <1>5, <1>9, <1>10, <1>11, StaysDelivered DEF RoomInv
<1> QED
  BY <1>6, <1>8, <1>12 DEF RoomInv

LEMMA RoomIsInv == ASSUME HistoryLimit \in Nat PROVE ChatSpec => []RoomInv
<1>1. ChatInit => RoomInv
  <2> SUFFICES ASSUME ChatInit PROVE RoomInv
    OBVIOUS
  <2>1. \A c \in Conns : job[c] = NoJob /\ NoJob \in Jobs
    BY PlainJobsAre DEF ChatInit, NoJob
  <2>2. RoomTypes
    BY <2>1 DEF ChatInit, ClientsInit, RoomTypes, ClientsTypeOK
  <2> QED
    BY <2>1, <2>2 DEF ChatInit, RoomInv, InService, Delivered, Hears
<1>2. RoomInv /\ [ChatNext]_chatVars => RoomInv'
  <2> SUFFICES ASSUME RoomInv, [ChatNext]_chatVars PROVE RoomInv'
    OBVIOUS
  <2>1. ASSUME NEW c \in Conns, Arrive(c) \/ Drop(c) \/ Idle(c) PROVE RoomInv'
    BY <2>1, ClientsKeepRoom
  <2>2. ASSUME NEW c \in Conns, Join(c) PROVE RoomInv'
    BY <2>2, JoinKeepsRoom
  <2>3. ASSUME NEW c \in Conns, Say(c) PROVE RoomInv'
    BY <2>3, SayKeepsRoom
  <2>4. ASSUME NEW c \in Conns, LeaveRoom(c) \/ AnnounceLeave(c) \/ Depart(c) PROVE RoomInv'
    BY <2>4, LeaveKeepsRoom
  <2>5. ASSUME NEW c \in Conns, AnnounceJoin(c) PROVE RoomInv'
    BY <2>5, AnnounceJoinKeepsRoom
  <2>6. ASSUME NEW c \in Conns, ReadHistory(c) PROVE RoomInv'
    BY <2>6, ReadHistoryKeepsRoom
  <2>7. ASSUME NEW c \in Conns, ShowHistory(c) PROVE RoomInv'
    BY <2>7, ShowHistoryKeepsRoom
  <2>8. ASSUME NEW c \in Conns, Renew(c) PROVE RoomInv'
    BY <2>8, RenewKeepsRoom
  <2>9. ASSUME NEW c \in Conns, Broadcast(c) PROVE RoomInv'
    BY <2>9, BroadcastKeepsRoom
  <2>10. ASSUME NEW c \in Conns, Unlist(c) \/ CloseConn(c) PROVE RoomInv'
    BY <2>10, HangUpKeepsRoom
  <2>11. CASE UNCHANGED chatVars
    BY <2>11 DEF chatVars, roomVars, clientVars, RoomInv, RoomTypes, InService, Delivered, Hears,
       ClientsTypeOK, Served, ClientsOf, OnItsWay, ToBeShown
  <2> QED
    BY <2>1, <2>2, <2>3, <2>4, <2>5, <2>6, <2>7, <2>8, <2>9, <2>10, <2>11 DEF ChatNext, ChatWork
<1> QED
  BY <1>1, <1>2, PTL DEF ChatSpec

\* When no thread has anything left to do, every member that is registered has
\* every message said since it joined, and those before it that the history
\* holds (chat.py:35-87, 180-236).
THEOREM EveryoneHears == ASSUME HistoryLimit \in Nat PROVE ChatSpec => []NothingMissed
<1>1. RoomInv => NothingMissed
  <2> SUFFICES ASSUME RoomInv, AllFree, NEW c \in members, Hears(c), NEW i \in DOMAIN log \ unsent
               PROVE  i > since[c] \/ Len(log) <= HistoryLimit => i \in got[c]
    BY DEF NothingMissed, Hears
  <2>1. c \in Conns /\ \A d \in Conns : job[d].do = "nothing"
    BY DEF AllFree, NoJob, RoomInv, RoomTypes
  <2>2. ~OnItsWay(c, i) /\ ~ToBeShown(c, i)
    BY <2>1 DEF OnItsWay, ToBeShown
  <2> QED
    BY <2>1, <2>2 DEF RoomInv, Delivered
<1> QED
  BY <1>1, RoomIsInv, PTL

----------------------------------------------------------------------------
(* Who is shown as gone, where a player is connected once at a time: the      *)
(* others show it only between its farewell and its last step out of the      *)
(* room, or between its return and the announcement of it.                    *)

OneAtATime == \A c, d \in Conns : c # d /\ UserOf[c] = UserOf[d] => ~(Served(c) /\ Served(d))

LeaversAreOut == \A c \in members : job[c].do # "leave"

MayShowGone(d) == job[d].do \in {"announce", "deregister", "close"} \/ sock[d] = "gone"

GoneTold ==
    \A c, d \in members :
        UserOf[c] # UserOf[d] /\ Hears(c) /\ UserOf[d] \in left[c] => MayShowGone(d)

GoneInv == RoomInv /\ OneAtATime /\ LeaversAreOut /\ GoneTold

\* A thread goes on, nobody is told of it, and whoever might be shown as gone
\* still may.
LEMMA QuietKeepsGone ==
  ASSUME GoneInv, NEW c \in Conns, NEW j \in Jobs, job' = [job EXCEPT ![c] = j],
         members' \subseteq members, c \in members' => j.do # "leave",
         \A d \in Conns : /\ Hears(d)' => Hears(d)
                          /\ left'[d] \subseteq left[d]
                          /\ Served(d)' => Served(d)
                          /\ d # c => sock'[d] = sock[d],
         c \in members' /\ MayShowGone(c) => MayShowGone(c)'
  PROVE  OneAtATime' /\ LeaversAreOut' /\ GoneTold'
<1>1. /\ \A d \in Conns : job'[d] = IF d = c THEN j ELSE job[d]
      /\ members \subseteq Conns
  BY DEF GoneInv, RoomInv, RoomTypes
<1>2. OneAtATime'
  BY DEF GoneInv, OneAtATime
<1>3. LeaversAreOut'
  BY <1>1 DEF GoneInv, LeaversAreOut
<1>4. \A d \in members' : MayShowGone(d) => MayShowGone(d)'
  BY <1>1 DEF MayShowGone
<1>5. GoneTold'
  <2> SUFFICES ASSUME NEW x \in members', NEW y \in members', UserOf[x] # UserOf[y],
                      Hears(x)', UserOf[y] \in left'[x]
               PROVE  MayShowGone(y)'
    BY DEF GoneTold
  <2>1. x \in members /\ y \in members /\ Hears(x) /\ UserOf[y] \in left[x]
    BY <1>1
  <2> QED
    BY <1>4, <2>1 DEF GoneInv, GoneTold
<1> QED
  BY <1>2, <1>3, <1>5

\* The members are told that c leaves: c is on its way out, or out already.
LEMMA FarewellKeepsGone ==
  ASSUME GoneInv, NEW c \in Conns, NEW j \in Jobs, job' = [job EXCEPT ![c] = j],
         Served(c), members' = members, UNCHANGED clientVars, BroadcastLeave(c),
         c \notin members \/ j.do = "deregister"
  PROVE  OneAtATime' /\ LeaversAreOut' /\ GoneTold'
<1>1. /\ \A d \in Conns : job'[d] = IF d = c THEN j ELSE job[d]
      /\ members \subseteq Conns
  BY DEF GoneInv, RoomInv, RoomTypes
<1>2. OneAtATime' /\ \A d \in Conns : Hears(d)' <=> Hears(d)
  BY DEF GoneInv, OneAtATime, Served, clientVars, Hears, ClientsOf
<1>3. LeaversAreOut'
  BY <1>1 DEF GoneInv, LeaversAreOut
<1>4. GoneTold'
  <2> SUFFICES ASSUME NEW x \in members, NEW y \in members, UserOf[x] # UserOf[y],
                      Hears(x), UserOf[y] \in left'[x]
               PROVE  MayShowGone(y)'
    BY <1>1, <1>2 DEF GoneTold
  <2>1. x \in Conns /\ y \in Conns /\ Served(y)
    BY <1>1 DEF GoneInv, RoomInv, InService
  <2>2. CASE y = c
    BY <1>1, <2>2 DEF MayShowGone
  <2>3. CASE y # c
    <3>1. UserOf[y] # UserOf[c]
      BY <2>1, <2>3 DEF GoneInv, OneAtATime
    <3>2. UserOf[y] \in left[x]
      BY <2>1, <3>1 DEF BroadcastLeave, HearsLeft
    <3> QED
      BY <1>1, <2>1, <2>3, <3>2 DEF GoneInv, GoneTold, MayShowGone, clientVars
  <2> QED
    BY <2>2, <2>3
<1> QED
  BY <1>2, <1>3, <1>4

\* The members are told that c is back.
LEMMA WelcomeKeepsGone ==
  ASSUME GoneInv, NEW c \in Conns, AnnounceJoin(c)
  PROVE  OneAtATime' /\ LeaversAreOut' /\ GoneTold'
<1> DEFINE j == [do |-> "history"]
<1>1. /\ job' = [job EXCEPT ![c] = j] /\ j.do = "history"
      /\ left' = [d \in Conns |-> IF d \in Audience(c) THEN HearsJoin(d, UserOf[c]) ELSE left[d]]
      /\ UNCHANGED <<clientVars, members>>
  BY DEF AnnounceJoin, Becomes
<1> HIDE DEF j
<1>2. /\ \A d \in Conns : job'[d] = IF d = c THEN j ELSE job[d]
      /\ members \subseteq Conns
  BY <1>1 DEF GoneInv, RoomInv, RoomTypes
<1>3. OneAtATime' /\ \A d \in Conns : Hears(d)' <=> Hears(d)
  BY <1>1 DEF GoneInv, OneAtATime, Served, clientVars, Hears, ClientsOf
<1>4. LeaversAreOut'
  BY <1>1, <1>2 DEF GoneInv, LeaversAreOut
<1>5. GoneTold'
  <2> SUFFICES ASSUME NEW x \in members, NEW y \in members, UserOf[x] # UserOf[y],
                      Hears(x), UserOf[y] \in left'[x]
               PROVE  MayShowGone(y)'
    BY <1>1, <1>2, <1>3 DEF GoneTold
  <2>1. x \in Conns /\ UserOf[y] \in left[x]
    BY <1>1, <1>2 DEF HearsJoin
  <2>2. CASE y = c
    <3>1. x \in Audience(c)
      BY <2>2 DEF Audience, Hears
    <3> QED
      BY <1>1, <2>1, <2>2, <3>1 DEF HearsJoin
  <2>3. CASE y # c
    BY <1>1, <1>2, <2>1, <2>3 DEF GoneInv, GoneTold, MayShowGone, clientVars
  <2> QED
    BY <2>2, <2>3
<1> QED
  BY <1>3, <1>4, <1>5

LEMMA JoinKeepsGone ==
  ASSUME GoneInv, NEW c \in Conns, Join(c)
  PROVE  OneAtATime' /\ LeaversAreOut' /\ GoneTold'
<1>1. /\ members' = members \cup {c} /\ left' = [left EXCEPT ![c] = {}]
      /\ UNCHANGED clientVars
  BY DEF Join
<1>2. PICK j : /\ job' = [job EXCEPT ![c] = j]
               /\ j.do = "announce" \/ (j.do = "nothing" /\ sock[c] = "gone")
  <2>1. CASE Becomes(c, "announce")
    <3>1. [do |-> "announce"].do = "announce"
      OBVIOUS
    <3> QED
      BY <2>1, <3>1 DEF Becomes
  <2>2. CASE GivesUp(c)
    <3>1. NoJob.do = "nothing"
      BY DEF NoJob
    <3> QED
      BY <2>2, <3>1 DEF GivesUp, Done
  <2> QED
    BY <2>1, <2>2 DEF Join
<1>3. /\ \A d \in Conns : job'[d] = IF d = c THEN j ELSE job[d]
      /\ \A d \in Conns : left'[d] = IF d = c THEN {} ELSE left[d]
      /\ members \subseteq Conns
  BY <1>1, <1>2 DEF GoneInv, RoomInv, RoomTypes
<1>4. OneAtATime' /\ \A d \in Conns \ {c} : Hears(d)' <=> Hears(d)
  BY <1>1 DEF GoneInv, OneAtATime, Served, clientVars, Hears, ClientsOf
<1>5. LeaversAreOut'
  BY <1>1, <1>2, <1>3 DEF GoneInv, LeaversAreOut
<1>6. GoneTold'
  <2> SUFFICES ASSUME NEW x \in members', NEW y \in members', UserOf[x] # UserOf[y],
                      Hears(x)', UserOf[y] \in left'[x]
               PROVE  MayShowGone(y)'
    BY DEF GoneTold
  <2>1. x \in Conns \ {c} /\ x \in members /\ Hears(x) /\ UserOf[y] \in left[x] /\ y \in Conns
    BY <1>1, <1>3, <1>4
  <2>2. CASE y = c
    BY <1>1, <1>2, <1>3, <2>2 DEF MayShowGone, clientVars
  <2>3. CASE y # c
    BY <1>1, <1>3, <2>1, <2>3 DEF GoneInv, GoneTold, MayShowGone, clientVars
  <2> QED
    BY <2>2, <2>3
<1> QED
  BY <1>4, <1>5, <1>6

LEMMA ClientsKeepGone ==
  ASSUME OneEach, GoneInv, NEW c \in Conns, Arrive(c) \/ Drop(c) \/ Idle(c)
  PROVE  OneAtATime' /\ LeaversAreOut' /\ GoneTold'
<1>1. UNCHANGED roomVars /\ members \subseteq Conns
  BY DEF Arrive, Drop, Idle, GoneInv, RoomInv, RoomTypes
<1>2. OneAtATime'
  <2>1. CASE Arrive(c)
    BY <2>1 DEF Arrive, Enter, GoneInv, OneAtATime, Served, RoomInv, RoomTypes, ClientsTypeOK
  <2>2. CASE Drop(c) \/ Idle(c)
    BY <2>2 DEF Drop, Idle, PeerGone, GrowIdle, GoneInv, OneAtATime, Served, RoomInv, RoomTypes,
       ClientsTypeOK
  <2> QED
    BY <2>1, <2>2
<1>3. LeaversAreOut'
  BY <1>1 DEF GoneInv, LeaversAreOut, roomVars
<1>4. \A d \in members : (Hears(d)' => Hears(d)) /\ (sock[d] = "gone" => sock'[d] = "gone")
  <2>1. CASE Arrive(c)
    <3>1. c \notin members
      BY <2>1 DEF Arrive, Enter, GoneInv, RoomInv, InService, Served
    <3> QED
      BY <1>1, <2>1, <3>1, ClientsAssumption
      DEF Arrive, Enter, Hears, ClientsOf, GoneInv, RoomInv, RoomTypes, ClientsTypeOK
  <2>2. CASE Drop(c) \/ Idle(c)
    BY <1>1, <2>2, ClientsAssumption
    DEF Drop, Idle, PeerGone, GrowIdle, Hears, ClientsOf, GoneInv, RoomInv, RoomTypes, ClientsTypeOK,
        roomVars
  <2> QED
    BY <2>1, <2>2
<1>5. GoneTold'
  BY <1>1, <1>4 DEF GoneInv, GoneTold, MayShowGone, roomVars
<1> QED
  BY <1>2, <1>3, <1>5

\* Every step a thread takes.
LEMMA ThreadKeepsGone ==
  ASSUME GoneInv, NEW c \in Conns,
         Say(c) \/ LeaveRoom(c) \/ Depart(c) \/ ChatWork(c)
  PROVE  OneAtATime' /\ LeaversAreOut' /\ GoneTold'
<1>1. RoomInv /\ RoomTypes /\ members \subseteq Conns
  BY DEF GoneInv, RoomInv, RoomTypes
<1>2. ASSUME UNCHANGED <<clientVars, members, left>>,
             NEW j \in Jobs, job' = [job EXCEPT ![c] = j], j.do # "leave",
             job[c].do \in {"nothing", "history", "show", "broadcast"}
      PROVE  OneAtATime' /\ LeaversAreOut' /\ GoneTold'
  <2>1. \A d \in Conns : (Hears(d)' => Hears(d)) /\ (Served(d)' => Served(d))
    BY <1>2 DEF Hears, ClientsOf, Served, clientVars
  <2>2. MayShowGone(c) => MayShowGone(c)'
    BY <1>2 DEF MayShowGone, clientVars
  <2> QED
    BY <1>2, <2>1, <2>2, QuietKeepsGone DEF clientVars
<1>3. CASE Say(c)
  <2>1. /\ UNCHANGED <<clientVars, members, left>> /\ job[c].do = "nothing"
    BY <1>1, <1>3, JobsAre DEF Say, Free
  <2>2. PICK j \in Jobs : job' = [job EXCEPT ![c] = j] /\ j.do # "leave"
    <3>1. Len(log') \in Nat
      BY <1>1, <1>3, ClientsAssumption DEF Say, RoomTypes
    <3>2. [do |-> "send", msg |-> Len(log')] \in Jobs
      BY <3>1 DEF Jobs, Sending
    <3> QED
      BY <1>1, <1>3, <3>2, JobsAre DEF Say, GivesUp, Done
  <2> QED
    BY <1>2, <2>1, <2>2
<1>4. CASE ReadHistory(c) \/ ShowHistory(c) \/ Broadcast(c)
  <2>1. /\ UNCHANGED <<clientVars, members, left>>
        /\ job[c].do \in {"history", "show", "broadcast"}
    BY <1>4 DEF ReadHistory, ShowHistory, Broadcast
  <2>2. PICK j \in Jobs : job' = [job EXCEPT ![c] = j] /\ j.do # "leave"
    <3>1. [do |-> "show", rows |-> {i \in DOMAIN log : Lately(i)}] \in Jobs
      BY <1>1 DEF Jobs, Showing, RoomTypes
    <3> QED
      BY <1>1, <1>4, <3>1, JobsAre DEF ReadHistory, ShowHistory, Broadcast, Done
  <2> QED
    BY <1>2, <2>1, <2>2
<1>5. CASE LeaveRoom(c)
  <2>1. /\ job' = [job EXCEPT ![c] = [do |-> "leave"]] /\ [do |-> "leave"] \in Jobs
        /\ members' = members \ {c} /\ UNCHANGED <<clientVars, left>>
    BY <1>5, PlainJobsAre DEF LeaveRoom, Becomes
  <2>2. \A d \in Conns : (Hears(d)' => Hears(d)) /\ (Served(d)' => Served(d))
    BY <2>1 DEF Hears, ClientsOf, Served, clientVars
  <2> QED
    BY <2>1, <2>2, QuietKeepsGone DEF clientVars
<1>6. CASE AnnounceLeave(c)
  <2>1. /\ job' = [job EXCEPT ![c] = NoJob] /\ NoJob \in Jobs /\ job[c].do = "leave" /\ Served(c)
        /\ members' = members /\ UNCHANGED clientVars /\ BroadcastLeave(c)
    BY <1>1, <1>6, JobsAre DEF AnnounceLeave, Done, RoomInv, InService
  <2>2. c \notin members
    BY <2>1 DEF GoneInv, LeaversAreOut
  <2> QED
    BY <2>1, <2>2, FarewellKeepsGone
<1>7. CASE Depart(c)
  <2>1. /\ job' = [job EXCEPT ![c] = [do |-> "deregister"]] /\ [do |-> "deregister"] \in Jobs
        /\ [do |-> "deregister"].do = "deregister" /\ job[c].do = "nothing" /\ Served(c)
        /\ members' = members /\ UNCHANGED clientVars
    BY <1>1, <1>7, PlainJobsAre, JobsAre DEF Depart, Becomes, Free
  <2>2. CASE c \in members
    BY <1>7, <2>1, <2>2, FarewellKeepsGone DEF Depart
  <2>3. CASE c \notin members
    BY <1>2, <1>7, <2>1, <2>3 DEF Depart
  <2> QED
    BY <2>2, <2>3
<1>8. CASE Renew(c)
  <2>1. /\ job[c].do = "send" /\ job' = [job EXCEPT ![c].do = "broadcast"]
        /\ UNCHANGED <<members, left, sock>>
        /\ registry' = [u \in Users |-> registry[u] \ (idle \ {c})]
    BY <1>8 DEF Renew, Chat, Cleanup
  <2>2. PICK m \in Nat : job[c] = [do |-> "send", msg |-> m]
    BY <1>1, <2>1, JobsAre DEF Sending
  <2>3. PICK j : j = [do |-> "broadcast", msg |-> m]
    OBVIOUS
  <2>4. j \in Jobs /\ j.do = "broadcast" /\ [job[c] EXCEPT !.do = "broadcast"] = j
    BY <2>2, <2>3 DEF Jobs, Sending
  <2>5. job' = [job EXCEPT ![c] = [job[c] EXCEPT !.do = "broadcast"]]
    BY <2>1
  <2>6. job' = [job EXCEPT ![c] = j]
    BY <2>4, <2>5
  <2>7. \A d \in Conns : (Hears(d)' => Hears(d)) /\ (Served(d)' => Served(d))
    BY <2>1, ClientsAssumption DEF Hears, ClientsOf, Served
  <2>8. MayShowGone(c) => MayShowGone(c)'
    BY <2>1 DEF MayShowGone
  <2> QED
    BY <2>1, <2>4, <2>6, <2>7, <2>8, QuietKeepsGone
<1>9. CASE Unlist(c)
  <2>1. /\ job' = [job EXCEPT ![c] = [do |-> "close"]] /\ [do |-> "close"] \in Jobs
        /\ [do |-> "close"].do = "close" /\ UNCHANGED <<members, left, sock>>
        /\ registry' = [u \in Users |-> registry[u] \ {c}]
    BY <1>9, PlainJobsAre DEF Unlist, Deregister, Becomes
  <2>2. \A d \in Conns : (Hears(d)' => Hears(d)) /\ (Served(d)' => Served(d))
    BY <2>1, ClientsAssumption DEF Hears, ClientsOf, Served
  <2>3. MayShowGone(c)'
    BY <1>1, <2>1 DEF MayShowGone, RoomTypes
  <2> QED
    BY <2>1, <2>2, <2>3, QuietKeepsGone
<1>10. CASE CloseConn(c)
  <2>1. /\ job' = [job EXCEPT ![c] = NoJob] /\ NoJob \in Jobs /\ members' = members \ {c}
        /\ sock' = [sock EXCEPT ![c] = "closed"] /\ registry' = registry
        /\ left' = [left EXCEPT ![c] = {}]
    BY <1>1, <1>10, JobsAre DEF CloseConn, Close, Done
  <2>2. \A d \in Conns : sock'[d] = (IF d = c THEN "closed" ELSE sock[d])
                         /\ left'[d] \subseteq left[d]
    BY <1>1, <2>1 DEF RoomTypes, ClientsTypeOK
  <2>3. \A d \in Conns : (Hears(d)' => Hears(d)) /\ (Served(d)' => Served(d))
    BY <2>1, <2>2 DEF Hears, ClientsOf, Served
  <2> QED
    BY <2>1, <2>2, <2>3, QuietKeepsGone
<1>11. CASE AnnounceJoin(c)
  BY <1>11, WelcomeKeepsGone
<1> QED
  BY <1>3, <1>4, <1>5, <1>6, <1>7, <1>8, <1>9, <1>10, <1>11 DEF ChatWork

\* "UIBattle uses this room-presence event to maintain its opponent list and
\* online status" (chat.py:50-51): with one connection of a player at a time,
\* whoever is shown as gone to a registered member is not in the room once no
\* thread has anything left to do.
THEOREM GoneAreGone == ASSUME OneEach, HistoryLimit \in Nat PROVE ChatSpec => []LeftIsGone
<1>1. ChatInit => OneAtATime /\ LeaversAreOut /\ GoneTold
  BY DEF ChatInit, ClientsInit, OneAtATime, LeaversAreOut, GoneTold, Served
<1>2. RoomInv /\ (OneAtATime /\ LeaversAreOut /\ GoneTold) /\ [ChatNext]_chatVars
        => (OneAtATime /\ LeaversAreOut /\ GoneTold)'
  <2> SUFFICES ASSUME GoneInv, [ChatNext]_chatVars PROVE OneAtATime' /\ LeaversAreOut' /\ GoneTold'
    BY DEF GoneInv
  <2>1. ASSUME NEW c \in Conns, Arrive(c) \/ Drop(c) \/ Idle(c)
        PROVE  OneAtATime' /\ LeaversAreOut' /\ GoneTold'
    BY <2>1, ClientsKeepGone
  <2>2. ASSUME NEW c \in Conns, Join(c)
        PROVE  OneAtATime' /\ LeaversAreOut' /\ GoneTold'
    BY <2>2, JoinKeepsGone
  <2>3. ASSUME NEW c \in Conns, Say(c) \/ LeaveRoom(c) \/ Depart(c) \/ ChatWork(c)
        PROVE  OneAtATime' /\ LeaversAreOut' /\ GoneTold'
    BY <2>3, ThreadKeepsGone
  <2>4. CASE UNCHANGED chatVars
    BY <2>4 DEF chatVars, roomVars, clientVars, GoneInv, OneAtATime, LeaversAreOut, GoneTold, Hears,
       Served, ClientsOf, MayShowGone
  <2> QED
    BY <2>1, <2>2, <2>3, <2>4 DEF ChatNext
<1>3. RoomInv /\ GoneTold => LeftIsGone
  <2> SUFFICES ASSUME RoomInv, GoneTold, AllFree, NEW c \in members, NEW d \in members,
                      UserOf[c] # UserOf[d], sock[c] = "up", sock[d] = "up",
                      c \in ClientsOf(UserOf[c]), UserOf[d] \in left[c]
               PROVE  FALSE
    BY DEF LeftIsGone
  <2>1. d \in Conns /\ job[d].do = "nothing"
    BY DEF AllFree, NoJob, RoomInv, RoomTypes
  <2> QED
    BY <2>1 DEF GoneTold, Hears, MayShowGone
<1> QED
  BY <1>1, <1>2, <1>3, RoomIsInv, PTL DEF ChatSpec

==============================================================================
