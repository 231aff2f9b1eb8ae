---------------------------- MODULE RequestReply ----------------------------
(* What the event bus promises to the rules: a request is open from the      *)
(* moment it is made until it closes, at most one is open under a key, it is *)
(* answered or cancelled at most once, and what it closes with is the first  *)
(* answer it was given, or the failure of one of the subscribers.            *)
EXTENDS Naturals

CONSTANTS Requests, Keys, Answers, Unanswered, Cancelled

VARIABLES
  status,  \* "new", "open", "closed", "refused" or "failed"
  keyOf,   \* the key a request was made under
  answer   \* what it was answered with first

rrvars == <<status, keyOf, answer>>

OpenUnder(k) == {r \in Requests : status[r] = "open" /\ keyOf[r] = k}

Init ==
  /\ status = [r \in Requests |-> "new"]
  /\ keyOf \in [Requests -> Keys]
  /\ answer = [r \in Requests |-> Unanswered]

Open(r) ==
  /\ status[r] = "new" /\ OpenUnder(keyOf[r]) = {}
  /\ \E a \in Answers \cup {Unanswered}, s \in {"open", "closed", "failed"} :
        /\ s = "closed" => a # Unanswered
        /\ status' = [status EXCEPT ![r] = s]
        /\ answer' = [answer EXCEPT ![r] = a]
  /\ UNCHANGED keyOf

Refuse(r) ==
  /\ status[r] = "new" /\ OpenUnder(keyOf[r]) # {}
  /\ status' = [status EXCEPT ![r] = "refused"]
  /\ UNCHANGED <<keyOf, answer>>

\* The first answer counts.  It may come from a subscriber whose call also
\* ends the request.
Answer(r) ==
  /\ status[r] = "open" /\ answer[r] = Unanswered
  /\ \E a \in Answers \cup {Cancelled} : answer' = [answer EXCEPT ![r] = a]
  /\ \E s \in {"open", "closed", "failed"} : status' = [status EXCEPT ![r] = s]
  /\ UNCHANGED keyOf

Close(r) ==
  /\ status[r] = "open" /\ answer[r] # Unanswered
  /\ status' = [status EXCEPT ![r] = "closed"]
  /\ UNCHANGED <<keyOf, answer>>

Fail(r) ==
  /\ status[r] = "open"
  /\ status' = [status EXCEPT ![r] = "failed"]
  /\ UNCHANGED <<keyOf, answer>>

Next == \E r \in Requests : Open(r) \/ Refuse(r) \/ Answer(r) \/ Close(r) \/ Fail(r)

Spec == Init /\ [][Next]_rrvars
=============================================================================
