---------------------------- MODULE EventDelivery ----------------------------
(***************************************************************************)
(* What connected_client promises its application about events: those of   *)
(* the compositor reach it in the order of the stream, none is left out,   *)
(* and none before all of its bytes have arrived.  until returns with the  *)
(* event it waits for, and leaves those behind it to the next call.        *)
(* Nothing is delivered twice, unless until throws: only then, and not by  *)
(* returning or by receiving more, does the application go back, to the    *)
(* first event that until has not yet erased.                              *)
(***************************************************************************)
EXTENDS EventStream

VARIABLES
  sent,      \* the events the compositor has begun to send
  arrived,   \* the stream has arrived up to this offset
  position,  \* the next event delivered begins at this offset
  committed, \* what lies before this offset is never delivered again
  call,      \* the call that is running, or how the last one ended
  target     \* the pair that until waits for

vars == <<sent, arrived, position, committed, call, target>>

Running == {"recv_events", "until"}

Init ==
  /\ sent = {}
  /\ arrived = 0 /\ position = 0 /\ committed = 0
  /\ call = "returned" /\ target \in Keys

(* The compositor begins an event where its last one ends. *)
Send ==
  /\ \E n \in EventSizes, k \in Keys, b \in Boundaries(sent) :
       /\ \A e \in sent : EndOf(e) <= b
       /\ sent' = sent \cup {[start |-> b, size |-> n, key |-> k]}
  /\ UNCHANGED <<arrived, position, committed, call, target>>

Arrive ==
  /\ call \in Running
  /\ \E b \in Boundaries(sent) : arrived' \in (arrived + 1)..b
  /\ UNCHANGED <<sent, position, committed, call, target>>

Call ==
  /\ call \notin Running
  /\ call' \in Running /\ target' \in Keys
  /\ UNCHANGED <<sent, arrived, position, committed>>

(* Event e is the next one, and all of it is there. *)
IsNext(e) == e.start = position /\ EndOf(e) <= arrived

(* An event that until does not wait for reaches its overload. *)
Deliver ==
  /\ call = "until"
  /\ \E e \in sent : IsNext(e) /\ e.key # target /\ position' = EndOf(e)
  /\ UNCHANGED <<sent, arrived, committed, call, target>>

(* The awaited event reaches its callback, and all is settled with it. *)
Return ==
  /\ call = "until"
  /\ \E e \in sent : IsNext(e) /\ e.key = target /\ position' = EndOf(e)
  /\ committed' = position'
  /\ call' = "returned"
  /\ UNCHANGED <<sent, arrived, target>>

(* until goes on to receive more. *)
Commit ==
  /\ call = "until"
  /\ committed' = position
  /\ UNCHANGED <<sent, arrived, position, call, target>>

(* All events that arrived, and were not delivered, are handed over. *)
HandOver ==
  /\ call = "recv_events"
  /\ position = committed
  /\ position' \in Boundaries(sent)
  /\ position <= position' /\ position' <= arrived
  /\ \A e \in sent : ~Within(e, position', arrived)
  /\ committed' = position'
  /\ call' = "returned"
  /\ UNCHANGED <<sent, arrived, target>>

(* A callback, or the read, threw out of the call. *)
Throw ==
  /\ call \in Running
  /\ position' = committed
  /\ call' = "threw"
  /\ UNCHANGED <<sent, arrived, committed, target>>

Next ==
  Send \/ Arrive \/ Call \/ Deliver \/ Return \/ Commit \/ HandOver \/ Throw

Spec == Init /\ [][Next]_vars
=============================================================================
