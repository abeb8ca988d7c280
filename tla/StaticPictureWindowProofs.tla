---------------------- MODULE StaticPictureWindowProofs ----------------------
(***************************************************************************)
(* Proofs about StaticPictureWindow for all lists of globals and any       *)
(* number of pings and configure events.  The argument is about everything *)
(* that is on its way to the compositor, flushed or still in request_buff_ *)
(* (Pipeline): registering appends to it, flushing leaves it as it is, and *)
(* the compositor takes its head.                                          *)
(***************************************************************************)
EXTENDS StaticPictureWindow, QueueLemmas, TLAPS

Pipeline == toServer \o outbox

Ops == {"get_registry", "sync", "bind", "create_pool", "create_buffer",
        "destroy", "create_surface", "get_xdg_surface", "get_toplevel",
        "pong", "ack_configure", "attach", "commit"}

Payloads == Nat \cup STRING
RequestType == [op : Ops, obj : Nat \ {0}, new : Nat, with : Payloads]
EventNames == {"global", "done", "configure", "ping", "close", "error"}
EventType == [ev : EventNames, with : Payloads]

TypeOK ==
  /\ pc \in {"start", "initial", "config", "wait", "closed", "exited"}
  /\ toServer \in Seq(RequestType) /\ outbox \in Seq(RequestType)
  /\ toClient \in Seq(EventType)
  /\ nextId \in Nat \ {0, 1} /\ nextNew \in Nat \ {0}
  /\ id \in [Names -> Nat] /\ found \subseteq Wanted
  /\ globals \in GlobalLists
  /\ configures \in Nat /\ pings \in Nat

OrderInv == nextNew <= nextId /\ InOrder(Pipeline, nextNew, nextId)

(* What the compositor makes for a request, and the objects it has then.   *)
Made(r) == IF r.op = "bind" THEN r.with ELSE Creates(r.op)

After(objs, r) ==
  IF r.new # 0 THEN objs \cup {[id |-> r.new, iface |-> Made(r)]}
  ELSE IF r.op = "destroy" THEN {o \in objs : o.id # r.obj} ELSE objs

Destroys(r, i) == r.op = "destroy" /\ r.obj = i

(* A compositor with the objects objs will know object i, of interface     *)
(* iface, when it comes to request k of s.                                 *)
Avail(objs, s, k, i, iface) ==
  /\ i # 0
  /\ \/ [id |-> i, iface |-> iface] \in objs
     \/ \E j \in 1..(k - 1) : s[j].new = i /\ Made(s[j]) = iface
  /\ \A j \in 1..(k - 1) : ~Destroys(s[j], i)

(* It will know the objects of request k.                                  *)
AsksKnown(objs, s, k) ==
  /\ Avail(objs, s, k, s[k].obj, Target(s[k].op))
  /\ s[k].op = "get_xdg_surface" => Avail(objs, s, k, s[k].with, "wl_surface")
  /\ s[k].op = "attach" => Avail(objs, s, k, s[k].with, "wl_buffer")

AllKnown(objs, s) == \A k \in 1..Len(s) : AsksKnown(objs, s, k)

(* The objects whose ids are kept to be used later, all but the pool.      *)
Kept == Names \ {"wl_shm_pool"}
Held == {[id |-> Display, iface |-> "wl_display"]} \cup
        {[id |-> id[n], iface |-> n] : n \in {m \in Kept : id[m] # 0}}

KnownInv ==
  /\ AllKnown(objects, Pipeline)
  /\ \A k \in 1..Len(Pipeline) : Pipeline[k].obj < nextId
  /\ \A o \in Held :
       o.id < nextId /\ Avail(objects, Pipeline, Len(Pipeline) + 1, o.id, o.iface)

(* Which ids have been reserved at which stage.                            *)
StageInv ==
  /\ pc = "initial" => id["wl_registry"] # 0
  /\ \A g \in found : id[g] # 0
  /\ pc \in {"config", "wait", "closed"} =>
       /\ found = Wanted
       /\ \A n \in {"wl_surface", "wl_buffer", "xdg_surface"} : id[n] # 0

(* Whatever is attached in s is attached behind an acknowledgement.        *)
AckedBefore(a, s) ==
  \A k \in 1..Len(s) : s[k].op = "attach" =>
    a \/ \E j \in 1..(k - 1) : s[j].op = "ack_configure"

AckInv == ContentAfterAck /\ AckedBefore(acked, Pipeline)

(* All wanted globals that are offered have been found or are among the    *)
(* first k events.                                                         *)
GlobalsWithin(k) ==
  \A g \in Wanted \cap Offered :
    g \in found
      \/ \E j \in 1..k : toClient[j].ev = "global" /\ toClient[j].with = g

NoDone == \A k \in 1..Len(toClient) : toClient[k].ev # "done"

(* The done event of the sync is behind the globals.                       *)
GlobalsInv ==
  /\ found \subseteq Offered
  /\ \A k \in 1..Len(toClient) :
       /\ toClient[k].ev = "global" => toClient[k].with \in Offered
       /\ toClient[k].ev = "error" => closing = "error"
  /\ pc = "start" => toServer = <<>> /\ outbox = <<>> /\ NoDone
  /\ pc = "initial" =>
       \/ /\ Len(toServer) = 2 /\ NoDone
          /\ toServer[1].op = "get_registry" /\ toServer[2].op = "sync"
       \/ /\ Len(toServer) = 1 /\ toServer[1].op = "sync" /\ NoDone
          /\ GlobalsWithin(Len(toClient))
       \/ /\ toServer = <<>>
          /\ \A k \in 1..Len(toClient) :
               toClient[k].ev = "done" => GlobalsWithin(k - 1)
  /\ pc = "exited" => ~(Wanted \subseteq Offered) \/ closing = "error"

IInv ==
  TypeOK /\ OrderInv /\ KnownInv /\ StageInv /\ AckInv /\ GlobalsInv

-----------------------------------------------------------------------------
(* Sequences of requests. *)

LEMMA RequestFacts ==
  ASSUME NEW s \in Seq(RequestType), NEW k \in 1..Len(s)
  PROVE  /\ s[k] \in RequestType
         /\ s[k].op \in Ops /\ s[k].obj \in Nat \ {0} /\ s[k].new \in Nat
<1>1. s[k] \in RequestType
  BY ElementOfSeq
<1>. QED
  BY <1>1 DEF RequestType

LEMMA NewIdType == \A r \in RequestType : r.new \in Nat
BY DEF RequestType

(* What is known at request k stays so when requests are appended.         *)
LEMMA AvailPrefix ==
  ASSUME NEW objs, NEW s \in Seq(RequestType), NEW t \in Seq(RequestType),
         NEW k \in 1..(Len(s) + 1), NEW i, NEW iface, Avail(objs, s, k, i, iface)
  PROVE  Avail(objs, s \o t, k, i, iface)
<1>1. \A j \in 1..(k - 1) : (s \o t)[j] = s[j]
  BY ConcatProperties, LenProperties
<1>. QED
  BY <1>1 DEF Avail

(* It is known behind more requests, if none of them destroys it.          *)
LEMMA AvailBehind ==
  ASSUME NEW objs, NEW s \in Seq(RequestType), NEW t \in Seq(RequestType),
         NEW m \in 0..Len(t), NEW i, NEW iface,
         Avail(objs, s, Len(s) + 1, i, iface),
         \A j \in 1..m : ~Destroys(t[j], i)
  PROVE  Avail(objs, s \o t, Len(s) + m + 1, i, iface)
<1>1. /\ Len(s) \in Nat /\ Len(t) \in Nat /\ Len(s \o t) = Len(s) + Len(t)
      /\ \A j \in 1..Len(s) : (s \o t)[j] = s[j]
      /\ \A j \in 1..(Len(s) + m) :
           j > Len(s) => j - Len(s) \in 1..m /\ (s \o t)[j] = t[j - Len(s)]
  BY ConcatProperties, LenProperties
<1>2. \A j \in 1..(Len(s) + m) : ~Destroys((s \o t)[j], i)
  <2> SUFFICES ASSUME NEW j \in 1..(Len(s) + m)
               PROVE  ~Destroys((s \o t)[j], i)
    OBVIOUS
  <2>1. CASE j <= Len(s)
    BY <1>1, <2>1 DEF Avail
  <2>2. CASE j > Len(s)
    BY <1>1, <2>2
  <2>. QED
    BY <1>1, <2>1, <2>2
<1>3. \A j \in 1..Len(s) : j \in 1..(Len(s) + m)
  BY <1>1
<1>. QED
  BY <1>1, <1>2, <1>3 DEF Avail

(* A new object is known behind the request that makes it.                 *)
LEMMA AvailNew ==
  ASSUME NEW objs, NEW s \in Seq(RequestType), NEW t \in Seq(RequestType),
         NEW m \in 0..Len(t), NEW i \in Nat \ {0}, NEW j \in 1..m,
         t[j].new = i,
         \A n \in 1..Len(s) : s[n].obj # i,
         \A n \in 1..m : ~Destroys(t[n], i)
  PROVE  Avail(objs, s \o t, Len(s) + m + 1, i, Made(t[j]))
<1>1. /\ Len(s) \in Nat /\ Len(t) \in Nat /\ Len(s \o t) = Len(s) + Len(t)
      /\ \A n \in 1..Len(s) : (s \o t)[n] = s[n]
      /\ \A n \in 1..(Len(s) + m) :
           n > Len(s) => n - Len(s) \in 1..m /\ (s \o t)[n] = t[n - Len(s)]
  BY ConcatProperties, LenProperties
<1>2. \A n \in 1..(Len(s) + m) : ~Destroys((s \o t)[n], i)
  <2> SUFFICES ASSUME NEW n \in 1..(Len(s) + m)
               PROVE  ~Destroys((s \o t)[n], i)
    OBVIOUS
  <2>1. CASE n <= Len(s)
    BY <1>1, <2>1 DEF Destroys
  <2>2. CASE n > Len(s)
    BY <1>1, <2>2
  <2>. QED
    BY <1>1, <2>1, <2>2
<1>3. Len(s) + j \in 1..(Len(s) + m) /\ (s \o t)[Len(s) + j] = t[j]
  BY <1>1
<1>. QED
  BY SMTT(30), <1>1, <1>2, <1>3 DEF Avail

(* It is known as well when the compositor has handled the first request.  *)
LEMMA AvailTail ==
  ASSUME NEW objs, NEW s \in Seq(RequestType), s # <<>>,
         NEW k \in 1..Len(s), NEW i, NEW iface, Avail(objs, s, k + 1, i, iface)
  PROVE  Avail(After(objs, Head(s)), Tail(s), k, i, iface)
<1>1. /\ Len(s) \in Nat /\ Len(Tail(s)) = Len(s) - 1 /\ Head(s) = s[1]
      /\ \A j \in 1..(k - 1) : Tail(s)[j] = s[j + 1] /\ j + 1 \in 1..k
      /\ 1 \in 1..k
  BY HeadTailProperties, LenProperties
<1>2. i # 0 /\ \A j \in 1..k : ~Destroys(s[j], i)
  BY DEF Avail
<1>3. \A j \in 1..(k - 1) : ~Destroys(Tail(s)[j], i)
  BY <1>1, <1>2
<1>4. CASE [id |-> i, iface |-> iface] \in objs
  <2>1. [id |-> i, iface |-> iface] \in After(objs, Head(s))
    BY <1>1, <1>2, <1>4 DEF After, Destroys
  <2>. QED
    BY <1>2, <1>3, <2>1 DEF Avail
<1>5. ASSUME NEW j \in 1..k, s[j].new = i, Made(s[j]) = iface
      PROVE  Avail(After(objs, Head(s)), Tail(s), k, i, iface)
  <2>1. CASE j = 1
    <3>1. [id |-> i, iface |-> iface] \in After(objs, Head(s))
      BY <1>1, <1>2, <1>5, <2>1 DEF After
    <3>. QED
      BY <1>2, <1>3, <3>1 DEF Avail
  <2>2. CASE j # 1
    <3>1. j - 1 \in 1..(k - 1) /\ Tail(s)[j - 1] = s[j]
      BY <1>1, <2>2
    <3>. QED
      BY <1>2, <1>3, <1>5, <3>1 DEF Avail
  <2>. QED
    BY <2>1, <2>2
<1>. QED
  BY <1>4, <1>5 DEF Avail

(* What is known behind t of the objects that are known behind s, and new  *)
(* ones, is known behind both.                                             *)
LEMMA AvailConcat ==
  ASSUME NEW objs, NEW s \in Seq(RequestType), NEW t \in Seq(RequestType),
         NEW held, \A o \in held : Avail(objs, s, Len(s) + 1, o.id, o.iface),
         \A j \in 1..Len(t), n \in 1..Len(s) : t[j].new # 0 => s[n].obj # t[j].new,
         NEW m \in 1..(Len(t) + 1), NEW i, NEW iface, Avail(held, t, m, i, iface)
  PROVE  Avail(objs, s \o t, Len(s) + m, i, iface)
<1>1. /\ m - 1 \in 0..Len(t) /\ Len(s) + (m - 1) + 1 = Len(s) + m
      /\ \A j \in 1..(m - 1) : ~Destroys(t[j], i)
      /\ i # 0
  BY LenProperties DEF Avail
<1>2. CASE [id |-> i, iface |-> iface] \in held
  <2>1. Avail(objs, s, Len(s) + 1, i, iface)
    BY <1>2
  <2>2. Avail(objs, s \o t, Len(s) + (m - 1) + 1, i, iface)
    BY <1>1, <2>1, AvailBehind
  <2>. QED
    BY <1>1, <2>2
<1>3. ASSUME NEW j \in 1..(m - 1), t[j].new = i, Made(t[j]) = iface
      PROVE  Avail(objs, s \o t, Len(s) + m, i, iface)
  <2>1. j \in 1..Len(t)
    BY LenProperties
  <2>2. i \in Nat \ {0}
    BY <1>1, <1>3, <2>1, RequestFacts
  <2>3. \A n \in 1..Len(s) : s[n].obj # i
    BY <1>1, <1>3, <2>1
  <2>4. Avail(objs, s \o t, Len(s) + (m - 1) + 1, i, Made(t[j]))
    BY <1>1, <1>3, <2>2, <2>3, AvailNew
  <2>. QED
    BY <1>1, <1>3, <2>4
<1>. QED
  BY <1>2, <1>3 DEF Avail

LEMMA KnownConcat ==
  ASSUME NEW objs, NEW s \in Seq(RequestType), NEW t \in Seq(RequestType),
         NEW held, \A o \in held : Avail(objs, s, Len(s) + 1, o.id, o.iface),
         \A j \in 1..Len(t), n \in 1..Len(s) : t[j].new # 0 => s[n].obj # t[j].new,
         AllKnown(objs, s), AllKnown(held, t)
  PROVE  AllKnown(objs, s \o t)
<1> SUFFICES ASSUME NEW k \in 1..Len(s \o t)
             PROVE  AsksKnown(objs, s \o t, k)
  BY DEF AllKnown
<1>1. /\ Len(s) \in Nat /\ Len(t) \in Nat /\ Len(s \o t) = Len(s) + Len(t)
      /\ k <= Len(s) => (s \o t)[k] = s[k]
      /\ k > Len(s) => (s \o t)[k] = t[k - Len(s)]
  BY ConcatProperties, LenProperties
<1>2. CASE k <= Len(s)
  <2>1. AsksKnown(objs, s, k) /\ (s \o t)[k] = s[k] /\ k \in 1..(Len(s) + 1)
    BY <1>1, <1>2 DEF AllKnown
  <2>. QED
    BY <2>1, AvailPrefix DEF AsksKnown
<1>3. CASE k > Len(s)
  <2> DEFINE m == k - Len(s)
  <2>1. /\ m \in 1..Len(t) /\ m \in 1..(Len(t) + 1) /\ Len(s) + m = k
        /\ (s \o t)[k] = t[m]
    BY <1>1, <1>3
  <2>2. AsksKnown(held, t, m)
    BY <2>1 DEF AllKnown
  <2> HIDE DEF m
  <2>3. \A i, iface : Avail(held, t, m, i, iface) =>
                      Avail(objs, s \o t, k, i, iface)
    BY <2>1, AvailConcat
  <2>. QED
    BY <2>1, <2>2, <2>3 DEF AsksKnown
<1>. QED
  BY <1>1, <1>2, <1>3

LEMMA KnownTail ==
  ASSUME NEW objs, NEW s \in Seq(RequestType), s # <<>>, AllKnown(objs, s)
  PROVE  AllKnown(After(objs, Head(s)), Tail(s))
<1> SUFFICES ASSUME NEW k \in 1..Len(Tail(s))
             PROVE  AsksKnown(After(objs, Head(s)), Tail(s), k)
  BY DEF AllKnown
<1>1. k \in 1..Len(s) /\ k + 1 \in 1..Len(s) /\ Tail(s)[k] = s[k + 1]
  BY HeadTailProperties, LenProperties
<1>2. AsksKnown(objs, s, k + 1)
  BY <1>1 DEF AllKnown
<1>. QED
  BY <1>1, <1>2, AvailTail DEF AsksKnown

LEMMA AckConcat ==
  ASSUME NEW a, NEW s \in Seq(RequestType), NEW t \in Seq(RequestType),
         AckedBefore(a, s), AckedBefore(a, t)
  PROVE  AckedBefore(a, s \o t)
<1> DEFINE st == s \o t
<1>1. /\ Len(s) \in Nat /\ Len(t) \in Nat /\ Len(st) = Len(s) + Len(t)
      /\ \A k \in 1..Len(s) : st[k] = s[k]
      /\ \A k \in 1..Len(st) : k > Len(s) => st[k] = t[k - Len(s)]
      /\ \A k \in 1..Len(t) : st[Len(s) + k] = t[k]
  BY ConcatProperties, LenProperties
<1> HIDE DEF st
<1> SUFFICES ASSUME NEW k \in 1..Len(st), st[k].op = "attach", ~a
             PROVE  \E j \in 1..(k - 1) : st[j].op = "ack_configure"
  BY DEF AckedBefore, st
<1>2. CASE k <= Len(s)
  <2>1. k \in 1..Len(s) /\ s[k].op = "attach"
    BY <1>1, <1>2
  <2>2. PICK j \in 1..(k - 1) : s[j].op = "ack_configure"
    BY <2>1 DEF AckedBefore
  <2>3. j \in 1..Len(s)
    BY <2>1
  <2>. QED
    BY <1>1, <2>2, <2>3
<1>3. CASE k > Len(s)
  <2>1. k - Len(s) \in 1..Len(t) /\ st[k] = t[k - Len(s)]
    BY <1>1, <1>3
  <2>2. PICK j \in 1..(k - Len(s) - 1) : t[j].op = "ack_configure"
    BY <2>1 DEF AckedBefore
  <2>3. Len(s) + j \in 1..(k - 1) /\ j \in 1..Len(t)
    BY <1>1, <2>1
  <2>4. st[Len(s) + j] = t[j]
    BY <1>1, <2>3
  <2>. QED
    BY <2>2, <2>3, <2>4
<1>. QED
  BY <1>1, <1>2, <1>3

LEMMA AckTail ==
  ASSUME NEW a, NEW s \in Seq(RequestType), s # <<>>, AckedBefore(a, s)
  PROVE  /\ AckedBefore(a \/ Head(s).op = "ack_configure", Tail(s))
         /\ Head(s).op = "attach" => a
<1>1. /\ Len(s) \in Nat \ {0} /\ Len(Tail(s)) = Len(s) - 1 /\ Head(s) = s[1]
      /\ \A j \in 1..Len(Tail(s)) : Tail(s)[j] = s[j + 1]
  BY HeadTailProperties, EmptySeq
<1>2. Head(s).op = "attach" => a
  BY <1>1 DEF AckedBefore
<1>3. ASSUME NEW k \in 1..Len(Tail(s)), Tail(s)[k].op = "attach", ~a,
             Head(s).op # "ack_configure"
      PROVE  \E j \in 1..(k - 1) : Tail(s)[j].op = "ack_configure"
  <2>1. k + 1 \in 1..Len(s) /\ s[k + 1].op = "attach"
    BY <1>1, <1>3
  <2>2. PICK j \in 1..k : s[j].op = "ack_configure"
    BY <1>3, <2>1 DEF AckedBefore
  <2>3. j # 1
    BY <1>1, <1>3, <2>2
  <2>4. j - 1 \in 1..(k - 1) /\ j - 1 \in 1..Len(Tail(s))
    BY <1>1, <2>3
  <2>5. Tail(s)[j - 1] = s[j]
    BY <1>1, <2>4
  <2>. QED
    BY <2>2, <2>4, <2>5
<1>. QED
  BY <1>2, <1>3 DEF AckedBefore

-----------------------------------------------------------------------------
(* Steps. *)

(* Registering requests about objects that are held by then, which create  *)
(* objects with the next ids, keeps the invariants of the pipeline.        *)
LEMMA RegisteringKeepsInv ==
  ASSUME TypeOK, OrderInv, KnownInv, AckInv, UNCHANGED compositor,
         NEW R \in Seq(RequestType), Pipeline' = Pipeline \o R,
         nextId' \in Nat, nextId <= nextId',
         InOrder(R, nextId, nextId'), AckedBefore(acked, R),
         AllKnown(Held, R), \A m \in 1..Len(R) : R[m].obj < nextId',
         \A o \in Held' : o.id < nextId' /\ Avail(Held, R, Len(R) + 1, o.id, o.iface)
  PROVE  OrderInv' /\ KnownInv' /\ AckInv'
<1>1. Pipeline \in Seq(RequestType)
  BY ConcatProperties DEF TypeOK, Pipeline
<1>2. /\ Len(Pipeline) \in Nat /\ Len(R) \in Nat
      /\ Len(Pipeline') = Len(Pipeline) + Len(R)
      /\ \A k \in 1..Len(Pipeline) : Pipeline'[k] = Pipeline[k]
      /\ \A k \in 1..Len(Pipeline') : k > Len(Pipeline) =>
           k - Len(Pipeline) \in 1..Len(R) /\ Pipeline'[k] = R[k - Len(Pipeline)]
  BY <1>1, ConcatProperties, LenProperties
<1>3. UNCHANGED <<objects, nextNew, acked, attached>>
  BY DEF compositor
<1>4. nextId \in Nat /\ nextNew \in Nat /\ nextNew <= nextId
  BY DEF TypeOK, OrderInv
<1>5. OrderInv'
  <2>1. InOrder(Pipeline \o R, nextNew, nextId')
    BY <1>1, <1>4, NewIdType, InOrderConcat DEF OrderInv
  <2>. QED
    BY <1>3, <1>4, <2>1 DEF OrderInv
<1>6. AckInv'
  BY <1>1, <1>3, AckConcat DEF AckInv, ContentAfterAck
<1>7. \A j \in 1..Len(R), n \in 1..Len(Pipeline) :
        R[j].new # 0 => Pipeline[n].obj # R[j].new
  <2>1. \A n \in 1..Len(Pipeline) : Pipeline[n].obj \in Nat /\ Pipeline[n].obj < nextId
    BY <1>1, RequestFacts DEF KnownInv
  <2>2. \A j \in 1..Len(R) : R[j].new \in Nat /\ (R[j].new # 0 => nextId <= R[j].new)
    BY RequestFacts DEF InOrder
  <2>. QED
    BY <1>4, <2>1, <2>2
<1>8. \A o \in Held : Avail(objects, Pipeline, Len(Pipeline) + 1, o.id, o.iface)
  BY DEF KnownInv
<1>9. AllKnown(objects, Pipeline)'
  BY <1>1, <1>3, <1>7, <1>8, KnownConcat DEF KnownInv
<1>10. ASSUME NEW k \in 1..Len(Pipeline') PROVE Pipeline'[k].obj < nextId'
  <2>1. CASE k <= Len(Pipeline)
    <3>1. k \in 1..Len(Pipeline) /\ Pipeline[k].obj \in Nat
      BY <1>1, <1>2, <2>1, RequestFacts
    <3>. QED
      BY <1>2, <1>4, <3>1 DEF KnownInv
  <2>2. CASE k > Len(Pipeline)
    BY <1>2, <2>2
  <2>. QED
    BY <1>2, <2>1, <2>2
<1>11. ASSUME NEW o \in Held'
       PROVE  Avail(objects, Pipeline, Len(Pipeline) + 1, o.id, o.iface)'
  <2>1. Len(R) + 1 \in 1..(Len(R) + 1) /\ Len(Pipeline') + 1 = Len(Pipeline) + (Len(R) + 1)
    BY <1>2
  <2>. QED
    BY <1>1, <1>3, <1>7, <1>8, <2>1, AvailConcat
<1>. QED
  BY <1>5, <1>6, <1>9, <1>10, <1>11 DEF KnownInv

(* register_request and a flush extend the pipeline by the new requests.   *)
LEMMA FlushedPipeline ==
  ASSUME TypeOK, NEW R \in Seq(RequestType), RegisterAndFlush(R)
  PROVE  /\ Pipeline' = Pipeline \o R
         /\ toServer' \in Seq(RequestType) /\ outbox' = <<>>
         /\ outbox' \in Seq(RequestType)
<1>1. toServer' = Pipeline \o R /\ outbox' = <<>>
  BY DEF RegisterAndFlush, Pipeline
<1>2. Pipeline \in Seq(RequestType)
  BY ConcatProperties DEF TypeOK, Pipeline
<1>3. Pipeline \o R \in Seq(RequestType)
  BY <1>2, ConcatProperties
<1>4. (Pipeline \o R) \o <<>> = Pipeline \o R
  BY <1>3, ConcatEmptySeq
<1>. QED
  BY <1>1, <1>3, <1>4, EmptySeq DEF Pipeline

(* register_request alone does so, too.                                    *)
LEMMA RegisteredPipeline ==
  ASSUME TypeOK, NEW r \in RequestType, outbox' = Append(outbox, r),
         UNCHANGED toServer
  PROVE  /\ Pipeline' = Pipeline \o <<r>>
         /\ outbox' \in Seq(RequestType)
         /\ <<r>> \in Seq(RequestType) /\ Len(<<r>>) = 1 /\ <<r>>[1] = r
<1>1. <<r>> \in Seq(RequestType)
  OBVIOUS
<1>2. Append(outbox, r) = outbox \o <<r>>
  BY AppendIsConcat DEF TypeOK
<1>3. toServer \o (outbox \o <<r>>) = (toServer \o outbox) \o <<r>>
  BY <1>1, ConcatAssociative DEF TypeOK
<1>4. outbox \o <<r>> \in Seq(RequestType)
  BY <1>1, ConcatProperties DEF TypeOK
<1>. QED
  BY <1>1, <1>2, <1>3, <1>4 DEF Pipeline

(* The objects held are the display and those whose ids are kept.          *)
LEMMA HeldFacts ==
  ASSUME TypeOK
  PROVE  /\ [id |-> Display, iface |-> "wl_display"] \in Held
         /\ \A n \in Kept : id[n] # 0 => [id |-> id[n], iface |-> n] \in Held
         /\ \A o \in Held :
              /\ o = [id |-> o.id, iface |-> o.iface]
              /\ o.id \in Nat /\ o.id # 0
BY DEF TypeOK, Held, Kept, Display

(* The registry and the sync are asked for.                                *)
LEMMA StartKeepsInv ==
  ASSUME IInv, Start
  PROVE  IInv'
<1> DEFINE R == <<Request("get_registry", Display, nextId, 0),
                  Request("sync", Display, nextId + 1, 0)>>
<1> USE DEF IInv
<1>1. /\ R \in Seq(RequestType) /\ Len(R) = 2
      /\ R[1].op = "get_registry" /\ R[1].obj = Display /\ R[1].new = nextId
      /\ R[2].op = "sync" /\ R[2].obj = Display /\ R[2].new = nextId + 1
  BY DEF TypeOK, Request, RequestType, Ops, Payloads, Display
<1>2. /\ pc = "start" /\ pc' = "initial" /\ nextId' = nextId + 2
      /\ id' = [id EXCEPT !["wl_registry"] = nextId, !["wl_callback"] = nextId + 1]
      /\ RegisterAndFlush(R) /\ toServer' = Pipeline \o R
      /\ UNCHANGED found /\ UNCHANGED toClient /\ UNCHANGED compositor
  BY DEF Start, RegisterAndFlush, Pipeline
<1> HIDE DEF R
<1>3. /\ Pipeline' = Pipeline \o R /\ outbox' = <<>>
      /\ toServer' \in Seq(RequestType) /\ outbox' \in Seq(RequestType)
  BY <1>1, <1>2, FlushedPipeline
<1>4. /\ nextId \in Nat \ {0, 1} /\ id \in [Names -> Nat] /\ id' \in [Names -> Nat]
      /\ id'["wl_registry"] = nextId /\ id'["wl_callback"] = nextId + 1
      /\ \A n \in Names : n \notin {"wl_registry", "wl_callback"} => id'[n] = id[n]
  BY <1>2 DEF TypeOK, Names
<1>5. OrderInv' /\ KnownInv' /\ AckInv'
  <2>1. InOrder(R, nextId, nextId')
    <3>1. /\ \A k \in 1..Len(R) : k = 1 \/ k = 2
          /\ 1 \in 1..Len(R) /\ 2 \in 1..Len(R)
          /\ \A i \in nextId..(nextId' - 1) : i = nextId \/ i = nextId + 1
      BY <1>1, <1>2, <1>4
    <3>2. R[1].new = nextId /\ R[2].new = nextId + 1 /\ nextId' = nextId + 2
            /\ nextId \in Nat
      BY <1>1, <1>2, <1>4
    <3>. QED
      BY <3>1, <3>2 DEF InOrder
  <2>2. AckedBefore(acked, R)
    BY <1>1 DEF AckedBefore
  <2>3. AllKnown(Held, R)
    BY <1>1, HeldFacts DEF AllKnown, AsksKnown, Avail, Target, Destroys, Display
  <2>4. \A m \in 1..Len(R) : R[m].obj < nextId'
    BY <1>1, <1>2, <1>4 DEF Display
  <2>5. ASSUME NEW o \in Held'
        PROVE  o.id < nextId' /\ Avail(Held, R, Len(R) + 1, o.id, o.iface)
    <3>1. CASE o \in Held
      BY <1>1, <1>2, <1>4, <3>1, HeldFacts DEF KnownInv, Avail, Destroys
    <3>2. CASE o \notin Held
      <4>1. o \in {[id |-> nextId, iface |-> "wl_registry"],
                  [id |-> nextId + 1, iface |-> "wl_callback"]}
        BY <1>4, <3>2 DEF Held, Kept
      <4>2. /\ Made(R[1]) = "wl_registry" /\ Made(R[2]) = "wl_callback"
            /\ \A j \in 1..Len(R) : ~Destroys(R[j], o.id)
            /\ 1 \in 1..Len(R) /\ 2 \in 1..Len(R)
        BY <1>1 DEF Made, Creates, Destroys
      <4>. QED
        BY <1>1, <1>2, <1>4, <4>1, <4>2 DEF Avail
    <3>. QED
      BY <3>1, <3>2
  <2>6. /\ R \in Seq(RequestType) /\ Pipeline' = Pipeline \o R
        /\ nextId' \in Nat /\ nextId <= nextId' /\ UNCHANGED compositor
    BY <1>1, <1>2, <1>3, <1>4
  <2>. QED
    BY <2>1, <2>2, <2>3, <2>4, <2>5, <2>6, RegisteringKeepsInv
<1>6. TypeOK'
  BY SMTT(30), <1>2, <1>3, <1>4 DEF TypeOK, compositor
<1>7. StageInv'
  BY <1>2, <1>4 DEF StageInv, TypeOK, Wanted, Names
<1>8. GlobalsInv'
  <2>1. toServer = <<>> /\ outbox = <<>> /\ NoDone
    BY <1>2 DEF GlobalsInv
  <2>2. toServer' = R
    BY <1>1, <1>2, <2>1, EmptySeq, ConcatEmptySeq DEF Pipeline
  <2>3. NoDone'
    BY <1>2, <2>1 DEF NoDone
  <2>. QED
    BY <1>1, <1>2, <2>2, <2>3 DEF GlobalsInv, Offered, compositor
<1>. QED
  BY <1>5, <1>6, <1>7, <1>8

(* Taking an event leaves the others as they were.                         *)
LEMMA TakenFacts ==
  ASSUME TypeOK, GlobalsInv, toClient # <<>>, toClient' = Tail(toClient),
         UNCHANGED globals, UNCHANGED closing
  PROVE  /\ toClient' \in Seq(EventType) /\ Len(toClient) \in Nat \ {0}
         /\ Len(toClient') = Len(toClient) - 1
         /\ \A k \in 1..Len(toClient') : toClient'[k] = toClient[k + 1]
         /\ Head(toClient) = toClient[1] /\ Head(toClient).with \in Payloads
         /\ Offered' = Offered
         /\ \A k \in 1..Len(toClient') :
              /\ toClient'[k].ev = "global" => toClient'[k].with \in Offered'
              /\ toClient'[k].ev = "error" => closing' = "error"
<1>1. /\ toClient' \in Seq(EventType) /\ Len(toClient) \in Nat \ {0}
      /\ Len(toClient') = Len(toClient) - 1
      /\ \A k \in 1..Len(toClient') : toClient'[k] = toClient[k + 1]
      /\ Head(toClient) = toClient[1] /\ Head(toClient) \in EventType
  BY HeadTailProperties, EmptySeq DEF TypeOK
<1>2. Offered' = Offered
  BY DEF Offered
<1>3. \A k \in 1..Len(toClient') : k + 1 \in 1..Len(toClient)
  BY <1>1
<1>4. Head(toClient).with \in Payloads
  BY <1>1 DEF EventType
<1>. QED
  BY <1>1, <1>2, <1>3, <1>4 DEF GlobalsInv

(* So does the order of the globals and the done event.                    *)
LEMMA GlobalTakenKeepsInv ==
  ASSUME TypeOK, GlobalsInv, Takes("initial", "global"), UNCHANGED compositor,
         UNCHANGED <<pc, toServer>>, found \subseteq found', found' \subseteq Offered,
         Head(toClient).with \in Wanted => Head(toClient).with \in found'
  PROVE  GlobalsInv'
<1>1. /\ toClient # <<>> /\ toClient' = Tail(toClient) /\ pc = "initial"
      /\ Head(toClient).ev = "global"
      /\ UNCHANGED globals /\ UNCHANGED closing
  BY DEF Takes, compositor
<1>2. /\ Len(toClient) \in Nat \ {0} /\ Len(toClient') = Len(toClient) - 1
      /\ \A k \in 1..Len(toClient') : toClient'[k] = toClient[k + 1]
      /\ Head(toClient) = toClient[1] /\ Offered' = Offered
      /\ \A k \in 1..Len(toClient') :
           /\ toClient'[k].ev = "global" => toClient'[k].with \in Offered'
           /\ toClient'[k].ev = "error" => closing' = "error"
  BY <1>1, TakenFacts
<1>3. ASSUME NEW k \in 1..Len(toClient), GlobalsWithin(k)
      PROVE  GlobalsWithin(k - 1)'
  <2> SUFFICES ASSUME NEW g \in Wanted \cap Offered, g \notin found'
               PROVE  \E j \in 1..(k - 1) :
                        toClient'[j].ev = "global" /\ toClient'[j].with = g
    BY <1>2 DEF GlobalsWithin
  <2>1. PICK j \in 1..k : toClient[j].ev = "global" /\ toClient[j].with = g
    BY <1>3 DEF GlobalsWithin
  <2>2. j # 1
    BY <1>2, <2>1
  <2>3. j - 1 \in 1..(k - 1) /\ j - 1 \in 1..Len(toClient')
    BY <1>2, <2>2
  <2>4. toClient'[j - 1] = toClient[j]
    BY <1>2, <2>3
  <2>. QED
    BY <2>1, <2>3, <2>4
<1>4. CASE NoDone
  <2>1. NoDone'
    BY <1>2, <1>4 DEF NoDone
  <2>2. GlobalsWithin(Len(toClient)) => GlobalsWithin(Len(toClient))'
    BY <1>2, <1>3
  <2>3. toServer = <<>> => \A k \in 1..Len(toClient') : toClient'[k].ev # "done"
    BY <2>1 DEF NoDone
  <2>. QED
    BY <1>1, <1>2, <2>1, <2>2, <2>3 DEF GlobalsInv
<1>5. CASE ~NoDone
  <2>1. /\ toServer = <<>>
        /\ \A k \in 1..Len(toClient) : toClient[k].ev = "done" => GlobalsWithin(k - 1)
    BY <1>1, <1>5 DEF GlobalsInv
  <2>2. ASSUME NEW k \in 1..Len(toClient'), toClient'[k].ev = "done"
        PROVE  GlobalsWithin(k - 1)'
    <3>1. k + 1 \in 1..Len(toClient) /\ toClient[k + 1].ev = "done"
      BY <1>2, <2>2
    <3>2. GlobalsWithin(k) /\ k \in 1..Len(toClient)
      BY <1>2, <2>1, <3>1
    <3>. QED
      BY <1>3, <3>2
  <2>. QED
    BY <1>1, <1>2, <2>1, <2>2 DEF GlobalsInv
<1>. QED
  BY <1>4, <1>5

(* Behind the initial stage only the events themselves matter.             *)
LEMMA LaterTakenKeepsInv ==
  ASSUME TypeOK, GlobalsInv, toClient # <<>>, toClient' = Tail(toClient),
         UNCHANGED compositor, UNCHANGED found, pc' \in {"config", "wait", "closed"}
  PROVE  GlobalsInv'
<1>1. UNCHANGED globals /\ UNCHANGED closing
  BY DEF compositor
<1>. QED
  BY <1>1, TakenFacts DEF GlobalsInv

(* What registers nothing and reserves nothing leaves the pipeline alone.  *)
LEMMA UnregisteredKeepsInv ==
  ASSUME OrderInv, KnownInv, AckInv, UNCHANGED compositor,
         UNCHANGED <<toServer, outbox, nextId, id>>
  PROVE  OrderInv' /\ KnownInv' /\ AckInv'
<1>1. Pipeline' = Pipeline /\ Held' = Held
  BY DEF Pipeline, Held
<1>. QED
  BY <1>1 DEF OrderInv, KnownInv, AckInv, ContentAfterAck, compositor

(* A wanted global is bound.                                               *)
LEMMA BindGlobalKeepsInv ==
  ASSUME IInv, BindGlobal
  PROVE  IInv'
<1> DEFINE iface == Head(toClient).with
           R == <<Request("bind", id["wl_registry"], nextId, iface)>>
<1> USE DEF IInv
<1>1. /\ Takes("initial", "global") /\ pc = "initial" /\ pc' = pc
      /\ toClient # <<>> /\ Head(toClient).ev = "global" /\ toClient' = Tail(toClient)
      /\ iface \in Wanted /\ nextId' = nextId + 1
      /\ id' = [id EXCEPT ![iface] = nextId] /\ found' = found \cup {iface}
      /\ outbox' = Append(outbox, Request("bind", id["wl_registry"], nextId, iface))
      /\ UNCHANGED toServer /\ UNCHANGED compositor
      /\ UNCHANGED globals /\ UNCHANGED closing
  BY DEF BindGlobal, Takes, WantsGlobal, compositor
<1>2. /\ toClient' \in Seq(EventType) /\ Head(toClient) = toClient[1]
      /\ Len(toClient) \in Nat \ {0} /\ iface \in Payloads
  BY <1>1, TakenFacts
<1>3. iface \in Offered
  BY <1>1, <1>2 DEF GlobalsInv
<1> HIDE DEF iface
<1>4. /\ nextId \in Nat \ {0, 1} /\ id \in [Names -> Nat] /\ id["wl_registry"] # 0
      /\ id["wl_registry"] \in Nat /\ iface \in Kept /\ "wl_registry" \in Kept
      /\ id' \in [Names -> Nat] /\ id'[iface] = nextId
      /\ \A n \in Names : n # iface => id'[n] = id[n]
  BY <1>1 DEF TypeOK, StageInv, Kept, Names, Wanted
<1>5. Request("bind", id["wl_registry"], nextId, iface) \in RequestType
  BY <1>2, <1>4 DEF Request, RequestType, Ops
<1>6. /\ R \in Seq(RequestType) /\ Len(R) = 1
      /\ R[1].op = "bind" /\ R[1].obj = id["wl_registry"] /\ R[1].new = nextId
      /\ R[1].with = iface
  BY <1>5 DEF Request
<1>7. Pipeline' = Pipeline \o R /\ outbox' \in Seq(RequestType)
  BY <1>1, <1>5, RegisteredPipeline
<1> HIDE DEF R
<1>8. OrderInv' /\ KnownInv' /\ AckInv'
  <2>0. [id |-> id["wl_registry"], iface |-> "wl_registry"] \in Held
        /\ id["wl_registry"] < nextId
    BY <1>4, HeldFacts DEF KnownInv
  <2>1. InOrder(R, nextId, nextId')
    BY <1>1, <1>4, <1>6 DEF InOrder
  <2>2. AckedBefore(acked, R)
    BY <1>6 DEF AckedBefore
  <2>3. AllKnown(Held, R)
    BY <1>4, <1>6, <2>0 DEF AllKnown, AsksKnown, Avail, Target, Destroys
  <2>4. \A m \in 1..Len(R) : R[m].obj < nextId'
    BY <1>1, <1>4, <1>6, <2>0
  <2>5. ASSUME NEW o \in Held'
        PROVE  o.id < nextId' /\ Avail(Held, R, Len(R) + 1, o.id, o.iface)
    <3>1. CASE o \in Held
      BY <1>1, <1>4, <1>6, <3>1, HeldFacts DEF KnownInv, Avail, Destroys
    <3>2. CASE o \notin Held
      <4>1. o = [id |-> nextId, iface |-> iface]
        BY <1>4, <3>2 DEF Held, Kept
      <4>. QED
        BY <1>1, <1>4, <1>6, <4>1 DEF Avail, Destroys, Made
    <3>. QED
      BY <3>1, <3>2
  <2>6. nextId' \in Nat /\ nextId <= nextId' /\ UNCHANGED compositor
    BY <1>1, <1>4
  <2>. QED
    BY <1>6, <1>7, <2>1, <2>2, <2>3, <2>4, <2>5, <2>6, RegisteringKeepsInv
<1>9. TypeOK'
  BY <1>1, <1>2, <1>4, <1>7 DEF TypeOK, compositor
<1>10. StageInv'
  BY <1>1, <1>4 DEF StageInv, TypeOK, Wanted, Names
<1>11. GlobalsInv'
  BY <1>1, <1>3, GlobalTakenKeepsInv DEF GlobalsInv, iface
<1>. QED
  BY <1>8, <1>9, <1>10, <1>11

(* All globals are found: the binds are sent, and the surface is set up.   *)
LEMMA DoneKeepsInv ==
  ASSUME IInv, Done
  PROVE  IInv'
<1> DEFINE n == nextId
           R == ConfigRequests(n)
<1> USE DEF IInv
<1>1. /\ pc' = "config" /\ toClient # <<>> /\ toClient' = Tail(toClient)
      /\ found = Wanted /\ nextId' = n + 5
      /\ id' = [id EXCEPT !["wl_shm_pool"] = n, !["wl_buffer"] = n + 1,
                         !["wl_surface"] = n + 2, !["xdg_surface"] = n + 3,
                         !["xdg_toplevel"] = n + 4]
      /\ RegisterAndFlush(R)
      /\ UNCHANGED found /\ UNCHANGED compositor
      /\ UNCHANGED globals /\ UNCHANGED closing
  BY DEF Done, Takes, compositor
<1>2. /\ n \in Nat \ {0, 1} /\ id \in [Names -> Nat]
      /\ \A g \in Wanted : id[g] \in Nat \ {0} /\ g \in Kept
      /\ id' \in [Names -> Nat]
      /\ id'["wl_shm_pool"] = n /\ id'["wl_buffer"] = n + 1
      /\ id'["wl_surface"] = n + 2 /\ id'["xdg_surface"] = n + 3
      /\ id'["xdg_toplevel"] = n + 4
      /\ \A m \in Names : m \notin {"wl_shm_pool", "wl_buffer", "wl_surface",
                                 "xdg_surface", "xdg_toplevel"} => id'[m] = id[m]
  <2>1. n \in Nat \ {0, 1} /\ id \in [Names -> Nat]
    BY DEF TypeOK
  <2>2. \A g \in Wanted : id[g] \in Nat \ {0} /\ g \in Kept
    BY <1>1, <2>1 DEF StageInv, Wanted, Kept, Names
  <2>3. {"wl_shm_pool", "wl_buffer", "wl_surface", "xdg_surface", "xdg_toplevel"}
          \subseteq Names
    BY DEF Names
  <2>4. n + 1 \in Nat /\ n + 2 \in Nat /\ n + 3 \in Nat /\ n + 4 \in Nat
    BY <2>1
  <2>. HIDE DEF n
  <2>. QED
    BY <1>1, <2>1, <2>2, <2>3, <2>4
<1>3. /\ R \in Seq(RequestType) /\ Len(R) = 7
      /\ R[1] = Request("create_pool", id["wl_shm"], n, 0)
      /\ R[2] = Request("create_buffer", n, n + 1, 0)
      /\ R[3] = Request("destroy", n, 0, 0)
      /\ R[4] = Request("create_surface", id["wl_compositor"], n + 2, 0)
      /\ R[5] = Request("get_xdg_surface", id["xdg_wm_base"], n + 3, n + 2)
      /\ R[6] = Request("get_toplevel", n + 3, n + 4, 0)
      /\ R[7] = Request("commit", n + 2, 0, 0)
  BY <1>2 DEF ConfigRequests, Request, RequestType, Ops, Payloads, Wanted
<1> HIDE DEF n, R
<1>4. /\ R[1].op = "create_pool" /\ R[1].obj = id["wl_shm"] /\ R[1].new = n
      /\ R[2].op = "create_buffer" /\ R[2].obj = n /\ R[2].new = n + 1
      /\ R[3].op = "destroy" /\ R[3].obj = n /\ R[3].new = 0
      /\ R[4].op = "create_surface" /\ R[4].obj = id["wl_compositor"] /\ R[4].new = n + 2
      /\ R[5].op = "get_xdg_surface" /\ R[5].obj = id["xdg_wm_base"] /\ R[5].new = n + 3
      /\ R[5].with = n + 2
      /\ R[6].op = "get_toplevel" /\ R[6].obj = n + 3 /\ R[6].new = n + 4
      /\ R[7].op = "commit" /\ R[7].obj = n + 2 /\ R[7].new = 0
  BY <1>3 DEF Request
<1>5. /\ Made(R[1]) = "wl_shm_pool" /\ Made(R[2]) = "wl_buffer"
       /\ Made(R[4]) = "wl_surface" /\ Made(R[5]) = "xdg_surface"
       /\ Made(R[6]) = "xdg_toplevel"
  BY <1>4 DEF Made, Creates
<1>6. \A k \in 1..7 : k \in {1, 2, 3, 4, 5, 6, 7}
  OBVIOUS
<1>7. \A k \in 1..7 : R[k].op = "destroy" => k = 3
  BY <1>4, <1>6
<1>8. /\ Pipeline' = Pipeline \o R
      /\ toServer' \in Seq(RequestType) /\ outbox' \in Seq(RequestType)
  BY <1>1, <1>3, FlushedPipeline
<1>9. OrderInv' /\ KnownInv' /\ AckInv'
  <2>1. \A g \in Wanted : [id |-> id[g], iface |-> g] \in Held /\ id[g] < n
    BY <1>2, HeldFacts DEF KnownInv, n
  <2>2. InOrder(R, nextId, nextId')
    <3>1. Len(R) = 7 /\ nextId = n /\ nextId' = n + 5
      BY <1>1, <1>3 DEF n
    <3>2. \A k \in 1..Len(R) : R[k].new # 0 => nextId <= R[k].new /\ R[k].new < nextId'
      BY <1>2, <1>4, <1>6, <3>1
    <3>3. \A j, k \in 1..Len(R) :
            j < k /\ R[j].new # 0 /\ R[k].new # 0 => R[j].new < R[k].new
      BY <1>2, <1>4, <1>6, <3>1
    <3>4. \A i \in nextId..(nextId' - 1) : i \in {n, n + 1, n + 2, n + 3, n + 4}
      BY <1>2, <3>1
    <3>5. \A i \in nextId..(nextId' - 1) : \E k \in 1..Len(R) : R[k].new = i
      BY <1>4, <3>1, <3>4
    <3>. QED
      BY <3>2, <3>3, <3>5 DEF InOrder
  <2>3. AckedBefore(acked, R)
    BY <1>3 DEF AckedBefore, Request
  <2>4. AllKnown(Held, R)
    <3>1. \A k \in 1..7 : R[k].op # "attach"
      BY <1>4, <1>6
    <3>2. ASSUME NEW k \in {1, 4, 5}, NEW g \in Wanted,
                 R[k].obj = id[g], Target(R[k].op) = g
          PROVE  Avail(Held, R, k, R[k].obj, Target(R[k].op))
      BY SMTT(30), <1>2, <1>4, <1>7, <2>1, <3>2 DEF Avail, Destroys
    <3>3. /\ AsksKnown(Held, R, 1) /\ AsksKnown(Held, R, 4)
      <4>1. Target("create_pool") = "wl_shm" /\ Target("create_surface") = "wl_compositor"
        BY DEF Target
      <4>2. /\ R[1].op = "create_pool" /\ R[1].obj = id["wl_shm"]
            /\ R[4].op = "create_surface" /\ R[4].obj = id["wl_compositor"]
        BY <1>4
      <4>3. /\ Avail(Held, R, 1, R[1].obj, Target(R[1].op))
            /\ Avail(Held, R, 4, R[4].obj, Target(R[4].op))
        BY <3>2, <4>1, <4>2 DEF Wanted
      <4>. QED
        BY <4>2, <4>3 DEF AsksKnown
    <3>4. AsksKnown(Held, R, 5)
      <4>1. Avail(Held, R, 5, n + 2, "wl_surface")
        BY <1>2, <1>4, <1>5, <1>7 DEF Avail, Destroys
      <4>. QED
        BY <1>4, <3>1, <3>2, <4>1 DEF AsksKnown, Target, Wanted
    <3>5. Avail(Held, R, 2, n, "wl_shm_pool") /\ Avail(Held, R, 3, n, "wl_shm_pool")
      BY <1>2, <1>4, <1>5, <1>7 DEF Avail, Destroys
    <3>6. /\ Avail(Held, R, 6, n + 3, "xdg_surface")
          /\ Avail(Held, R, 7, n + 2, "wl_surface")
      BY <1>2, <1>4, <1>5, <1>7 DEF Avail, Destroys
    <3>7. /\ AsksKnown(Held, R, 2) /\ AsksKnown(Held, R, 3)
          /\ AsksKnown(Held, R, 6) /\ AsksKnown(Held, R, 7)
      BY <1>4, <3>1, <3>5, <3>6 DEF AsksKnown, Target
    <3>. QED
      BY <1>3, <1>6, <3>3, <3>4, <3>7 DEF AllKnown
  <2>5. \A m \in 1..Len(R) : R[m].obj < nextId'
    <3>1. id["wl_shm"] < n /\ id["wl_compositor"] < n /\ id["xdg_wm_base"] < n
          /\ id["wl_shm"] \in Nat /\ id["wl_compositor"] \in Nat
          /\ id["xdg_wm_base"] \in Nat
      BY <1>2, <2>1 DEF Wanted
    <3>2. /\ R[1].obj < n + 5 /\ R[2].obj < n + 5 /\ R[3].obj < n + 5
          /\ R[4].obj < n + 5 /\ R[5].obj < n + 5 /\ R[6].obj < n + 5
          /\ R[7].obj < n + 5
      BY <1>2, <1>4, <3>1
    <3>. QED
      BY <1>1, <1>3, <1>6, <3>2
  <2>6. ASSUME NEW o \in Held'
        PROVE  o.id < nextId' /\ Avail(Held, R, 8, o.id, o.iface)
    <3>1. CASE o \in Held
      <4>1. o.id \in Nat \ {0} /\ o.id < n /\ o = [id |-> o.id, iface |-> o.iface]
        BY <3>1, HeldFacts DEF KnownInv, n
      <4>2. \A j \in 1..7 : ~Destroys(R[j], o.id)
        BY <1>2, <1>4, <1>7, <4>1 DEF Destroys
      <4>3. Avail(Held, R, 8, o.id, o.iface)
        BY <3>1, <4>1, <4>2 DEF Avail
      <4>. QED
        BY <1>1, <1>2, <4>1, <4>3
    <3>2. CASE o \notin Held
      <4>1. o \in {[id |-> n + 1, iface |-> "wl_buffer"],
                  [id |-> n + 2, iface |-> "wl_surface"],
                  [id |-> n + 3, iface |-> "xdg_surface"],
                  [id |-> n + 4, iface |-> "xdg_toplevel"]}
        BY <1>2, <3>2 DEF Held, Kept
      <4>2. PICK j \in 1..7 : R[j].new = o.id /\ Made(R[j]) = o.iface
        BY <1>4, <1>5, <4>1
      <4>3. o.id \in Nat /\ n < o.id /\ o.id < n + 5
        BY <1>2, <4>1
      <4>4. \A k \in 1..7 : ~Destroys(R[k], o.id)
        BY <1>2, <1>4, <1>7, <4>3 DEF Destroys
      <4>5. Avail(Held, R, 8, o.id, o.iface)
        BY <1>2, <4>2, <4>3, <4>4 DEF Avail
      <4>. QED
        BY <1>1, <4>3, <4>5
    <3>. QED
      BY <3>1, <3>2
  <2>7. Len(R) + 1 = 8
    BY <1>3
  <2>8. nextId' \in Nat /\ nextId <= nextId' /\ UNCHANGED compositor
    BY <1>1, <1>2 DEF n
  <2>. QED
    BY <1>3, <1>8, <2>2, <2>3, <2>4, <2>5, <2>6, <2>7, <2>8, RegisteringKeepsInv
<1>10. TypeOK'
  <2>1. toClient' \in Seq(EventType)
    BY <1>1, TakenFacts
  <2>2. nextId' \in Nat \ {0, 1} /\ UNCHANGED <<nextNew, globals, configures, pings>>
    BY <1>1, <1>2 DEF compositor
  <2>. QED
    BY <1>1, <1>2, <1>8, <2>1, <2>2 DEF TypeOK
<1>11. StageInv'
  <2>1. \A g \in Wanted : id'[g] = id[g]
    BY <1>2 DEF Wanted, Names
  <2>2. \A m \in {"wl_surface", "wl_buffer", "xdg_surface"} : id'[m] # 0
    BY <1>2
  <2>. QED
    BY <1>1, <1>2, <2>1, <2>2 DEF StageInv
<1>12. GlobalsInv'
  BY <1>1, LaterTakenKeepsInv
<1>. QED
  BY <1>9, <1>10, <1>11, <1>12

(* The configure event is acknowledged and the picture committed.          *)
LEMMA ConfigureKeepsInv ==
  ASSUME IInv, Configure
  PROVE  IInv'
<1> DEFINE serial == Head(toClient).with
           R == <<Request("ack_configure", id["xdg_surface"], 0, serial),
                  Request("attach", id["wl_surface"], 0, id["wl_buffer"]),
                  Request("commit", id["wl_surface"], 0, 0)>>
<1> USE DEF IInv
<1>1. /\ pc = "config" /\ pc' = "wait" /\ toClient # <<>>
      /\ toClient' = Tail(toClient) /\ RegisterAndFlush(R)
      /\ UNCHANGED nextId /\ UNCHANGED id /\ UNCHANGED found
      /\ UNCHANGED compositor /\ UNCHANGED globals /\ UNCHANGED closing
  BY DEF Configure, Takes, compositor
<1>2. toClient' \in Seq(EventType) /\ serial \in Payloads
  BY <1>1, TakenFacts
<1>3. \A n \in {"wl_surface", "wl_buffer", "xdg_surface"} :
        n \in Kept /\ id[n] \in Nat \ {0}
  BY <1>1 DEF TypeOK, StageInv, Kept, Names
<1> HIDE DEF serial
<1>4. /\ R \in Seq(RequestType) /\ Len(R) = 3
      /\ R[1] = Request("ack_configure", id["xdg_surface"], 0, serial)
      /\ R[2] = Request("attach", id["wl_surface"], 0, id["wl_buffer"])
      /\ R[3] = Request("commit", id["wl_surface"], 0, 0)
  BY <1>2, <1>3 DEF Request, RequestType, Ops, Payloads
<1> HIDE DEF R
<1>5. /\ Pipeline' = Pipeline \o R
      /\ toServer' \in Seq(RequestType) /\ outbox' \in Seq(RequestType)
  BY <1>1, <1>4, FlushedPipeline
<1>6. OrderInv' /\ KnownInv' /\ AckInv'
  <2>1. \A n \in {"wl_surface", "wl_buffer", "xdg_surface"} :
          [id |-> id[n], iface |-> n] \in Held /\ id[n] < nextId
    BY <1>3, HeldFacts DEF KnownInv
  <2>2. InOrder(R, nextId, nextId')
    BY <1>1, <1>4 DEF InOrder, Request, TypeOK
  <2>3. AckedBefore(acked, R)
    BY <1>4 DEF AckedBefore, Request
  <2>4. AllKnown(Held, R)
    BY <1>3, <1>4, <2>1 DEF AllKnown, AsksKnown, Avail, Target, Destroys, Request
  <2>5. \A m \in 1..Len(R) : R[m].obj < nextId'
    BY <1>1, <1>4, <2>1 DEF Request
  <2>6. ASSUME NEW o \in Held'
        PROVE  o.id < nextId' /\ Avail(Held, R, Len(R) + 1, o.id, o.iface)
    <3>1. o \in Held
      BY <1>1 DEF Held
    <3>. QED
      BY <1>1, <1>4, <3>1, HeldFacts DEF KnownInv, Avail, Destroys, Request
  <2>7. nextId' \in Nat /\ nextId <= nextId'
    BY <1>1 DEF TypeOK
  <2>. QED
    BY <1>1, <1>4, <1>5, <2>2, <2>3, <2>4, <2>5, <2>6, <2>7, RegisteringKeepsInv
<1>7. TypeOK'
  BY <1>1, <1>2, <1>5 DEF TypeOK, compositor
<1>8. StageInv'
  BY <1>1 DEF StageInv
<1>9. GlobalsInv'
  BY <1>1, LaterTakenKeepsInv
<1>. QED
  BY <1>6, <1>7, <1>8, <1>9

(* A ping is answered.                                                     *)
LEMMA PingKeepsInv ==
  ASSUME IInv, NEW stage \in {"config", "wait"}, Ping(stage)
  PROVE  IInv'
<1> DEFINE serial == Head(toClient).with
           r == Request("pong", id["xdg_wm_base"], 0, serial)
           R == <<r>>
<1> USE DEF IInv
<1>1. /\ pc = stage /\ pc' = pc /\ toClient # <<>>
      /\ toClient' = Tail(toClient) /\ outbox' = Append(outbox, r)
      /\ UNCHANGED toServer
      /\ UNCHANGED nextId /\ UNCHANGED id /\ UNCHANGED found
      /\ UNCHANGED compositor /\ UNCHANGED globals /\ UNCHANGED closing
  BY DEF Ping, Takes, compositor
<1>2. toClient' \in Seq(EventType) /\ serial \in Payloads
  BY <1>1, TakenFacts
<1>3. "xdg_wm_base" \in Kept /\ id["xdg_wm_base"] \in Nat \ {0}
  BY <1>1 DEF TypeOK, StageInv, Wanted, Kept, Names
<1> HIDE DEF serial
<1>4. r \in RequestType
  BY <1>2, <1>3 DEF Request, RequestType, Ops
<1>5. /\ R \in Seq(RequestType) /\ Len(R) = 1 /\ R[1] = r
      /\ Pipeline' = Pipeline \o R /\ outbox' \in Seq(RequestType)
  BY <1>1, <1>4, RegisteredPipeline
<1> HIDE DEF R
<1>6. OrderInv' /\ KnownInv' /\ AckInv'
  <2>1. [id |-> id["xdg_wm_base"], iface |-> "xdg_wm_base"] \in Held
        /\ id["xdg_wm_base"] < nextId
    BY <1>3, HeldFacts DEF KnownInv
  <2>2. InOrder(R, nextId, nextId')
    BY <1>1, <1>5 DEF InOrder, Request, TypeOK
  <2>3. AckedBefore(acked, R)
    BY <1>5 DEF AckedBefore, Request
  <2>4. AllKnown(Held, R)
    BY <1>3, <1>5, <2>1 DEF AllKnown, AsksKnown, Avail, Target, Destroys, Request
  <2>5. \A m \in 1..Len(R) : R[m].obj < nextId'
    BY <1>1, <1>5, <2>1 DEF Request
  <2>6. ASSUME NEW o \in Held'
        PROVE  o.id < nextId' /\ Avail(Held, R, Len(R) + 1, o.id, o.iface)
    <3>1. o \in Held
      BY <1>1 DEF Held
    <3>. QED
      BY <1>1, <1>5, <3>1, HeldFacts DEF KnownInv, Avail, Destroys, Request
  <2>7. nextId' \in Nat /\ nextId <= nextId'
    BY <1>1 DEF TypeOK
  <2>. QED
    BY <1>1, <1>5, <2>2, <2>3, <2>4, <2>5, <2>6, <2>7, RegisteringKeepsInv
<1>7. TypeOK'
  BY <1>1, <1>2, <1>5 DEF TypeOK, compositor
<1>8. StageInv'
  BY <1>1 DEF StageInv
<1>9. GlobalsInv'
  BY <1>1, LaterTakenKeepsInv
<1>. QED
  BY <1>6, <1>7, <1>8, <1>9

(* A global that is not wanted, or not any more, is passed over.           *)
LEMMA IgnoreGlobalKeepsInv ==
  ASSUME IInv, IgnoreGlobal
  PROVE  IInv'
<1> USE DEF IInv
<1>1. /\ Takes("initial", "global") /\ ~WantsGlobal(Head(toClient).with)
      /\ toClient # <<>> /\ toClient' = Tail(toClient)
      /\ UNCHANGED pc /\ UNCHANGED found
      /\ UNCHANGED <<toServer, outbox, nextId, id>> /\ UNCHANGED compositor
      /\ UNCHANGED globals /\ UNCHANGED closing
  BY DEF IgnoreGlobal, Takes, client, compositor
<1>2. Head(toClient).with \in Wanted => Head(toClient).with \in found'
  BY <1>1 DEF WantsGlobal
<1>3. TypeOK'
  BY <1>1, TakenFacts DEF TypeOK, compositor
<1>4. StageInv'
  BY <1>1 DEF StageInv
<1>5. GlobalsInv'
  BY <1>1, <1>2, GlobalTakenKeepsInv DEF GlobalsInv
<1>. QED
  BY <1>1, <1>3, <1>4, <1>5, UnregisteredKeepsInv

(* The done event of the sync comes when a global is missing.              *)
LEMMA DoneMissingKeepsInv ==
  ASSUME IInv, DoneMissing
  PROVE  IInv'
<1> USE DEF IInv
<1>1. /\ pc = "initial" /\ pc' = "exited" /\ toClient # <<>>
      /\ Head(toClient).ev = "done" /\ toClient' = Tail(toClient)
      /\ found # Wanted /\ UNCHANGED found
      /\ UNCHANGED <<toServer, outbox, nextId, id>> /\ UNCHANGED compositor
      /\ UNCHANGED globals /\ UNCHANGED closing
  BY DEF DoneMissing, Takes, compositor
<1>2. TypeOK'
  BY <1>1, TakenFacts DEF TypeOK, compositor
<1>3. StageInv'
  BY <1>1 DEF StageInv
<1>4. ~(Wanted \subseteq Offered)
  <2>1. 1 \in 1..Len(toClient) /\ toClient[1].ev = "done"
    BY <1>1, TakenFacts
  <2>2. GlobalsWithin(0)
    BY <1>1, <2>1 DEF GlobalsInv, NoDone
  <2>3. Wanted \cap Offered \subseteq found
    BY <2>2 DEF GlobalsWithin
  <2>. QED
    BY <1>1, <2>3 DEF TypeOK
<1>5. GlobalsInv'
  BY <1>1, <1>4, TakenFacts DEF GlobalsInv
<1>. QED
  BY <1>1, <1>2, <1>3, <1>5, UnregisteredKeepsInv

(* The compositor has sent an error.                                       *)
LEMMA FatalErrorKeepsInv ==
  ASSUME IInv, NEW stage \in {"initial", "config", "wait"}, FatalError(stage)
  PROVE  IInv'
<1> USE DEF IInv
<1>1. /\ pc' = "exited" /\ toClient # <<>>
      /\ Head(toClient).ev = "error" /\ toClient' = Tail(toClient)
      /\ UNCHANGED found
      /\ UNCHANGED <<toServer, outbox, nextId, id>> /\ UNCHANGED compositor
      /\ UNCHANGED globals /\ UNCHANGED closing
  BY DEF FatalError, Takes, compositor
<1>2. TypeOK'
  BY <1>1, TakenFacts DEF TypeOK, compositor
<1>3. StageInv'
  BY <1>1 DEF StageInv
<1>4. closing = "error"
  <2>1. 1 \in 1..Len(toClient) /\ toClient[1].ev = "error"
    BY <1>1, TakenFacts
  <2>. QED
    BY <2>1 DEF GlobalsInv
<1>5. GlobalsInv'
  BY <1>1, <1>4, TakenFacts DEF GlobalsInv
<1>. QED
  BY <1>1, <1>2, <1>3, <1>5, UnregisteredKeepsInv

(* An event without an overload is skipped, and the close ends the wait.   *)
LEMMA OtherTakenKeepsInv ==
  ASSUME IInv, Skip("config", "close") \/ Skip("wait", "configure") \/ Close
  PROVE  IInv'
<1> USE DEF IInv
<1>1. /\ pc \in {"config", "wait"} /\ pc' \in {"config", "wait", "closed"}
      /\ toClient # <<>> /\ toClient' = Tail(toClient)
      /\ UNCHANGED found
      /\ UNCHANGED <<toServer, outbox, nextId, id>> /\ UNCHANGED compositor
      /\ UNCHANGED globals /\ UNCHANGED closing
  BY DEF Skip, Close, Takes, client, compositor
<1>2. TypeOK'
  BY <1>1, TakenFacts DEF TypeOK, compositor
<1>3. StageInv'
  BY <1>1 DEF StageInv
<1>4. GlobalsInv'
  BY <1>1, LaterTakenKeepsInv
<1>. QED
  BY <1>1, <1>2, <1>3, <1>4, UnregisteredKeepsInv

-----------------------------------------------------------------------------
(* Steps of the compositor. *)

(* The compositor takes the head of the pipeline.                          *)
LEMMA HandleFacts ==
  ASSUME TypeOK, Handle
  PROVE  /\ Pipeline \in Seq(RequestType) /\ Pipeline # <<>>
         /\ Head(Pipeline) = Head(toServer) /\ Pipeline' = Tail(Pipeline)
         /\ toServer # <<>> /\ toServer' = Tail(toServer)
         /\ toServer' \in Seq(RequestType) /\ Head(toServer) \in RequestType
         /\ Len(toServer) \in Nat \ {0} /\ Len(toServer') = Len(toServer) - 1
         /\ \A k \in 1..Len(toServer') : toServer'[k] = toServer[k + 1]
         /\ Head(toServer) = toServer[1]
         /\ objects' = After(objects, Head(Pipeline))
         /\ nextNew' = IF Head(Pipeline).new # 0 THEN nextNew + 1 ELSE nextNew
         /\ acked' = (acked \/ Head(Pipeline).op = "ack_configure")
         /\ attached' = (attached \/ Head(Pipeline).op = "attach")
         /\ Held' = Held
<1>1. toServer # <<>> /\ toServer' = Tail(toServer) /\ UNCHANGED client
  BY DEF Handle
<1>2. /\ Pipeline \in Seq(RequestType) /\ Pipeline # <<>>
      /\ Head(Pipeline) = Head(toServer) /\ Pipeline' = Tail(Pipeline)
  BY <1>1, TailConcat, ConcatProperties DEF TypeOK, Pipeline, client
<1>3. /\ toServer' \in Seq(RequestType) /\ Head(toServer) \in RequestType
      /\ Len(toServer) \in Nat \ {0} /\ Len(toServer') = Len(toServer) - 1
      /\ \A k \in 1..Len(toServer') : toServer'[k] = toServer[k + 1]
      /\ Head(toServer) = toServer[1]
  BY <1>1, HeadTailProperties, EmptySeq DEF TypeOK
<1>4. objects' = After(objects, Head(toServer))
  BY DEF Handle, After, Made
<1>5. /\ nextNew' = IF Head(toServer).new # 0 THEN nextNew + 1 ELSE nextNew
      /\ acked' = (acked \/ Head(toServer).op = "ack_configure")
      /\ attached' = (attached \/ Head(toServer).op = "attach")
  BY DEF Handle
<1>6. Held' = Held
  BY <1>1 DEF Held, client
<1>. QED
  BY <1>1, <1>2, <1>3, <1>4, <1>5, <1>6

(* The events that a request is answered with.                             *)
LEMMA AnswerFacts ==
  ASSUME TypeOK, Handle
  PROVE  \E answer \in Seq(EventType) :
           /\ toClient' = toClient \o answer
           /\ CASE Head(toServer).op = "get_registry" ->
                    /\ Len(answer) = Len(globals)
                    /\ \A k \in 1..Len(globals) :
                         answer[k].ev = "global" /\ answer[k].with = globals[k]
                [] Head(toServer).op = "sync" ->
                    Len(answer) = 1 /\ answer[1].ev = "done"
                [] OTHER -> answer = <<>>
<1> DEFINE r == Head(toServer)
           announced == [i \in 1..Len(globals) |-> Event("global", globals[i])]
<1>1. r \in RequestType /\ r.new \in Nat
  BY HandleFacts DEF RequestType
<1>2. globals \in Seq(STRING) /\ Len(globals) \in Nat
  BY GlobalsAssumption, LenProperties DEF TypeOK
<1>3. \A i \in 1..Len(globals) : globals[i] \in STRING
  BY <1>2, ElementOfSeq
<1>4. announced \in Seq(EventType) /\ Len(announced) = Len(globals)
  <2>1. ASSUME NEW i \in 1..Len(globals)
        PROVE  Event("global", globals[i]) \in EventType
    <3>1. globals[i] \in Payloads
      BY <1>3 DEF Payloads
    <3>. QED
      BY <3>1 DEF Event, EventType, EventNames
  <2>2. announced \in [1..Len(globals) -> EventType]
    BY <2>1
  <2>3. announced \in Seq(EventType)
    BY <1>2, <2>2, SeqDef
  <2>. QED
    BY <1>2, <2>2, <2>3, LenProperties
<1>5. CASE r.op = "get_registry"
  <2>1. toClient' = toClient \o announced
    BY <1>5 DEF Handle
  <2>2. \A k \in 1..Len(globals) :
          announced[k].ev = "global" /\ announced[k].with = globals[k]
    BY DEF Event
  <2>. QED
    BY <1>4, <1>5, <2>1, <2>2
<1>6. CASE r.op = "sync"
  <2>1. toClient' = toClient \o <<Event("done", r.new)>>
    BY <1>6 DEF Handle
  <2>2. r.new \in Payloads
    BY <1>1 DEF Payloads
  <2>3. Event("done", r.new) \in EventType /\ Event("done", r.new).ev = "done"
    BY <2>2 DEF Event, EventType, EventNames
  <2>4. /\ <<Event("done", r.new)>> \in Seq(EventType)
        /\ Len(<<Event("done", r.new)>>) = 1
        /\ <<Event("done", r.new)>>[1].ev = "done"
    BY <2>3
  <2>. QED
    BY <1>6, <2>1, <2>4
<1>7. CASE r.op \notin {"get_registry", "sync"}
  <2>1. toClient' = toClient \o <<>>
    BY <1>7 DEF Handle
  <2>. QED
    BY <1>7, <2>1, EmptySeq
<1>. QED
  BY <1>5, <1>6, <1>7

(* A request is handled.                                                   *)
LEMMA HandleKeepsInv ==
  ASSUME IInv, Handle
  PROVE  IInv'
<1> DEFINE r == Head(Pipeline)
<1> USE DEF IInv
<1>0. UNCHANGED client /\ UNCHANGED <<globals, configures, pings, closing>>
  BY DEF Handle
<1>1. /\ Pipeline \in Seq(RequestType) /\ Pipeline # <<>>
      /\ Pipeline' = Tail(Pipeline) /\ r = Head(toServer)
      /\ toServer' \in Seq(RequestType)
      /\ objects' = After(objects, r)
      /\ nextNew' = IF r.new # 0 THEN nextNew + 1 ELSE nextNew
      /\ acked' = (acked \/ r.op = "ack_configure")
      /\ attached' = (attached \/ r.op = "attach")
      /\ Held' = Held
  BY HandleFacts
<1>2. /\ toServer # <<>> /\ Len(toServer) \in Nat \ {0}
      /\ Len(toServer') = Len(toServer) - 1
      /\ \A k \in 1..Len(toServer') : toServer'[k] = toServer[k + 1]
      /\ r = toServer[1]
  BY HandleFacts
<1>3. PICK answer \in Seq(EventType) :
        /\ toClient' = toClient \o answer
        /\ CASE r.op = "get_registry" ->
                 /\ Len(answer) = Len(globals)
                 /\ \A k \in 1..Len(globals) :
                      answer[k].ev = "global" /\ answer[k].with = globals[k]
             [] r.op = "sync" -> Len(answer) = 1 /\ answer[1].ev = "done"
             [] OTHER -> answer = <<>>
  BY <1>1, AnswerFacts
<1> HIDE DEF r
<1>4. /\ UNCHANGED <<pc, outbox, nextId, id, found>>
      /\ UNCHANGED <<globals, configures, pings, closing>>
  BY <1>0 DEF client
<1>5. /\ toClient' \in Seq(EventType)
      /\ Len(toClient) \in Nat /\ Len(answer) \in Nat
      /\ Len(toClient') = Len(toClient) + Len(answer)
      /\ \A k \in 1..Len(toClient) : toClient'[k] = toClient[k]
      /\ \A k \in 1..Len(answer) : toClient'[Len(toClient) + k] = answer[k]
      /\ \A k \in 1..Len(toClient') : k > Len(toClient) =>
           k - Len(toClient) \in 1..Len(answer)
             /\ toClient'[k] = answer[k - Len(toClient)]
  <2> DEFINE p == Len(toClient)
             q == Len(answer)
  <2>1. toClient \in Seq(EventType) /\ p \in Nat /\ q \in Nat
    BY LenProperties DEF TypeOK
  <2>2. /\ toClient' \in Seq(EventType) /\ Len(toClient') = p + q
        /\ \A k \in 1..(p + q) :
             toClient'[k] = IF k <= p THEN toClient[k] ELSE answer[k - p]
    BY <1>3, <2>1, ConcatProperties
  <2>. HIDE DEF p, q
  <2>3. /\ \A k \in 1..p : k \in 1..(p + q) /\ k <= p
        /\ \A k \in 1..q : p + k \in 1..(p + q) /\ ~(p + k <= p) /\ (p + k) - p = k
        /\ \A k \in 1..(p + q) : k > p => ~(k <= p) /\ k - p \in 1..q
    BY <2>1
  <2>4. \A k \in 1..q : toClient'[p + k] = answer[k]
    BY <2>2, <2>3
  <2>. QED
    BY <2>1, <2>2, <2>3, <2>4 DEF p, q
<1>6. TypeOK'
  BY <1>1, <1>4, <1>5 DEF TypeOK
<1>7. OrderInv'
  <2>1. IF r.new # 0
        THEN r.new = nextNew /\ nextNew < nextId
               /\ InOrder(Tail(Pipeline), nextNew + 1, nextId)
        ELSE InOrder(Tail(Pipeline), nextNew, nextId)
    BY <1>1, NewIdType, InOrderTail DEF OrderInv, TypeOK, r
  <2>. QED
    BY <1>1, <1>4, <2>1 DEF OrderInv, TypeOK
<1>8. KnownInv'
  <2>1. /\ Len(Pipeline) \in Nat \ {0} /\ Len(Pipeline') = Len(Pipeline) - 1
        /\ \A k \in 1..Len(Pipeline') : Pipeline'[k] = Pipeline[k + 1]
    BY <1>1, HeadTailProperties, EmptySeq
  <2>2. AllKnown(objects', Pipeline')
    BY <1>1, KnownTail DEF KnownInv, r
  <2>3. \A k \in 1..Len(Pipeline') : Pipeline'[k].obj < nextId'
    BY <1>4, <2>1 DEF KnownInv
  <2>4. ASSUME NEW o \in Held'
        PROVE  o.id < nextId' /\ Avail(objects', Pipeline', Len(Pipeline') + 1, o.id, o.iface)
    <3>1. o.id < nextId /\ Avail(objects, Pipeline, Len(Pipeline) + 1, o.id, o.iface)
      BY <1>1 DEF KnownInv
    <3>2. Len(Pipeline) \in 1..Len(Pipeline) /\ Len(Pipeline') + 1 = Len(Pipeline)
      BY <2>1
    <3>. QED
      BY <1>1, <1>4, <3>1, <3>2, AvailTail DEF r
  <2>. QED
    BY <2>2, <2>3, <2>4 DEF KnownInv
<1>9. StageInv'
  BY <1>4 DEF StageInv
<1>10. AckInv'
  <2>1. /\ AckedBefore(acked \/ r.op = "ack_configure", Tail(Pipeline))
        /\ r.op = "attach" => acked
    BY <1>1, AckTail DEF AckInv, r
  <2>2. AckedBefore(acked', Pipeline')
    BY <1>1, <2>1, Zenon
  <2>3. attached' => acked'
    BY <1>1, <2>1, Zenon DEF AckInv, ContentAfterAck
  <2>. QED
    BY <2>2, <2>3 DEF AckInv, ContentAfterAck
<1>11. GlobalsInv'
  <2>1. Offered' = Offered
    BY <1>4 DEF Offered
  <2>2. \A k \in 1..Len(toClient') :
          /\ toClient'[k].ev = "global" => toClient'[k].with \in Offered'
          /\ toClient'[k].ev = "error" => closing' = "error"
    <3> SUFFICES ASSUME NEW k \in 1..Len(toClient')
                 PROVE  /\ toClient'[k].ev = "global" => toClient'[k].with \in Offered
                        /\ toClient'[k].ev = "error" => closing = "error"
      BY <1>4, <2>1
    <3>1. CASE k <= Len(toClient)
      BY <1>5, <3>1 DEF GlobalsInv
    <3>2. CASE k > Len(toClient)
      <4>1. /\ k - Len(toClient) \in 1..Len(answer)
            /\ toClient'[k] = answer[k - Len(toClient)]
        BY <1>5, <3>2
      <4>2. \A j \in 1..Len(answer) :
              /\ answer[j].ev = "global" => answer[j].with \in Offered
              /\ answer[j].ev # "error"
        BY <1>3, EmptySeq DEF Offered
      <4>. QED
        BY <4>1, <4>2
    <3>. QED
      BY <1>5, <3>1, <3>2
  <2>3. pc # "start"
    BY <1>2 DEF GlobalsInv
  <2>4. ASSUME pc = "initial", NoDone, Len(toServer) = 2,
               toServer[1].op = "get_registry", toServer[2].op = "sync"
        PROVE  GlobalsInv'
    <3>1. /\ Len(answer) = Len(globals)
          /\ \A k \in 1..Len(globals) :
               answer[k].ev = "global" /\ answer[k].with = globals[k]
      BY <1>2, <1>3, <2>4
    <3>2. NoDone'
      <4> SUFFICES ASSUME NEW k \in 1..Len(toClient') PROVE toClient'[k].ev # "done"
        BY DEF NoDone
      <4>1. CASE k <= Len(toClient)
        BY <1>5, <2>4, <4>1 DEF NoDone
      <4>2. CASE k > Len(toClient)
        BY <1>5, <3>1, <4>2
      <4>. QED
        BY <1>5, <4>1, <4>2
    <3>3. GlobalsWithin(Len(toClient))'
      <4> SUFFICES ASSUME NEW g \in Wanted \cap Offered
                   PROVE  \E j \in 1..Len(toClient') :
                            toClient'[j].ev = "global" /\ toClient'[j].with = g
        BY <2>1 DEF GlobalsWithin
      <4>1. PICK i \in 1..Len(globals) : globals[i] = g
        BY DEF Offered
      <4>2. Len(toClient) + i \in 1..Len(toClient')
        BY <1>5, <3>1
      <4>3. toClient'[Len(toClient) + i] = answer[i]
        BY <1>5, <3>1
      <4>. QED
        BY <3>1, <4>1, <4>2, <4>3
    <3>4. Len(toServer') = 1 /\ toServer'[1].op = "sync"
      BY <1>2, <2>4
    <3>. QED
      BY <1>4, <2>1, <2>2, <2>4, <3>2, <3>3, <3>4 DEF GlobalsInv
  <2>5. ASSUME pc = "initial", NoDone, Len(toServer) = 1, toServer[1].op = "sync",
               GlobalsWithin(Len(toClient))
        PROVE  GlobalsInv'
    <3>1. Len(answer) = 1
      BY <1>2, <1>3, <2>5
    <3>2. toServer' = <<>>
      BY <1>1, <1>2, <2>5, EmptySeq
    <3>3. ASSUME NEW k \in 1..Len(toClient'), toClient'[k].ev = "done"
          PROVE  k - 1 = Len(toClient)
      <4>1. k > Len(toClient)
        BY <1>5, <2>5, <3>3 DEF NoDone
      <4>. QED
        BY <1>5, <3>1, <4>1
    <3>4. ASSUME NEW k \in 1..Len(toClient'), toClient'[k].ev = "done"
          PROVE  GlobalsWithin(k - 1)'
      <4>1. k - 1 = Len(toClient)
        BY <3>3, <3>4
      <4>. QED
        BY <1>4, <1>5, <2>1, <2>5, <4>1 DEF GlobalsWithin
    <3>. QED
      BY <1>4, <2>1, <2>2, <2>5, <3>2, <3>4 DEF GlobalsInv
  <2>6. CASE pc # "initial"
    BY <1>4, <2>1, <2>2, <2>3, <2>6 DEF GlobalsInv
  <2>. QED
    BY <1>2, <2>4, <2>5, <2>6 DEF GlobalsInv
<1>. QED
  BY <1>6, <1>7, <1>8, <1>9, <1>10, <1>11

(* The compositor sends an event of its own accord.                        *)
LEMMA SendsKeepsInv ==
  ASSUME IInv, SendConfigure \/ SendPing \/ SendClose \/ SendError
  PROVE  IInv'
<1> USE DEF IInv
<1>1. PICK ev \in {"configure", "ping", "close", "error"}, with \in Nat :
        /\ toClient' = Append(toClient, Event(ev, with))
        /\ ev = "error" => closing' = "error"
        /\ closing = "error" => closing' = "error"
        /\ configures' \in Nat /\ pings' \in Nat
        /\ UNCHANGED <<client, toServer, globals, objects, nextNew, acked, attached,
                      ponged>>
  <2>1. CASE SendConfigure
    BY <2>1 DEF SendConfigure, Sends, TypeOK
  <2>2. CASE SendPing
    BY <2>2 DEF SendPing, Sends, TypeOK
  <2>3. CASE SendClose
    BY <2>3 DEF SendClose, Sends, TypeOK
  <2>4. CASE SendError
    BY <2>4 DEF SendError, Sends, TypeOK
  <2>. QED
    BY <2>1, <2>2, <2>3, <2>4
<1>2. UNCHANGED <<pc, outbox, nextId, id, found, toServer, globals, objects, nextNew,
                  acked, attached>>
  BY <1>1 DEF client
<1>3. Event(ev, with) \in EventType
  BY <1>1 DEF Event, EventType, EventNames, Payloads
<1>4. /\ toClient' \in Seq(EventType) /\ Len(toClient) \in Nat
      /\ Len(toClient') = Len(toClient) + 1
      /\ \A k \in 1..Len(toClient) : toClient'[k] = toClient[k]
      /\ toClient'[Len(toClient) + 1] = Event(ev, with)
  BY <1>1, <1>3, AppendProperties, LenProperties DEF TypeOK
<1>5. TypeOK'
  BY <1>1, <1>2, <1>4 DEF TypeOK
<1>6. Pipeline' = Pipeline /\ Held' = Held /\ Offered' = Offered
  BY <1>2 DEF Pipeline, Held, Offered
<1>7. OrderInv' /\ KnownInv' /\ AckInv' /\ StageInv'
  BY <1>2, <1>6 DEF OrderInv, KnownInv, AckInv, StageInv, ContentAfterAck
<1>8. GlobalsInv'
  <2>1. /\ Event(ev, with).ev \notin {"global", "done"}
        /\ Event(ev, with).ev = "error" => closing' = "error"
    BY <1>1 DEF Event
  <2>2. \A k \in 1..Len(toClient') :
          \/ k \in 1..Len(toClient) /\ toClient'[k] = toClient[k]
          \/ toClient'[k] = Event(ev, with)
    BY <1>4
  <2>3. /\ \A k \in 1..Len(toClient') :
             /\ toClient'[k].ev = "global" => toClient'[k].with \in Offered
             /\ toClient'[k].ev = "error" => closing' = "error"
    BY <1>1, <2>1, <2>2 DEF GlobalsInv
  <2>4. NoDone => NoDone'
    BY <2>1, <2>2 DEF NoDone
  <2>5. ASSUME NEW n \in 0..Len(toClient), NEW m \in n..Len(toClient'), GlobalsWithin(n)
        PROVE  GlobalsWithin(m)'
    <3> SUFFICES ASSUME NEW g \in Wanted \cap Offered, g \notin found
                 PROVE  \E j \in 1..m :
                          toClient'[j].ev = "global" /\ toClient'[j].with = g
      BY <1>2, <1>6 DEF GlobalsWithin
    <3>1. PICK j \in 1..n : toClient[j].ev = "global" /\ toClient[j].with = g
      BY <2>5 DEF GlobalsWithin
    <3>2. j \in 1..m /\ j \in 1..Len(toClient)
      BY <1>4
    <3>. QED
      BY <1>4, <3>1, <3>2
  <2>6. GlobalsWithin(Len(toClient)) => GlobalsWithin(Len(toClient))'
    BY <1>4, <2>5
  <2>7. ASSUME \A k \in 1..Len(toClient) :
                 toClient[k].ev = "done" => GlobalsWithin(k - 1),
               NEW k \in 1..Len(toClient'), toClient'[k].ev = "done"
        PROVE  GlobalsWithin(k - 1)'
    <3>1. k \in 1..Len(toClient) /\ toClient[k].ev = "done"
      BY <2>1, <2>2, <2>7
    <3>2. GlobalsWithin(k - 1) /\ k - 1 \in 0..Len(toClient) /\ k - 1 \in (k - 1)..Len(toClient')
      BY <1>4, <2>7, <3>1
    <3>. QED
      BY <2>5, <3>2
  <2>8. pc = "exited" => ~(Wanted \subseteq Offered) \/ closing' = "error"
    BY <1>1 DEF GlobalsInv
  <2>9. pc = "initial" =>
       \/ /\ Len(toServer) = 2 /\ NoDone'
          /\ toServer[1].op = "get_registry" /\ toServer[2].op = "sync"
       \/ /\ Len(toServer) = 1 /\ toServer[1].op = "sync" /\ NoDone'
          /\ GlobalsWithin(Len(toClient))'
       \/ /\ toServer = <<>>
          /\ \A k \in 1..Len(toClient') :
               toClient'[k].ev = "done" => GlobalsWithin(k - 1)'
    BY <2>4, <2>6, <2>7 DEF GlobalsInv
  <2>10. found \subseteq Offered
         /\ (pc = "start" => toServer = <<>> /\ outbox = <<>> /\ NoDone')
    BY <2>4 DEF GlobalsInv
  <2>. QED
    BY <1>2, <1>6, <2>3, <2>8, <2>9, <2>10 DEF GlobalsInv
<1>. QED
  BY <1>5, <1>7, <1>8

-----------------------------------------------------------------------------
(* Theorems. *)

(* The invariant holds in every state of every behaviour.                  *)
THEOREM Invariance == Spec => []IInv
<1>1. Init => IInv
  <2> SUFFICES ASSUME Init PROVE IInv
    OBVIOUS
  <2>1. toServer = <<>> /\ outbox = <<>> /\ toClient = <<>> /\ Len(toClient) = 0
    BY DEF Init
  <2>2. Pipeline = <<>> /\ Len(Pipeline) = 0
    BY <2>1 DEF Pipeline
  <2>3. TypeOK
    BY <2>1, EmptySeq DEF Init, TypeOK, Display
  <2>4. Held = {[id |-> 1, iface |-> "wl_display"]}
    BY DEF Init, Held, Kept, Display
  <2>5. OrderInv /\ StageInv /\ AckInv /\ GlobalsInv
    BY <2>1, <2>2
    DEF Init, OrderInv, InOrder, StageInv, AckInv, AckedBefore, ContentAfterAck,
        GlobalsInv, NoDone
  <2>6. KnownInv
    BY <2>2, <2>4 DEF Init, KnownInv, AllKnown, Avail, Display
  <2>. QED
    BY <2>3, <2>5, <2>6 DEF IInv
<1>2. IInv /\ [Next]_vars => IInv'
  <2> SUFFICES ASSUME IInv, [Next]_vars PROVE IInv'
    OBVIOUS
  <2>1. CASE Window
    BY <2>1, StartKeepsInv, BindGlobalKeepsInv, IgnoreGlobalKeepsInv,
       DoneMissingKeepsInv, DoneKeepsInv, ConfigureKeepsInv, PingKeepsInv,
       FatalErrorKeepsInv, OtherTakenKeepsInv DEF Window
  <2>2. CASE Handle
    BY <2>2, HandleKeepsInv
  <2>3. CASE SendConfigure \/ SendPing \/ SendClose \/ SendError
    BY <2>3, SendsKeepsInv
  <2>4. CASE UNCHANGED vars
    <3>1. /\ UNCHANGED <<pc, toServer, outbox, toClient, id, nextId, found, globals,
                        objects, nextNew, configures, acked, attached, pings>>
          /\ UNCHANGED closing
      BY <2>4 DEF vars
    <3>2. Pipeline' = Pipeline /\ Held' = Held /\ Offered' = Offered
      BY <3>1 DEF Pipeline, Held, Offered
    <3>3. TypeOK' /\ OrderInv' /\ KnownInv' /\ StageInv' /\ AckInv'
      BY <3>1, <3>2
      DEF IInv, TypeOK, OrderInv, KnownInv, StageInv, AckInv, ContentAfterAck
    <3>4. GlobalsInv'
      <4>1. NoDone' = NoDone /\ \A k : GlobalsWithin(k)' = GlobalsWithin(k)
        BY <3>1, <3>2 DEF NoDone, GlobalsWithin
      <4>. QED
        BY <3>1, <3>2, <4>1 DEF IInv, GlobalsInv
    <3>. QED
      BY <3>3, <3>4 DEF IInv
  <2>. QED
    BY <2>1, <2>2, <2>3, <2>4 DEF Next, Quiet
<1>. QED
  BY <1>1, <1>2, PTL DEF Spec

(* The types of what is kept, reserved and on its way.                     *)
THEOREM TypeCorrect == Spec => []TypeOK
<1>1. IInv => TypeOK
  BY DEF IInv
<1>. QED
  BY <1>1, Invariance, PTL

(* The next request to be handled is the head of the pipeline.             *)
LEMMA NextRequest ==
  ASSUME TypeOK, toServer # <<>>
  PROVE  /\ Pipeline \in Seq(RequestType) /\ Pipeline # <<>>
         /\ 1 \in 1..Len(Pipeline)
         /\ Head(Pipeline) = Head(toServer) /\ Head(toServer) = Pipeline[1]
<1>1. /\ Pipeline \in Seq(RequestType) /\ Pipeline # <<>>
      /\ Head(Pipeline) = Head(toServer)
  BY TailConcat, ConcatProperties DEF TypeOK, Pipeline
<1>. QED
  BY <1>1, EmptySeq, HeadTailProperties

(* New objects reach the compositor with the ids that it expects.          *)
THEOREM IdsInOrder == Spec => []NewIdsInOrder
<1>1. IInv => NewIdsInOrder
  <2> SUFFICES ASSUME IInv, toServer # <<>>, Head(toServer).new # 0
               PROVE  Head(toServer).new = nextNew
    BY DEF NewIdsInOrder
  <2>. QED
    BY NextRequest, NewIdType, InOrderTail DEF IInv, OrderInv, TypeOK
<1>. QED
  BY <1>1, Invariance, PTL

(* No request is about an object that the compositor does not know.        *)
THEOREM ObjectsKnown == Spec => []RequestsOfKnownObjects
<1>1. IInv => RequestsOfKnownObjects
  <2> SUFFICES ASSUME IInv, toServer # <<>> PROVE RequestsOfKnownObjects
    BY DEF RequestsOfKnownObjects
  <2>1. AsksKnown(objects, Pipeline, 1) /\ Head(toServer) = Pipeline[1]
    BY NextRequest DEF IInv, KnownInv, AllKnown
  <2>2. \A i, iface : Avail(objects, Pipeline, 1, i, iface) => Known(i, iface)
    BY DEF Avail, Known
  <2>. QED
    BY <2>1, <2>2 DEF RequestsOfKnownObjects, AsksKnown
<1>. QED
  BY <1>1, Invariance, PTL

(* The picture is attached behind the acknowledgement.                     *)
THEOREM AckFirst == Spec => []ContentAfterAck
<1>1. IInv => ContentAfterAck
  BY DEF IInv, AckInv
<1>. QED
  BY <1>1, Invariance, PTL

(* The window exits for want of a global or after an error, and is set up  *)
(* only with its globals.                                                  *)
THEOREM ExitsOnlyForReason == Spec => []ExitsForReason
<1>1. IInv => ExitsForReason
  BY DEF IInv, StageInv, GlobalsInv, ExitsForReason
<1>. QED
  BY <1>1, Invariance, PTL
=============================================================================
