------------------------ MODULE RegistryListingProofs ------------------------
(***************************************************************************)
(* Proofs about RegistryListing for all values of the environment, all     *)
(* sockets, and any number of globals.  The argument for the listing is    *)
(* about where in the compositor's announcements an event under way        *)
(* stands.                                                                 *)
(***************************************************************************)
EXTENDS RegistryListing, SequenceTheorems, TLAPS

EventNames == {"global", "global_remove", "done", "error"}
EventType == [obj : Nat, ev : EventNames, with : Globals \cup {0}]
RequestType == [op : {"get_registry", "sync"}, obj : {display}, new : Nat \ {0}]

TypeOK ==
  /\ pc \in {"look up", "connect", "ask", "list", "listed", "exited", "thrown"}
  /\ nextId \in Nat \ {0}
  /\ printed \in Seq(Globals) /\ announced \in Seq(Globals) /\ initial \in Seq(Globals)
  /\ toServer \in Seq(RequestType) /\ toClient \in Seq(EventType)
  /\ bound \in Nat /\ synced \in Nat /\ removals \in Nat
  /\ failing \in {"no", "error", "gone"}

(* The path is looked up once, and connected to if it is a path.           *)
SocketInv ==
  /\ pc # "look up" => socket = wayland_socket_path(WAYLAND_DISPLAY, XDG_RUNTIME_DIR)
  /\ pc \in {"ask", "list", "listed", "exited"} => socket \in Sockets

NoDone == \A k \in 1..Len(toClient) : toClient[k].ev # "done"

(* The two requests and what has come of them.                             *)
RequestInv ==
  /\ \/ toServer = <<>>
     \/ /\ Len(toServer) = 2 /\ bound = 0 /\ NoDone
        /\ toServer[1].op = "get_registry" /\ toServer[2].op = "sync"
     \/ Len(toServer) = 1 /\ bound # 0 /\ NoDone /\ toServer[1].op = "sync"
  /\ pc \in {"look up", "connect", "ask"} =>
       bound = 0 /\ toServer = <<>> /\ toClient = <<>> /\ printed = <<>>
  /\ pc = "listed" => toServer = <<>>
  /\ bound = 0 => announced = <<>> /\ NoDone /\ (failing = "no" => toClient = <<>>)
  /\ bound # 0 => Len(initial) <= Len(announced)

(* Before event k of q, f[k] of the globals in all have been announced,    *)
(* and before all of q those that have been printed.                       *)
Positions(f, q, count, all, done) ==
  /\ f \in [1..(Len(q) + 1) -> 0..Len(all)]
  /\ f[1] = count /\ f[Len(q) + 1] = Len(all)
  /\ \A k \in 1..Len(q) :
       /\ q[k].ev = "global" => f[k + 1] = f[k] + 1 /\ q[k].with = all[f[k] + 1]
       /\ q[k].ev # "global" => f[k + 1] = f[k]
       /\ q[k].ev = "done" => f[k] = done

PositionInv ==
  \E f \in [1..(Len(toClient) + 1) -> 0..Len(announced)] :
    Positions(f, toClient, Len(printed), announced, synced)

(* What has been printed, and what done says. *)
ListInv ==
  /\ Len(printed) <= Len(announced)
  /\ \A k \in 1..Len(printed) : printed[k] = announced[k]
  /\ ~NoDone => Len(initial) <= synced
  /\ pc = "listed" => bound # 0 /\ Len(initial) <= synced /\ Len(printed) = synced

IInv == TypeOK /\ SocketInv /\ RequestInv /\ PositionInv /\ ListInv

-----------------------------------------------------------------------------
(* Sequences and positions. *)

LEMMA PrefixFromElements ==
  ASSUME NEW S, NEW s \in Seq(S), NEW t \in Seq(S), Len(s) <= Len(t),
         \A i \in 1..Len(s) : s[i] = t[i]
  PROVE  IsPrefix(s, t)
<1> DEFINE n == Len(s)
<1>1. n \in Nat /\ Len(t) \in Nat
  BY LenProperties
<1>2. \A i \in 1..n : s[i] \in S /\ t[i] \in S
  BY <1>1, ElementOfSeq
<1> HIDE DEF n
<1>3. /\ SubSeq(s, 1, n) \in Seq(S) /\ Len(SubSeq(s, 1, n)) = n
      /\ \A i \in 1..n : SubSeq(s, 1, n)[i] = s[i]
  <2>1. /\ SubSeq(s, 1, n) \in Seq(S)
        /\ Len(SubSeq(s, 1, n)) = IF 1 <= n THEN n - 1 + 1 ELSE 0
        /\ \A i \in 1..(n - 1 + 1) : SubSeq(s, 1, n)[i] = s[1 + i - 1]
    BY <1>1, <1>2, SubSeqProperties
  <2>. QED
    BY <1>1, <2>1
<1>4. /\ SubSeq(t, 1, n) \in Seq(S) /\ Len(SubSeq(t, 1, n)) = n
      /\ \A i \in 1..n : SubSeq(t, 1, n)[i] = t[i]
  <2>1. /\ SubSeq(t, 1, n) \in Seq(S)
        /\ Len(SubSeq(t, 1, n)) = IF 1 <= n THEN n - 1 + 1 ELSE 0
        /\ \A i \in 1..(n - 1 + 1) : SubSeq(t, 1, n)[i] = t[1 + i - 1]
    BY <1>1, <1>2, SubSeqProperties
  <2>. QED
    BY <1>1, <2>1
<1>5. SubSeq(s, 1, n) = SubSeq(t, 1, n)
  <2>1. \A i \in 1..n : SubSeq(s, 1, n)[i] = SubSeq(t, 1, n)[i]
    BY <1>3, <1>4 DEF n
  <2>. QED
    BY <1>3, <1>4, <2>1, SeqEqual
<1>. QED
  BY <1>5 DEF IsPrefix, n

(* When the first event has been taken, one more global has been printed   *)
(* if it was one, and the events behind are where they were.               *)
LEMMA PositionsTail ==
  ASSUME NEW q \in Seq(EventType), q # <<>>, NEW count \in Nat,
         NEW all \in Seq(Globals), NEW done \in Nat,
         NEW f, Positions(f, q, count, all, done)
  PROVE  /\ \E g \in [1..(Len(Tail(q)) + 1) -> 0..Len(all)] :
              Positions(g, Tail(q),
                        IF Head(q).ev = "global" THEN count + 1 ELSE count, all, done)
         /\ Head(q).ev = "global" =>
              count + 1 <= Len(all) /\ Head(q).with = all[count + 1]
         /\ Head(q).ev = "done" => count = done
<1>1. /\ Len(q) \in Nat \ {0} /\ Head(q) = q[1]
      /\ Len(Tail(q)) = Len(q) - 1
      /\ \A k \in 1..Len(Tail(q)) : Tail(q)[k] = q[k + 1]
  BY EmptySeq, HeadTailProperties, LenProperties
<1> DEFINE g == [k \in 1..(Len(Tail(q)) + 1) |-> f[k + 1]]
<1>2. /\ \A k \in 1..(Len(Tail(q)) + 1) : k + 1 \in 1..(Len(q) + 1)
      /\ g \in [1..(Len(Tail(q)) + 1) -> 0..Len(all)]
  BY <1>1 DEF Positions
<1>3. 1 \in 1..Len(q) /\ 1 + 1 \in 1..(Len(q) + 1)
  BY <1>1
<1>4. /\ f[1] = count /\ f[1 + 1] \in 0..Len(all)
      /\ q[1].ev = "global" => f[1 + 1] = count + 1 /\ q[1].with = all[count + 1]
      /\ q[1].ev # "global" => f[1 + 1] = count
      /\ q[1].ev = "done" => count = done
  BY <1>3 DEF Positions
<1>5. /\ 1 \in 1..(Len(Tail(q)) + 1) /\ Len(Tail(q)) + 1 \in 1..(Len(Tail(q)) + 1)
      /\ (Len(Tail(q)) + 1) + 1 = Len(q) + 1
  BY <1>1
<1>6. /\ g[1] = IF q[1].ev = "global" THEN count + 1 ELSE count
      /\ g[Len(Tail(q)) + 1] = Len(all)
  BY <1>4, <1>5 DEF Positions
<1>7. ASSUME NEW k \in 1..Len(Tail(q))
      PROVE  /\ Tail(q)[k].ev = "global" =>
                  g[k + 1] = g[k] + 1 /\ Tail(q)[k].with = all[g[k] + 1]
             /\ Tail(q)[k].ev # "global" => g[k + 1] = g[k]
             /\ Tail(q)[k].ev = "done" => g[k] = done
  <2>1. /\ k + 1 \in 1..Len(q) /\ Tail(q)[k] = q[k + 1]
        /\ k \in 1..(Len(Tail(q)) + 1) /\ k + 1 \in 1..(Len(Tail(q)) + 1)
    BY <1>1
  <2>2. g[k] = f[k + 1] /\ g[k + 1] = f[(k + 1) + 1]
    BY <2>1
  <2>. HIDE DEF g
  <2>. QED
    BY <2>1, <2>2 DEF Positions
<1>8. \E h \in [1..(Len(Tail(q)) + 1) -> 0..Len(all)] :
        Positions(h, Tail(q),
                  IF Head(q).ev = "global" THEN count + 1 ELSE count, all, done)
  <2>. HIDE DEF g
  <2>1. Positions(g, Tail(q),
                  IF Head(q).ev = "global" THEN count + 1 ELSE count, all, done)
    BY <1>1, <1>2, <1>6, <1>7 DEF Positions
  <2>. QED
    BY <1>2, <2>1
<1>. QED
  BY <1>1, <1>4, <1>8, LenProperties

(* An event that is sent stands behind all that has been announced.        *)
LEMMA PositionsAppend ==
  ASSUME NEW q \in Seq(EventType), NEW e \in EventType, NEW count \in Nat,
         NEW all \in Seq(Globals), NEW all2 \in Seq(Globals),
         NEW done, NEW done2,
         \/ e.ev = "global" /\ e.with \in Globals /\ all2 = Append(all, e.with)
         \/ e.ev # "global" /\ all2 = all,
         e.ev = "done" => Len(all) = done2,
         \A k \in 1..Len(q) : q[k].ev = "done" => done2 = done,
         NEW f, Positions(f, q, count, all, done)
  PROVE  \E g \in [1..(Len(q \o <<e>>) + 1) -> 0..Len(all2)] :
           Positions(g, q \o <<e>>, count, all2, done2)
<1> DEFINE N == Len(q)
           r == q \o <<e>>
<1>1. /\ N \in Nat /\ Len(r) = N + 1 /\ r[N + 1] = e
      /\ \A k \in 1..N : r[k] = q[k]
  <2>1. /\ <<e>> \in Seq(EventType) /\ Len(<<e>>) = 1 /\ <<e>>[1] = e
    OBVIOUS
  <2>. QED
    BY <2>1, ConcatProperties, LenProperties
<1>2. /\ Len(all) \in Nat /\ Len(all2) \in Nat /\ Len(all) <= Len(all2)
      /\ e.ev = "global" => Len(all2) = Len(all) + 1 /\ all2[Len(all) + 1] = e.with
      /\ e.ev # "global" => Len(all2) = Len(all)
      /\ \A i \in 1..Len(all) : all2[i] = all[i]
  BY SMTT(30), AppendProperties, LenProperties
<1> DEFINE g == [k \in 1..(N + 2) |-> IF k = N + 2 THEN Len(all2) ELSE f[k]]
<1>3. /\ \A k \in 1..(N + 1) : k \in 1..(N + 2) /\ g[k] = f[k] /\ g[k] \in 0..Len(all)
      /\ N + 2 \in 1..(N + 2) /\ g[N + 2] = Len(all2)
      /\ 1 \in 1..(N + 1) /\ N + 1 \in 1..(N + 1)
      /\ \A k \in 1..N : k \in 1..(N + 1) /\ k + 1 \in 1..(N + 1)
      /\ \A k \in 1..(N + 1) : k \in 1..N \/ k = N + 1
      /\ \A k \in 1..(N + 2) : k \in 1..(N + 1) \/ k = N + 2
      /\ (N + 1) + 1 = N + 2
  <2>1. /\ \A k \in 1..(N + 1) : k \in 1..(N + 2) /\ k # N + 2
        /\ N + 2 \in 1..(N + 2)
        /\ 1 \in 1..(N + 1) /\ N + 1 \in 1..(N + 1)
        /\ \A k \in 1..N : k \in 1..(N + 1) /\ k + 1 \in 1..(N + 1)
        /\ \A k \in 1..(N + 1) : k \in 1..N \/ k = N + 1
        /\ \A k \in 1..(N + 2) : k \in 1..(N + 1) \/ k = N + 2
        /\ (N + 1) + 1 = N + 2
    BY <1>1
  <2>2. \A k \in 1..(N + 1) : f[k] \in 0..Len(all)
    BY DEF Positions
  <2>. HIDE DEF N
  <2>. QED
    BY <2>1, <2>2
<1>4. g \in [1..(N + 2) -> 0..Len(all2)]
  <2>1. \A k \in 1..(N + 2) : g[k] \in 0..Len(all2)
    <3> HIDE DEF g
    <3>. QED
      BY <1>2, <1>3
  <2>. QED
    BY <2>1
<1> HIDE DEF g, N, r
<1>5. f[1] = count /\ f[N + 1] = Len(all)
  BY DEF Positions, N
<1>6. ASSUME NEW k \in 1..(N + 1)
      PROVE  /\ r[k].ev = "global" => g[k + 1] = g[k] + 1 /\ r[k].with = all2[g[k] + 1]
             /\ r[k].ev # "global" => g[k + 1] = g[k]
             /\ r[k].ev = "done" => g[k] = done2
  <2>1. CASE k \in 1..N
    <3>1. /\ r[k] = q[k] /\ g[k] = f[k] /\ g[k + 1] = f[k + 1]
          /\ g[k] \in 0..Len(all) /\ g[k + 1] \in 0..Len(all)
      BY <1>1, <1>3, <2>1
    <3>2. /\ q[k].ev = "global" => f[k + 1] = f[k] + 1 /\ q[k].with = all[f[k] + 1]
          /\ q[k].ev # "global" => f[k + 1] = f[k]
          /\ q[k].ev = "done" => f[k] = done
      BY <2>1 DEF Positions, N
    <3>3. q[k].ev = "global" => all2[f[k] + 1] = all[f[k] + 1]
      <4>1. q[k].ev = "global" => f[k] + 1 \in 1..Len(all)
        BY <1>2, <3>1, <3>2
      <4>. QED
        BY <1>2, <4>1
    <3>4. q[k].ev = "done" => done2 = done
      BY <2>1 DEF N
    <3>. QED
      BY <3>1, <3>2, <3>3, <3>4
  <2>2. CASE k = N + 1
    <3>1. r[k] = e /\ g[k] = Len(all) /\ g[k + 1] = Len(all2)
      BY <1>1, <1>3, <1>5, <2>2
    <3>. QED
      BY <1>2, <3>1
  <2>. QED
    BY <1>3, <2>1, <2>2
<1>7. /\ g[1] = count /\ g[Len(r) + 1] = Len(all2) /\ Len(r) + 1 = N + 2
  BY <1>1, <1>3, <1>5
<1>8. Positions(g, r, count, all2, done2)
  BY <1>1, <1>4, <1>6, <1>7 DEF Positions
<1>. QED
  BY <1>4, <1>7, <1>8 DEF r

(* wayland_socket_path does what its comment says.                         *)
LEMMA SocketPathDocumented ==
  Documented = wayland_socket_path(WAYLAND_DISPLAY, XDG_RUNTIME_DIR)
<1>1. CASE WAYLAND_DISPLAY # Unset /\ IsAbsolute(WAYLAND_DISPLAY)
  BY <1>1 DEF Documented, wayland_socket_path
<1>2. CASE ~(WAYLAND_DISPLAY # Unset /\ IsAbsolute(WAYLAND_DISPLAY)) /\ XDG_RUNTIME_DIR = Unset
  BY <1>2 DEF Documented, wayland_socket_path
<1>3. CASE /\ ~(WAYLAND_DISPLAY # Unset /\ IsAbsolute(WAYLAND_DISPLAY))
           /\ XDG_RUNTIME_DIR # Unset
  BY <1>3 DEF Documented, wayland_socket_path
<1>. QED
  BY <1>1, <1>2, <1>3

-----------------------------------------------------------------------------
(* The steps *)

(* Steps in which nothing is sent or taken.                                *)
LEMMA QuietKeepsInv ==
  ASSUME IInv, LookUp \/ Connect \/ EndOfStream \/ HangUp
  PROVE  IInv'
<1> USE DEF IInv
<1>1. /\ UNCHANGED WAYLAND_DISPLAY /\ UNCHANGED XDG_RUNTIME_DIR /\ UNCHANGED nextId
      /\ UNCHANGED printed /\ UNCHANGED toServer /\ UNCHANGED toClient
      /\ UNCHANGED bound /\ UNCHANGED initial /\ UNCHANGED announced
      /\ UNCHANGED removals /\ UNCHANGED synced
      /\ UNCHANGED failing \/ failing' = "gone"
      /\ \/ pc = "look up" /\ pc' \in {"connect", "thrown"}
         \/ pc = "connect" /\ pc' \in {"ask", "thrown"}
         \/ pc = "list" /\ pc' \in {"list", "thrown"}
  BY DEF LookUp, Connect, EndOfStream, HangUp, environment, compositor, program
<1>2. NoDone' <=> NoDone
  BY <1>1 DEF NoDone
<1>3. TypeOK'
  BY <1>1 DEF TypeOK
<1>4. SocketInv'
  <2>1. CASE LookUp
    BY <2>1 DEF LookUp, environment, SocketInv
  <2>2. CASE Connect
    BY <2>2 DEF Connect, environment, SocketInv
  <2>3. CASE EndOfStream \/ HangUp
    BY <2>3 DEF EndOfStream, HangUp, environment, program, SocketInv
  <2>. QED
    BY <2>1, <2>2, <2>3
<1>5. RequestInv'
  BY <1>1, <1>2 DEF RequestInv
<1>6. PositionInv'
  BY <1>1 DEF PositionInv
<1>7. ListInv'
  BY <1>1, <1>2 DEF ListInv
<1>. QED
  BY <1>3, <1>4, <1>5, <1>6, <1>7

LEMMA AskKeepsInv ==
  ASSUME IInv, Ask
  PROVE  IInv'
<1> USE DEF IInv
<1>1. /\ pc = "ask" /\ pc' = "list" /\ nextId' = nextId + 2
      /\ toServer' = <<Request("get_registry", nextId), Request("sync", nextId + 1)>>
      /\ UNCHANGED WAYLAND_DISPLAY /\ UNCHANGED XDG_RUNTIME_DIR /\ UNCHANGED socket
      /\ UNCHANGED printed /\ UNCHANGED toClient
      /\ UNCHANGED bound /\ UNCHANGED initial /\ UNCHANGED announced
      /\ UNCHANGED removals /\ UNCHANGED synced /\ UNCHANGED failing
  BY DEF Ask, environment, compositor
<1>2. /\ toServer' \in Seq(RequestType) /\ Len(toServer') = 2
      /\ toServer'[1].op = "get_registry" /\ toServer'[2].op = "sync"
      /\ nextId' \in Nat \ {0}
  BY <1>1 DEF TypeOK, Request, RequestType
<1>3. bound = 0 /\ NoDone /\ (NoDone' <=> NoDone)
  BY <1>1 DEF RequestInv, NoDone
<1>4. TypeOK'
  BY <1>1, <1>2 DEF TypeOK
<1>5. SocketInv'
  BY <1>1 DEF SocketInv
<1>6. RequestInv'
  BY <1>1, <1>2, <1>3 DEF RequestInv
<1>7. PositionInv'
  BY <1>1 DEF PositionInv
<1>8. ListInv'
  BY <1>1, <1>3 DEF ListInv
<1>. QED
  BY <1>4, <1>5, <1>6, <1>7, <1>8

(* until visits an event.                                                  *)
LEMMA TakeKeepsInv ==
  ASSUME IInv, PrintGlobal \/ FatalError \/ Skip \/ Done
  PROVE  IInv'
<1> USE DEF IInv
<1> DEFINE e == Head(toClient)
<1>1. /\ pc = "list" /\ toClient # <<>> /\ toClient' = Tail(toClient)
      /\ printed' = IF e.ev = "global" THEN Append(printed, e.with) ELSE printed
      /\ pc' \in {"list", "exited", "listed"} /\ (pc' = "listed" => e.ev = "done")
      /\ UNCHANGED WAYLAND_DISPLAY /\ UNCHANGED XDG_RUNTIME_DIR /\ UNCHANGED socket
      /\ UNCHANGED nextId /\ UNCHANGED toServer
      /\ UNCHANGED bound /\ UNCHANGED initial /\ UNCHANGED announced
      /\ UNCHANGED removals /\ UNCHANGED synced /\ UNCHANGED failing
  <2>1. CASE PrintGlobal
    BY <2>1 DEF PrintGlobal, Takes, environment, compositor
  <2>2. CASE FatalError
    BY <2>2 DEF FatalError, Takes, environment, compositor
  <2>3. CASE Skip
    BY <2>3 DEF Skip, Takes, environment, program, compositor
  <2>4. CASE Done
    BY <2>4 DEF Done, Takes, environment, compositor
  <2>. QED
    BY <2>1, <2>2, <2>3, <2>4
<1>2. /\ 1 \in 1..Len(toClient) /\ e = toClient[1]
      /\ toClient' \in Seq(EventType)
      /\ \A k \in 1..Len(toClient') :
           toClient'[k] = toClient[k + 1] /\ k + 1 \in 1..Len(toClient)
  BY <1>1, EmptySeq, HeadTailProperties, LenProperties DEF TypeOK
<1>3. /\ printed \in Seq(Globals) /\ announced \in Seq(Globals) /\ synced \in Nat
      /\ Len(printed) \in Nat /\ Len(announced) \in Nat
      /\ toClient \in Seq(EventType)
  BY LenProperties DEF TypeOK
<1>4. PICK f : Positions(f, toClient, Len(printed), announced, synced)
  BY DEF PositionInv
<1>5. /\ \E g \in [1..(Len(Tail(toClient)) + 1) -> 0..Len(announced)] :
           Positions(g, Tail(toClient),
                     IF e.ev = "global" THEN Len(printed) + 1 ELSE Len(printed),
                     announced, synced)
      /\ e.ev = "global" =>
           Len(printed) + 1 <= Len(announced) /\ e.with = announced[Len(printed) + 1]
      /\ e.ev = "done" => Len(printed) = synced
  BY <1>1, <1>3, <1>4, PositionsTail
<1>6. NoDone => NoDone'
  BY <1>2 DEF NoDone
<1>7. e.ev = "done" => ~NoDone
  BY <1>2 DEF NoDone
<1> HIDE DEF e
<1>8. /\ printed' \in Seq(Globals)
      /\ Len(printed') = IF e.ev = "global" THEN Len(printed) + 1 ELSE Len(printed)
      /\ \A k \in 1..Len(printed) : printed'[k] = printed[k]
      /\ e.ev = "global" => printed'[Len(printed) + 1] = announced[Len(printed) + 1]
  <2>1. CASE e.ev = "global"
    <3>1. Len(printed) + 1 \in 1..Len(announced)
      BY <1>3, <1>5, <2>1
    <3>2. e.with \in Globals
      BY <1>3, <1>5, <2>1, <3>1, ElementOfSeq
    <3>3. printed' = Append(printed, e.with)
      BY <1>1, <2>1
    <3>. QED
      BY <1>3, <1>5, <2>1, <3>2, <3>3, AppendProperties
  <2>2. CASE e.ev # "global"
    BY <1>1, <1>3, <2>2
  <2>. QED
    BY <2>1, <2>2
<1>9. TypeOK'
  BY <1>1, <1>2, <1>8 DEF TypeOK
<1>10. SocketInv'
  BY <1>1 DEF SocketInv
<1>11. RequestInv'
  <2>1. bound = 0 => failing # "no"
    BY <1>1 DEF RequestInv
  <2>2. pc' = "listed" => toServer = <<>>
    BY <1>1, <1>7 DEF RequestInv
  <2>. QED
    BY <1>1, <1>6, <2>1, <2>2 DEF RequestInv
<1>12. PositionInv'
  BY <1>1, <1>5, <1>8 DEF PositionInv
<1>13. ListInv'
  <2>1. Len(printed') <= Len(announced)
    BY <1>3, <1>5, <1>8 DEF ListInv
  <2>2. \A k \in 1..Len(printed') : printed'[k] = announced[k]
    <3>1. \A k \in 1..Len(printed') :
            k \in 1..Len(printed) \/ (e.ev = "global" /\ k = Len(printed) + 1)
      BY <1>3, <1>8
    <3>. QED
      BY <1>8, <3>1 DEF ListInv
  <2>3. pc' = "listed" =>
          bound # 0 /\ Len(initial) <= synced /\ Len(printed') = synced
    BY <1>1, <1>5, <1>7, <1>8 DEF ListInv, RequestInv
  <2>. QED
    BY <1>1, <1>6, <2>1, <2>2, <2>3 DEF ListInv
<1>. QED
  BY <1>9, <1>10, <1>11, <1>12, <1>13

(* Arithmetic, away from the state.                                        *)
LEMMA OneLess == ASSUME NEW n, n = 2 PROVE n - 1 = 1
OBVIOUS

LEMMA NoneLeft == ASSUME NEW n, n = 1 PROVE n - 1 = 0
OBVIOUS

LEMMA Successor == ASSUME NEW n \in Nat PROVE n + 1 \in Nat
OBVIOUS

(* The request that the compositor handles.                                *)
LEMMA HeadOfQueue ==
  ASSUME TypeOK, toServer # <<>>
  PROVE  /\ 1 \in 1..Len(toServer) /\ Head(toServer) = toServer[1]
         /\ Tail(toServer) \in Seq(RequestType) /\ Len(toServer) \in Nat
         /\ Len(Tail(toServer)) = Len(toServer) - 1
         /\ \A k \in 1..Len(Tail(toServer)) : Tail(toServer)[k] = toServer[k + 1]
         /\ toServer[1] \in RequestType
<1>1. toServer \in Seq(RequestType)
  BY DEF TypeOK
<1>2. 1 \in 1..Len(toServer) /\ Len(toServer) \in Nat /\ Head(toServer) = toServer[1]
  BY <1>1, EmptySeq
<1>3. toServer[1] \in RequestType
  BY <1>1, <1>2, ElementOfSeq
<1>. QED
  BY <1>1, <1>2, <1>3, HeadTailProperties

(* The registry is bound, and the initial globals are announced.           *)
LEMMA GetRegistryKeepsInv ==
  ASSUME IInv, HandleGetRegistry
  PROVE  IInv'
<1> USE DEF IInv
<1> DEFINE b == Head(toServer).new
           G == [n \in 1..Len(initial) |-> Event(b, "global", initial[n])]
<1>1. /\ failing = "no" /\ toServer # <<>> /\ Head(toServer).op = "get_registry"
      /\ toServer' = Tail(toServer) /\ bound' = b /\ announced' = initial
      /\ toClient' = toClient \o G
      /\ UNCHANGED pc /\ UNCHANGED WAYLAND_DISPLAY /\ UNCHANGED XDG_RUNTIME_DIR
      /\ UNCHANGED socket /\ UNCHANGED nextId /\ UNCHANGED printed
      /\ UNCHANGED initial /\ UNCHANGED removals /\ UNCHANGED synced
      /\ UNCHANGED failing
  BY DEF HandleGetRegistry, Sends, program, environment
<1>2. /\ 1 \in 1..Len(toServer) /\ Head(toServer) = toServer[1]
      /\ toServer' \in Seq(RequestType) /\ Len(toServer') = Len(toServer) - 1
      /\ \A k \in 1..Len(toServer') : toServer'[k] = toServer[k + 1]
      /\ toServer[1] \in RequestType /\ Len(toServer) \in Nat
  BY <1>1, HeadOfQueue
<1>3. b \in Nat \ {0}
  BY <1>2 DEF RequestType
<1>4. /\ Len(toServer) = 2 /\ toServer[2].op = "sync" /\ bound = 0
      /\ announced = <<>> /\ toClient = <<>> /\ pc # "listed"
      /\ pc \notin {"look up", "connect", "ask"}
  <2>1. toServer[1].op = "get_registry"
    BY <1>1, <1>2
  <2>2. "get_registry" # "sync"
    OBVIOUS
  <2>. QED
    BY <1>1, <2>1, <2>2 DEF RequestInv
<1>5. Len(initial) \in Nat /\ \A n \in 1..Len(initial) : initial[n] \in Globals
  BY LenProperties, ElementOfSeq DEF TypeOK
<1>6. /\ G \in Seq(EventType) /\ Len(G) = Len(initial)
      /\ \A n \in 1..Len(initial) : G[n].ev = "global" /\ G[n].with = initial[n]
  <2>1. \A n \in 1..Len(initial) : Event(b, "global", initial[n]) \in EventType
    BY <1>3, <1>5 DEF Event, EventType, EventNames
  <2>2. G \in [1..Len(initial) -> EventType]
    BY <2>1
  <2>3. G \in Seq(EventType) /\ Len(G) = Len(initial)
    BY <1>5, <2>2, SeqDef, LenProperties
  <2>. QED
    BY <2>3 DEF Event
<1> HIDE DEF G, b
<1>7. toClient' = G
  BY <1>1, <1>4, <1>6, EmptySeq, ConcatEmptySeq DEF TypeOK
<1>8. NoDone'
  BY <1>6, <1>7 DEF NoDone
<1>9. printed = <<>> /\ Len(printed) = 0
  <2>1. printed \in Seq(Globals) /\ Len(printed) \in Nat
    BY LenProperties DEF TypeOK
  <2>2. Len(printed) <= 0
    BY <1>4 DEF ListInv
  <2>. QED
    BY <2>1, <2>2, EmptySeq
<1>10. TypeOK'
  BY <1>1, <1>2, <1>3, <1>6, <1>7 DEF TypeOK
<1>11. SocketInv'
  BY <1>1 DEF SocketInv
<1>12. RequestInv'
  <2>1. Len(toServer') = 1
    <3>1. Len(toServer) = 2
      BY <1>4
    <3>2. Len(toServer) - 1 = 1
      BY ONLY <3>1, OneLess
    <3>. QED
      BY <1>2, <3>2
  <2>2. toServer'[1] = toServer[2]
    <3>1. 1 \in 1..1 /\ 1 + 1 = 2
      BY ONLY SMT
    <3>2. \A k \in 1..1 : toServer'[k] = toServer[k + 1]
      BY <1>2, <2>1
    <3>3. toServer'[1] = toServer[1 + 1]
      BY <3>1, <3>2
    <3>. QED
      BY ONLY <3>1, <3>3
  <2>3. bound' # 0 /\ Len(initial') <= Len(announced')
    BY <1>1, <1>3, <1>5
  <2>. QED
    BY <1>1, <1>4, <1>8, <2>1, <2>2, <2>3 DEF RequestInv
<1>13. PositionInv'
  <2> DEFINE f == [k \in 1..(Len(G) + 1) |-> k - 1]
  <2>1. f \in [1..(Len(G) + 1) -> 0..Len(initial)]
    BY <1>5, <1>6
  <2>2. f[1] = 0 /\ f[Len(G) + 1] = Len(initial)
    BY <1>5, <1>6
  <2>3. ASSUME NEW k \in 1..Len(G)
        PROVE  G[k].ev = "global" /\ f[k + 1] = f[k] + 1 /\ G[k].with = initial[f[k] + 1]
    <3>1. f[k] = k - 1 /\ f[k + 1] = k /\ k \in 1..Len(initial) /\ (k - 1) + 1 = k
      BY <1>5, <1>6
    <3>. HIDE DEF f
    <3>. QED
      BY <1>5, <1>6, <3>1
  <2>. HIDE DEF f
  <2>4. Positions(f, G, 0, initial, synced)
    BY <2>1, <2>2, <2>3 DEF Positions
  <2>5. \E g \in [1..(Len(G) + 1) -> 0..Len(initial)] : Positions(g, G, 0, initial, synced)
    BY <1>6, <2>1, <2>4
  <2>. QED
    BY <1>1, <1>7, <1>9, <2>5 DEF PositionInv
<1>14. ListInv'
  <2>1. Len(printed') = 0
    BY <1>1, <1>9
  <2>2. \A k \in 1..Len(printed') : FALSE
    BY <2>1
  <2>3. Len(printed') <= Len(announced')
    <3>1. Len(announced') \in Nat
      BY <1>1, <1>5
    <3>. QED
      BY ONLY <2>1, <3>1
  <2>4. pc' # "listed"
    BY <1>1, <1>4
  <2>. QED
    BY <1>8, <2>2, <2>3, <2>4 DEF ListInv
<1>. QED
  BY <1>10, <1>11, <1>12, <1>13, <1>14

(* The compositor sends one event; only a global is announced with it, and *)
(* only done says how many there are.                                      *)
LEMMA OneEventSent ==
  ASSUME TypeOK, PositionInv, ListInv, NEW e \in EventType,
         toClient' = toClient \o <<e>>,
         \/ e.ev = "global" /\ e.with \in Globals /\ announced' = Append(announced, e.with)
         \/ e.ev # "global" /\ UNCHANGED announced,
         \/ e.ev = "done" /\ NoDone /\ synced' = Len(announced)
         \/ e.ev # "done" /\ UNCHANGED synced,
         UNCHANGED printed
  PROVE  /\ toClient' \in Seq(EventType) /\ announced' \in Seq(Globals)
         /\ PositionInv'
         /\ Len(announced) \in Nat /\ Len(announced) <= Len(announced')
         /\ Len(printed) <= Len(announced')
         /\ \A k \in 1..Len(printed) : printed[k] = announced'[k]
         /\ e.ev # "done" => (NoDone' <=> NoDone)
<1>1. /\ toClient \in Seq(EventType) /\ announced \in Seq(Globals)
      /\ printed \in Seq(Globals) /\ Len(printed) \in Nat /\ synced \in Nat
      /\ Len(announced) \in Nat /\ Len(toClient) \in Nat
  BY LenProperties DEF TypeOK
<1>2. /\ announced' \in Seq(Globals) /\ Len(announced) <= Len(announced')
      /\ \A k \in 1..Len(announced) : announced'[k] = announced[k]
  <2>1. CASE e.ev = "global" /\ e.with \in Globals /\ announced' = Append(announced, e.with)
    BY <1>1, <2>1, AppendProperties
  <2>2. CASE UNCHANGED announced
    BY <1>1, <2>2
  <2>. QED
    BY <2>1, <2>2
<1>3. /\ toClient' \in Seq(EventType) /\ Len(toClient') = Len(toClient) + 1
      /\ \A k \in 1..Len(toClient) : toClient'[k] = toClient[k]
      /\ toClient'[Len(toClient) + 1] = e
  <2>1. /\ <<e>> \in Seq(EventType) /\ Len(<<e>>) = 1 /\ <<e>>[1] = e
    OBVIOUS
  <2>. QED
    BY <1>1, <2>1, ConcatProperties
<1>4. PositionInv'
  <2>1. PICK f : Positions(f, toClient, Len(printed), announced, synced)
    BY DEF PositionInv
  <2>2. /\ \/ e.ev = "global" /\ e.with \in Globals
                /\ announced' = Append(announced, e.with)
           \/ e.ev # "global" /\ announced' = announced
        /\ e.ev = "done" => Len(announced) = synced'
        /\ \A k \in 1..Len(toClient) : toClient[k].ev = "done" => synced' = synced
    BY DEF NoDone
  <2>3. \E g \in [1..(Len(toClient \o <<e>>) + 1) -> 0..Len(announced')] :
          Positions(g, toClient \o <<e>>, Len(printed), announced', synced')
    BY <1>1, <1>2, <2>1, <2>2, PositionsAppend
  <2>. QED
    BY <2>3 DEF PositionInv
<1>5. /\ Len(printed) <= Len(announced')
      /\ \A k \in 1..Len(printed) : printed[k] = announced'[k]
  <2>1. Len(printed) <= Len(announced) /\ \A k \in 1..Len(printed) : printed[k] = announced[k]
    BY DEF ListInv
  <2>2. Len(announced') \in Nat
    BY <1>2, LenProperties
  <2>3. \A k \in 1..Len(printed) : k \in 1..Len(announced)
    BY <1>1, <2>1
  <2>. QED
    BY <1>1, <1>2, <2>1, <2>2, <2>3
<1>6. e.ev # "done" => (NoDone' <=> NoDone)
  <2> SUFFICES ASSUME e.ev # "done"
               PROVE  NoDone' <=> NoDone
    OBVIOUS
  <2>1. \A k \in 1..Len(toClient') : k \in 1..Len(toClient) \/ toClient'[k] = e
    BY <1>1, <1>3
  <2>2. \A k \in 1..Len(toClient) : k \in 1..Len(toClient')
    BY <1>1, <1>3
  <2>. QED
    BY <1>3, <2>1, <2>2 DEF NoDone
<1>. QED
  BY <1>1, <1>2, <1>3, <1>4, <1>5, <1>6

LEMMA HandleSyncKeepsInv ==
  ASSUME IInv, HandleSync
  PROVE  IInv'
<1> USE DEF IInv
<1> DEFINE e == Event(Head(toServer).new, "done", 0)
<1>1. /\ toServer # <<>> /\ Head(toServer).op = "sync"
      /\ toServer' = Tail(toServer) /\ synced' = Len(announced)
      /\ toClient' = toClient \o <<e>>
      /\ UNCHANGED pc /\ UNCHANGED WAYLAND_DISPLAY /\ UNCHANGED XDG_RUNTIME_DIR
      /\ UNCHANGED socket /\ UNCHANGED nextId /\ UNCHANGED printed
      /\ UNCHANGED bound /\ UNCHANGED initial /\ UNCHANGED announced
      /\ UNCHANGED removals /\ UNCHANGED failing
  BY DEF HandleSync, Sends, program, environment
<1>2. /\ 1 \in 1..Len(toServer) /\ Head(toServer) = toServer[1]
      /\ toServer' \in Seq(RequestType) /\ Len(toServer') = Len(toServer) - 1
      /\ toServer[1] \in RequestType
  BY <1>1, HeadOfQueue
<1>3. e \in EventType /\ e.ev = "done"
  BY <1>2 DEF Event, EventType, EventNames, RequestType
<1> HIDE DEF e
<1>4. /\ Len(toServer) = 1 /\ bound # 0 /\ NoDone /\ pc # "listed"
      /\ pc \notin {"look up", "connect", "ask"}
  <2>1. toServer[1].op = "sync" /\ "get_registry" # "sync"
    BY <1>1, <1>2
  <2>. QED
    BY <1>1, <2>1 DEF RequestInv
<1>5. toServer' = <<>>
  <2>1. Len(toServer') = 0
    <3>1. Len(toServer) = 1
      BY <1>4
    <3>2. Len(toServer) - 1 = 0
      BY ONLY <3>1, NoneLeft
    <3>. QED
      BY <1>2, <3>2
  <2>. QED
    BY <1>2, <2>1, EmptySeq
<1>6. /\ toClient' \in Seq(EventType) /\ PositionInv' /\ Len(announced) \in Nat
  BY <1>1, <1>3, <1>4, OneEventSent
<1>7. TypeOK'
  BY <1>1, <1>2, <1>6 DEF TypeOK
<1>8. SocketInv'
  BY <1>1 DEF SocketInv
<1>9. RequestInv'
  BY <1>1, <1>4, <1>5 DEF RequestInv
<1>10. ListInv'
  BY <1>1, <1>4 DEF ListInv, RequestInv
<1>. QED
  BY <1>6, <1>7, <1>8, <1>9, <1>10

(* What the compositor sends unasked.                                      *)
LEMMA SendsKeepsInv ==
  ASSUME IInv, (\E g \in Globals : Announce(g)) \/ RemoveGlobal \/ Fail
  PROVE  IInv'
<1> USE DEF IInv
<1>1. PICK e \in EventType :
        /\ e.ev # "done" /\ toClient' = toClient \o <<e>>
        /\ \/ e.ev = "global" /\ e.with \in Globals
                /\ announced' = Append(announced, e.with)
           \/ e.ev # "global" /\ UNCHANGED announced
  <2>1. CASE \E g \in Globals : Announce(g)
    <3>1. PICK g \in Globals : Announce(g)
      BY <2>1
    <3>2. Event(bound, "global", g) \in EventType
      BY DEF Event, EventType, EventNames, TypeOK
    <3>3. Event(bound, "global", g).ev = "global" /\ Event(bound, "global", g).with = g
      BY DEF Event
    <3>. QED
      BY <3>1, <3>2, <3>3 DEF Announce, Sends
  <2>2. CASE RemoveGlobal
    <3>1. /\ Event(bound, "global_remove", 0) \in EventType
          /\ Event(bound, "global_remove", 0).ev = "global_remove"
      BY DEF Event, EventType, EventNames, TypeOK
    <3>. QED
      BY <2>2, <3>1 DEF RemoveGlobal, Sends
  <2>3. CASE Fail
    <3>1. /\ Event(display, "error", 0) \in EventType
          /\ Event(display, "error", 0).ev = "error"
      BY DEF Event, EventType, EventNames, display
    <3>. QED
      BY <2>3, <3>1 DEF Fail, Sends
  <2>. QED
    BY <2>1, <2>2, <2>3
<1>2. /\ UNCHANGED pc /\ UNCHANGED WAYLAND_DISPLAY /\ UNCHANGED XDG_RUNTIME_DIR
      /\ UNCHANGED socket /\ UNCHANGED nextId /\ UNCHANGED printed
      /\ UNCHANGED toServer /\ UNCHANGED bound /\ UNCHANGED initial
      /\ UNCHANGED synced
      /\ removals' \in {removals, removals + 1}
      /\ \/ failing' = failing /\ bound # 0
         \/ failing' = "error" /\ pc = "list" /\ UNCHANGED announced
  BY DEF Announce, RemoveGlobal, Fail, program, environment
<1>3. /\ toClient' \in Seq(EventType) /\ announced' \in Seq(Globals)
      /\ PositionInv'
      /\ Len(announced) \in Nat /\ Len(announced) <= Len(announced')
      /\ Len(printed) <= Len(announced')
      /\ \A k \in 1..Len(printed) : printed[k] = announced'[k]
      /\ NoDone' <=> NoDone
  BY <1>1, <1>2, OneEventSent
<1>4. TypeOK'
  <2>1. removals' \in Nat
    <3>1. removals \in Nat
      BY DEF TypeOK
    <3>2. removals + 1 \in Nat
      BY ONLY <3>1, Successor
    <3>. QED
      BY <1>2, <3>1, <3>2
  <2>2. failing' \in {"no", "error", "gone"}
    BY <1>2 DEF TypeOK
  <2>. QED
    BY <1>2, <1>3, <2>1, <2>2 DEF TypeOK
<1>5. SocketInv'
  BY <1>2 DEF SocketInv
<1>6. RequestInv'
  <2>1. bound # 0 => Len(initial) <= Len(announced')
    <3>1. Len(initial) \in Nat /\ Len(announced') \in Nat
      BY <1>3, LenProperties DEF TypeOK
    <3>2. bound # 0 => Len(initial) <= Len(announced)
      BY DEF RequestInv
    <3>. QED
      BY <1>3, <3>1, <3>2
  <2>. QED
    BY <1>2, <1>3, <2>1 DEF RequestInv
<1>7. ListInv'
  BY <1>2, <1>3 DEF ListInv
<1>. QED
  BY <1>3, <1>4, <1>5, <1>6, <1>7

-----------------------------------------------------------------------------

(* The invariant holds always: before the requests nothing is under way,   *)
(* and behind them done stands behind every global announced by then.      *)
THEOREM Invariance == Spec => []IInv
<1>1. Init => IInv
  <2> SUFFICES ASSUME Init
               PROVE  IInv
    OBVIOUS
  <2>1. initial \in Seq(Globals)
    <3>1. PICK n \in 0..MaxGlobals : initial \in [1..n -> Globals]
      BY DEF Init
    <3>2. n \in Nat
      BY BoundsAssumption
    <3>. QED
      BY <3>1, <3>2, SeqDef
  <2> DEFINE none == <<>>
  <2>2. /\ pc = "look up" /\ nextId = 2 /\ printed = none /\ toServer = none
        /\ toClient = none /\ bound = 0 /\ announced = none /\ removals = 0
        /\ synced = 0 /\ failing = "no"
    BY DEF Init
  <2>3. /\ Len(none) = 0 /\ none = <<>> /\ \A S : none \in Seq(S)
    BY EmptySeq
  <2> HIDE DEF none
  <2>4. TypeOK
    <3>1. 2 \in Nat \ {0} /\ 0 \in Nat
      OBVIOUS
    <3>. QED
      BY <2>2, <2>3, <2>1, <3>1 DEF TypeOK
  <2>5. \A k \in 1..Len(none) : FALSE
    BY <2>3
  <2>6. NoDone
    BY <2>2, <2>5 DEF NoDone
  <2>7. PositionInv
    <3> DEFINE f == [k \in 1..1 |-> 0]
    <3>1. f \in [1..1 -> 0..0] /\ f[1] = 0
      OBVIOUS
    <3>. HIDE DEF f
    <3>2. /\ Len(toClient) = 0 /\ Len(printed) = 0 /\ Len(announced) = 0
          /\ Len(toClient) + 1 = 1
      <4>1. 0 + 1 = 1
        BY ONLY SMT
      <4>. QED
        BY <2>2, <2>3, <4>1
    <3>3. Positions(f, toClient, Len(printed), announced, synced)
      BY <3>1, <3>2 DEF Positions
    <3>. QED
      BY <3>1, <3>2, <3>3 DEF PositionInv
  <2>8. SocketInv /\ RequestInv
    BY <2>2, <2>3, <2>6 DEF SocketInv, RequestInv
  <2>9. ListInv
    <3>1. 0 <= 0
      OBVIOUS
    <3>. QED
      BY <2>2, <2>3, <2>5, <2>6, <3>1 DEF ListInv
  <2>. QED
    BY <2>4, <2>7, <2>8, <2>9 DEF IInv
<1>2. IInv /\ [Next]_vars => IInv'
  <2> SUFFICES ASSUME IInv, [Next]_vars
               PROVE  IInv'
    OBVIOUS
  <2>1. CASE LookUp \/ Connect \/ EndOfStream \/ HangUp
    BY <2>1, QuietKeepsInv
  <2>2. CASE Ask
    BY <2>2, AskKeepsInv
  <2>3. CASE PrintGlobal \/ FatalError \/ Skip \/ Done
    BY <2>3, TakeKeepsInv
  <2>4. CASE HandleGetRegistry
    BY <2>4, GetRegistryKeepsInv
  <2>5. CASE HandleSync
    BY <2>5, HandleSyncKeepsInv
  <2>6. CASE (\E g \in Globals : Announce(g)) \/ RemoveGlobal \/ Fail
    BY <2>6, SendsKeepsInv
  <2>7. CASE Ended \/ UNCHANGED vars
    <3>1. UNCHANGED vars
      BY <2>7 DEF Ended
    <3>. QED
      BY <3>1 DEF vars, IInv, TypeOK, SocketInv, RequestInv, PositionInv, ListInv, NoDone
  <2>. QED
    BY <2>1, <2>2, <2>3, <2>4, <2>5, <2>6, <2>7 DEF Next, Program, Handles
<1>. QED
  BY <1>1, <1>2, PTL DEF Spec

(* Every variable stays within its type, the requests and events on the    *)
(* socket among them.                                                      *)
THEOREM TypeCorrect == Spec => []TypeOK
<1>1. IInv => TypeOK
  BY DEF IInv
<1>. QED
  BY <1>1, Invariance, PTL

(* The program only ever talks to the socket the comment on                *)
(* wayland_socket_path says, whatever the environment is.                  *)
THEOREM SocketDocumented == Spec => []ConnectsAsDocumented
<1>1. IInv => ConnectsAsDocumented
  BY SocketPathDocumented DEF IInv, SocketInv, ConnectsAsDocumented
<1>. QED
  BY <1>1, Invariance, PTL

(* What is printed is a prefix of what was announced, and the program ends *)
(* with "listed" only when it has printed all that the compositor had      *)
(* announced when it handled the sync, for any number of globals.          *)
THEOREM ListingComplete == Spec => []ListsAllGlobals
<1>1. IInv => ListsAllGlobals
  <2> SUFFICES ASSUME IInv
               PROVE  ListsAllGlobals
    OBVIOUS
  <2>1. IsPrefix(printed, announced)
    BY PrefixFromElements DEF IInv, TypeOK, ListInv
  <2>. QED
    BY <2>1 DEF IInv, ListInv, ListsAllGlobals
<1>. QED
  BY <1>1, Invariance, PTL
=============================================================================
