------------------------ MODULE LevinConnectionProofs ------------------------
(***************************************************************************)
(* A connection and the calls over it, for any number of calls of any      *)
(* size, any length of the send queue and any order of the handlers: no    *)
(* connection is lost before it is WASTED, messages stay whole on the      *)
(* wire, and every call is called back at most once, with its own answer.  *)
(***************************************************************************)
EXTENDS LevinConnectionInvariant

----------------------------------------------------------------------------
(* Sending. *)

Sends == {"send", "sender", "consume"}

\* The state of a thread in send changes: it waits, or send returns to it.
SendMoves(t) ==
  \/ /\ pc' \in {[pc EXCEPT ![t] = "sender"], [pc EXCEPT ![t] = "consume"], pc}
     /\ UNCHANGED <<recv, guard, results>>
  \/ SendReturns(t, FALSE)
  \/ SendReturns(t, TRUE) /\ tcp.status = "RUNNING"

LEMMA SendPlaces ==
  ASSUME CallsInv, NEW t \in Threads, pc[t] \in Sends, SendMoves(t)
  PROVE  /\ DOMAIN pc' = Threads /\ \A u \in Threads \ {t} : pc'[u] = pc[u]
         /\ \/ pc'[t] \in Sends /\ UNCHANGED <<recv, guard, results>>
            \/ /\ pc'[t] \in {"sent", "done"} /\ t \in Calls /\ recv' = recv
               /\ pc'[t] = "sent" => tcp.status = "RUNNING" /\ UNCHANGED <<guard, results>>
               /\ pc'[t] = "done" => guard' = guard \ {t} /\ results' = [results EXCEPT ![t] = Append(@, "failed")]
            \/ pc'[t] = "done" /\ t = "reply" /\ recv' \in {"ok", "fail"} /\ UNCHANGED <<guard, results>>
<1>1. DOMAIN pc = Threads /\ (t \in Calls \/ t = "reply")
  BY Zenon DEF CallsInv, Threads
<1>2. ASSUME NEW place, pc' = [pc EXCEPT ![t] = place]
      PROVE  DOMAIN pc' = Threads /\ (\A u \in Threads \ {t} : pc'[u] = pc[u]) /\ pc'[t] = place
  BY <1>1, <1>2
<1>3. CASE /\ pc' \in {[pc EXCEPT ![t] = "sender"], [pc EXCEPT ![t] = "consume"], pc}
           /\ UNCHANGED <<recv, guard, results>>
  <2>1. CASE pc' = pc
    BY <1>1, <1>3, <2>1, Zenon
  <2>2. CASE pc' # pc
    <3>1. PICK place \in {"sender", "consume"} : pc' = [pc EXCEPT ![t] = place]
      BY <1>3, <2>2, Zenon
    <3> QED
      BY <1>2, <1>3, <3>1, Zenon DEF Sends
  <2> QED
    BY <2>1, <2>2, Zenon
<1>4. ASSUME NEW ok \in BOOLEAN, SendReturns(t, ok), ok => tcp.status = "RUNNING"
      PROVE  /\ DOMAIN pc' = Threads /\ \A u \in Threads \ {t} : pc'[u] = pc[u]
             /\ \/ /\ pc'[t] \in {"sent", "done"} /\ t \in Calls /\ recv' = recv
                   /\ pc'[t] = "sent" => tcp.status = "RUNNING" /\ UNCHANGED <<guard, results>>
                   /\ pc'[t] = "done" => guard' = guard \ {t} /\ results' = [results EXCEPT ![t] = Append(@, "failed")]
                \/ pc'[t] = "done" /\ t = "reply" /\ recv' \in {"ok", "fail"} /\ UNCHANGED <<guard, results>>
  <2>1. PICK place : /\ pc' = [pc EXCEPT ![t] = place] /\ place = IF ok /\ t \in Calls THEN "sent" ELSE "done"
    BY <1>4, Zenon DEF SendReturns
  <2>2. DOMAIN pc' = Threads /\ (\A u \in Threads \ {t} : pc'[u] = pc[u]) /\ pc'[t] = place
    BY <1>2, <2>1, Zenon
  <2>3. CASE t \in Calls
    <3>1. t # "reply" /\ recv' = recv
      BY <1>4, <2>3, NotReply, Zenon DEF SendReturns
    <3>2. CASE ok
      BY <1>4, <2>1, <2>2, <2>3, <3>1, <3>2 DEF SendReturns
    <3>3. CASE ~ ok
      <4>1. guard' = guard \ {t} /\ results' = [results EXCEPT ![t] = Append(@, "failed")]
        BY <1>4, <3>1, <3>3, Zenon DEF SendReturns
      <4>2. pc'[t] = "done" /\ "done" # "sent"
        BY <2>1, <2>2, <3>3
      <4> QED
        BY <2>2, <2>3, <3>1, <4>1, <4>2, Zenon
    <3> QED
      BY <3>2, <3>3, Zenon
  <2>4. CASE t = "reply"
    <3>1. t \notin Calls
      BY <2>4, NotReply, Zenon
    <3>2. recv' \in {"ok", "fail"} /\ UNCHANGED <<guard, results>> /\ place = "done"
      BY <1>4, <2>1, <2>4, <3>1 DEF SendReturns
    <3> QED
      BY <2>2, <2>4, <3>2, Zenon
  <2> QED
    BY <1>1, <2>3, <2>4, Zenon
<1>5. CASE SendReturns(t, FALSE)
  BY <1>4, <1>5, Zenon
<1>6. CASE SendReturns(t, TRUE) /\ tcp.status = "RUNNING"
  BY <1>4, <1>6, Zenon
<1> QED
  BY <1>3, <1>5, <1>6, Zenon DEF SendMoves

LEMMA SendCalls ==
  ASSUME CallsInv, NEW t \in Threads, pc[t] \in Sends, SendMoves(t),
         tcp'.status = tcp.status, tcp'.handle_read = tcp.handle_read,
         UNCHANGED <<handlers, proto_released, timer, timer_cancelled, release>>
  PROVE  CallsInv'
<1>1. /\ DOMAIN pc' = Threads /\ \A u \in Threads \ {t} : pc'[u] = pc[u]
      /\ \/ pc'[t] \in Sends /\ UNCHANGED <<recv, guard, results>>
         \/ /\ pc'[t] \in {"sent", "done"} /\ t \in Calls /\ recv' = recv
            /\ pc'[t] = "sent" => tcp.status = "RUNNING" /\ UNCHANGED <<guard, results>>
            /\ pc'[t] = "done" => guard' = guard \ {t} /\ results' = [results EXCEPT ![t] = Append(@, "failed")]
         \/ pc'[t] = "done" /\ t = "reply" /\ recv' \in {"ok", "fail"} /\ UNCHANGED <<guard, results>>
  BY SendPlaces, Zenon
<1>2. RecvInv /\ GuardInv /\ ReleaseInv
  BY Zenon DEF CallsInv
<1>3. CASE t \in Calls
  <2>1. CallInv(t) /\ pc[t] # "done" /\ t # "reply"
    BY <1>3, NotReply DEF CallsInv, Sends
  <2>2. timer[t] = "off" /\ timer_cancelled[t] = "no" /\ results[t] = <<>>
    BY <2>1, Zenon DEF CallInv
  <2>3. recv' = recv /\ DOMAIN results' = Calls /\ (\A d \in Calls \ {t} : results'[d] = results[d])
        /\ (pc'[t] = "done" => results'[t] = <<"failed">>)
        /\ (pc'[t] # "done" => results'[t] = <<>>)
    <3>1. CASE pc'[t] = "done"
      <4>1. results' = [results EXCEPT ![t] = Append(@, "failed")] /\ recv' = recv
        BY <1>1, <2>1, <3>1 DEF Sends
      <4>2. results'[t] = Append(<<>>, "failed") /\ DOMAIN results' = Calls /\ \A d \in Calls \ {t} : results'[d] = results[d]
        BY <1>3, <2>2, <4>1 DEF CallsInv
      <4> QED
        BY <3>1, <4>1, <4>2
    <3>2. CASE pc'[t] # "done"
      <4>1. results' = results /\ recv' = recv
        BY <1>1, <3>2, Zenon
      <4> QED
        BY <2>2, <3>2, <4>1, Zenon DEF CallsInv
    <3> QED
      BY <3>1, <3>2, Zenon
  <2>4. Only(t)
    BY <1>1, <2>3, Zenon DEF Only, CallsInv
  <2>5. CallInv(t)'
    <3>1. pc'[t] \in Holding \cup {"done"}
      BY <1>1 DEF Holding, Sends
    <3>2. timer'[t] = "off" /\ timer_cancelled'[t] = "no" /\ "no" # "late"
      BY <2>2
    <3>3. <<"failed">> # <<>>
      OBVIOUS
    <3> QED
      BY <2>3, <3>1, <3>2, <3>3, Zenon DEF CallInv
  <2>6. Kept(handlers, pc, timer_cancelled)' /\ Kept(release.todo, pc, timer_cancelled)'
    BY <1>3, <2>1, <2>4, KeptOthers, Zenon
  <2>7. RecvInv'
    BY <1>3, <2>3, <2>4, RecvAside, Zenon
  <2>8. GuardInv'
    <3>1. \A d \in Calls : pc[d] \in Holding <=> d = t
      BY <1>2, <1>3 DEF GuardInv, Holding, Sends
    <3>2. guard = {t}
      BY <1>2, <1>3, <3>1, Zenon DEF GuardInv
    <3>3. \A d \in Calls : pc'[d] \in Holding <=> (d = t /\ pc'[t] # "done")
      BY <1>1, <3>1, NotReply DEF Holding, Sends
    <3>4. guard' = IF pc'[t] = "done" THEN {} ELSE {t}
      BY <1>1, <2>1, <3>2 DEF Sends
    <3> QED
      BY <1>3, <3>3, <3>4 DEF GuardInv
  <2>9. ReleaseInv'
    <3>1. proto_released => \A d \in Calls : pc'[d] # "sent"
      <4>1. SUFFICES ASSUME proto_released, NEW d \in Calls PROVE pc'[d] # "sent"
        BY Zenon
      <4>2. tcp.status \notin Open /\ pc[d] # "sent"
        BY <1>2, <4>1, Zenon DEF ReleaseInv
      <4>3. pc'[t] # "sent"
        BY <1>1, <4>2 DEF Sends, Open
      <4> QED
        BY <1>1, <4>2, <4>3, NotReply, Zenon
    <3> QED
      BY <1>2, <3>1, Zenon DEF ReleaseInv
  <2> QED
    BY <1>3, <2>4, <2>5, <2>6, <2>7, <2>8, <2>9, CallsMove, Zenon
<1>4. CASE t = "reply"
  <2>1. t \notin Calls /\ \A c \in Calls : pc'[c] = pc[c]
    BY <1>1, <1>4, NotReply, Zenon
  <2>2. RecvInv' /\ UNCHANGED <<guard, results>>
    BY <1>1, <1>2, <1>4, <2>1 DEF RecvInv, Sends
  <2> QED
    BY <1>1, <2>1, <2>2, CallsAside, Zenon DEF calls
<1> QED
  BY <1>3, <1>4, Zenon DEF Threads

\* Nothing is queued.
LEMMA MatchAside ==
  ASSUME MatchInv, CallsInv, tcp'.queue = tcp.queue, tcp'.status = tcp.status,
         UNCHANGED <<inbox, peer, torn, handlers, proto_released, timer_cancelled>>,
         \A c \in Calls : pc[c] = "sent" <=> pc'[c] = "sent"
  PROVE  MatchInv'
<1>1. SentAlone(pc)
  BY OneSends, Zenon DEF CallsInv
<1>2. WaitingAt(pc', handlers) = WaitingAt(pc, handlers)
  BY <1>1, WaitingSame, Zenon
<1>3. Answers' = Answers /\ Waiting' = Waiting /\ (Late' <=> Late)
  BY <1>2, Zenon DEF Answers, Waiting, Late
<1> QED
  BY <1>3, Zenon DEF MatchInv

\* What send changes of the connection without queueing anything: who waits.
Idles(s, r) ==
  /\ Core(r) /\ Watched(r) /\ r.queue = s.queue /\ r.status = s.status
  /\ r.handle_read = s.handle_read /\ r.wait_release = s.wait_release

LEMMA OnlyWaits ==
  ASSUME NEW s, Core(s), Watched(s), NEW w \in BOOLEAN, s.status = "TERMINATED" => w = s.wait_consume, NEW a
  PROVE  /\ Idles(s, [s EXCEPT !.asleep = a]) /\ [s EXCEPT !.asleep = a].wait_consume = s.wait_consume
         /\ Idles(s, [s EXCEPT !.wait_consume = w])
         /\ Idles(s, [s EXCEPT !.wait_consume = w, !.asleep = a])
<1>1. ASSUME NEW d, DOMAIN d = Fields, d.wait_consume \in {s.wait_consume, w},
             d.status = s.status, d.queue = s.queue, d.wait_callback = s.wait_callback,
             d.handle_read = s.handle_read, d.wait_release = s.wait_release,
             d.wait_init = s.wait_init, d.wait = s.wait, d.cancel = s.cancel, d.reset = s.reset
      PROVE  Idles(s, d)
  <2>1. Core(d)
    BY <1>1 DEF Core
  <2>2. Watched(d)
    BY <1>1 DEF Watched, Closing, Busy
  <2> QED
    BY <1>1, <2>1, <2>2, Zenon DEF Idles
<1>2. Idles(s, [s EXCEPT !.asleep = a]) /\ [s EXCEPT !.asleep = a].wait_consume = s.wait_consume
  <2> DEFINE d == [s EXCEPT !.asleep = a]
  <2>1. /\ DOMAIN d = Fields /\ d.wait_consume = s.wait_consume /\ d.status = s.status /\ d.queue = s.queue
        /\ d.wait_callback = s.wait_callback /\ d.handle_read = s.handle_read /\ d.wait_release = s.wait_release
        /\ d.wait_init = s.wait_init /\ d.wait = s.wait /\ d.cancel = s.cancel /\ d.reset = s.reset
    BY DEF Core, Fields
  <2> HIDE DEF d
  <2>2. Idles(s, d)
    BY <1>1, <2>1, Zenon
  <2> QED
    BY <2>1, <2>2, Zenon DEF d
<1>3. Idles(s, [s EXCEPT !.wait_consume = w])
  <2> DEFINE d == [s EXCEPT !.wait_consume = w]
  <2>1. /\ DOMAIN d = Fields /\ d.wait_consume = w /\ d.status = s.status /\ d.queue = s.queue
        /\ d.wait_callback = s.wait_callback /\ d.handle_read = s.handle_read /\ d.wait_release = s.wait_release
        /\ d.wait_init = s.wait_init /\ d.wait = s.wait /\ d.cancel = s.cancel /\ d.reset = s.reset
    BY DEF Core, Fields
  <2> HIDE DEF d
  <2>2. Idles(s, d)
    BY <1>1, <2>1, Zenon
  <2> QED
    BY <2>2, Zenon DEF d
<1>4. Idles(s, [s EXCEPT !.wait_consume = w, !.asleep = a])
  <2> DEFINE d == [s EXCEPT !.wait_consume = w, !.asleep = a]
  <2>1. /\ DOMAIN d = Fields /\ d.wait_consume = w /\ d.status = s.status /\ d.queue = s.queue
        /\ d.wait_callback = s.wait_callback /\ d.handle_read = s.handle_read /\ d.wait_release = s.wait_release
        /\ d.wait_init = s.wait_init /\ d.wait = s.wait /\ d.cancel = s.cancel /\ d.reset = s.reset
    BY DEF Core, Fields
  <2> HIDE DEF d
  <2>2. Idles(s, d)
    BY <1>1, <2>1, Zenon
  <2> QED
    BY <2>2, Zenon DEF d
<1> QED
  BY <1>2, <1>3, <1>4, Zenon

\* send does not queue anything: it fails or has to wait.
LEMMA SendIdles ==
  ASSUME IInv, NEW t \in Threads, pc[t] \in Sends, SendMoves(t),
         pc' = pc \/ pc'[t] = "done" \/ (pc'[t] = "sender" /\ pc[t] # "consume"),
         Idles(tcp, tcp'), left' = left, SendUnchanged, drop' \in {drop, "posted"},
         \/ drop' # "no"
         \/ tcp.status \notin Open
         \/ tcp'.wait_consume = tcp.wait_consume /\ (pc' = pc \/ pc[t] # "consume")
  PROVE  IInv'
<1>1. UNCHANGED <<handlers, proto_released, timer, timer_cancelled, release, net>>
  BY Zenon DEF SendUnchanged
<1>2. CallsInv /\ TcpInv /\ ChunkInv /\ MatchInv
  BY Zenon DEF IInv
<1>3. CallsInv'
  BY <1>1, <1>2, SendCalls, Zenon DEF Idles
<1>4. TcpInv'
  BY <1>1, <1>2, Zenon DEF TcpInv, Idles
<1>5. \A u \in Threads \ {t} : pc'[u] = pc[u]
  BY <1>2, SendPlaces, Zenon
<1>6. \A c \in Calls : pc[c] = "sent" <=> pc'[c] = "sent"
  <2>1. pc[t] # "sent" /\ (pc' = pc \/ pc'[t] # "sent")
    BY DEF Sends
  <2> QED
    BY <1>5, <2>1, NotReply, Zenon
<1>7. MatchInv'
  BY <1>1, <1>2, <1>6, MatchAside, Zenon DEF Idles, net
<1>8. LeftInv'
  <2>1. pc'[t] \in Sends \cup {"done"} /\ (pc'[t] \in {"send", "sender"} => pc[t] \in {"send", "sender"})
    BY DEF Sends
  <2>2. LeftInv
    BY <1>2, Zenon DEF ChunkInv
  <2>3. left[t] \in 1 .. Size(t) /\ (pc'[t] \in {"send", "sender"} => left[t] = Size(t))
    BY <2>1, <2>2, Zenon DEF LeftInv, Sends
  <2>4. \A u \in Threads : pc'[u] \in {"send", "sender", "consume"} => left'[u] \in 1 .. Size(u)
    BY <1>5, <2>2, <2>3, Zenon DEF LeftInv
  <2>5. \A u \in Threads : pc'[u] \in {"send", "sender"} => left'[u] = Size(u)
    BY <1>5, <2>2, <2>3, Zenon DEF LeftInv
  <2>6. pc'[t] \notin {"idle", "found"}
    BY <2>1 DEF Sends
  <2>7. \A c \in Calls : pc'[c] \in {"idle", "found"} => left'[c] = Size(c)
    BY <1>5, <2>2, <2>6, NotReply, Zenon DEF LeftInv
  <2> QED
    BY <2>2, <2>4, <2>5, <2>7, Zenon DEF LeftInv
<1>9. ChunkInv'
  <2>1. UNCHANGED <<wire, torn>> /\ wire \in Threads \X Nat /\ torn \in BOOLEAN /\ drop' \in {"no", "posted", "done"}
    BY <1>1, <1>2, Zenon DEF net, ChunkInv
  <2>2. torn' => drop' # "no"
    BY <1>1, <1>2 DEF net, ChunkInv, ChunksTogether
  <2>3. CASE drop' # "no" \/ tcp.status \notin Open
    BY <1>8, <2>1, <2>2, <2>3 DEF ChunkInv, ChunksTogether, Idles
  <2>4. CASE ~ (drop' # "no" \/ tcp.status \notin Open)
    <3>1. Moves(tcp, tcp')
      <4>1. tcp'.wait_consume = tcp.wait_consume
        BY <2>4, Zenon
      <4> QED
        BY <4>1, Zenon DEF Idles, Moves
    <3>2. SameWaits(pc, left, pc', left')
      <4>1. pc' = pc \/ (pc[t] # "consume" /\ pc'[t] # "consume")
        BY <2>4
      <4> QED
        BY <1>5, <4>1, Zenon DEF SameWaits
    <3>3. drop' = drop
      BY <2>4
    <3> QED
      BY <1>2, <1>8, <2>1, <3>1, <3>2, <3>3, ChunkKept, Zenon DEF TcpInv
  <2> QED
    BY <2>3, <2>4, Zenon
<1> QED
  BY <1>3, <1>4, <1>7, <1>9, Zenon DEF IInv

LEMMA MinIs ==
  ASSUME NEW a \in Int, NEW b \in Int
  PROVE  Min({a, b}) = IF a <= b THEN a ELSE b
  BY DEF Min

LEMMA MaxIs ==
  ASSUME NEW a \in Int, NEW b \in Int
  PROVE  Max({a, b}) = IF a >= b THEN a ELSE b
  BY DEF Max

LEMMA RoomIs ==
  ASSUME NEW s, s.queue \in Seq(Threads \X Nat)
  PROVE  Room(s) \in Nat
<1>1. 0 \in Int /\ QueueMax + 1 - Len(s.queue) \in Int
  BY ConnectionAssumption
<1>2. Room(s) = IF 0 >= QueueMax + 1 - Len(s.queue) THEN 0 ELSE QueueMax + 1 - Len(s.queue)
  BY <1>1, MaxIs, Zenon DEF Room
<1> QED
  BY <1>1, <1>2

\* An index behind the first m of m + n.
LEMMA Beyond ==
  ASSUME NEW m \in Nat, NEW n \in Nat, NEW j \in 1 .. m + n, j \notin 1 .. m
  PROVE  /\ j - m \in 1 .. n /\ j = m + (j - m)
         /\ j # m + n => j - m \in 1 .. n - 1
  OBVIOUS

\* An index of a sequence of n + 1, the first l left out.
LEMMA OneMore ==
  ASSUME NEW l \in Nat, NEW n \in Nat, NEW i \in l + 1 .. n + 1
  PROVE  i = n + 1 \/ (i \in l + 1 .. n /\ i \in 1 .. n)
  OBVIOUS

\* An index before the n-th.
LEMMA Earlier ==
  ASSUME NEW m \in Nat, NEW n \in Nat, NEW i \in 1 .. m - 1, i < n
  PROVE  i \in 1 .. n - 1 /\ i \in 1 .. n /\ i + 1 \in 1 .. n
  OBVIOUS

\* The chunks s are queued after the chunks q.
LEMMA AppendOrder ==
  ASSUME NEW w, NEW q \in Seq(Threads \X Nat), NEW s \in Seq(Threads \X Nat), InOrder(w, q),
         Len(s) > 0 => Follows(End(w, q), s[1]),
         \A i \in 1 .. Len(s) - 1 : Follows(s[i], s[i + 1])
  PROVE  InOrder(w, q \o s) /\ End(w, q \o s) = IF Len(s) = 0 THEN End(w, q) ELSE s[Len(s)]
<1> DEFINE r == q \o s
<1>1. /\ Len(q) \in Nat /\ Len(s) \in Nat /\ Len(r) = Len(q) + Len(s)
      /\ \A i \in 1 .. Len(q) : r[i] = q[i]
      /\ \A i \in 1 .. Len(s) : r[Len(q) + i] = s[i]
  OBVIOUS
<1>0. Len(q) \in Nat /\ Len(s) \in Nat /\ Len(r) = Len(q) + Len(s)
  BY <1>1, Zenon
<1> HIDE DEF r
<1>2. ASSUME Len(r) > 0 PROVE Follows(w, r[1])
  <2>1. CASE Len(q) = 0
    <3>1. End(w, q) = w /\ r[1] = s[1] /\ Len(s) > 0
      BY <1>1, <1>2, <2>1 DEF End
    <3> QED
      BY <3>1, Zenon
  <2>2. CASE Len(q) # 0
    <3>1. r[1] = q[1] /\ Len(q) > 0
      BY <1>1, <2>2
    <3> QED
      BY <3>1, Zenon DEF InOrder
  <2> QED
    BY <2>1, <2>2, Zenon
<1>3. ASSUME NEW i \in 1 .. Len(r) - 1 PROVE Follows(r[i], r[i + 1])
  <2>1. CASE i < Len(q)
    <3>1. i \in 1 .. Len(q) - 1 /\ i \in 1 .. Len(q) /\ i + 1 \in 1 .. Len(q)
      <4>1. Len(r) \in Nat
        BY <1>0
      <4> QED
        BY <1>0, <2>1, <4>1, Earlier, Zenon
    <3>2. r[i] = q[i] /\ r[i + 1] = q[i + 1]
      BY <1>1, <3>1, Zenon
    <3> QED
      BY <3>1, <3>2, Zenon DEF InOrder
  <2>2. CASE i = Len(q)
    <3>1. Len(s) > 0 /\ 1 \in 1 .. Len(s) /\ i \in 1 .. Len(q) /\ Len(q) # 0
      BY <1>1, <2>2
    <3>2. r[i] = End(w, q) /\ r[i + 1] = s[1]
      BY <1>1, <2>2, <3>1, Zenon DEF End
    <3> QED
      BY <3>1, <3>2, Zenon
  <2>3. CASE i > Len(q)
    <3>1. PICK j \in 1 .. Len(s) - 1 : i = Len(q) + j
      <4>1. i - Len(q) \in 1 .. Len(s) - 1 /\ i = Len(q) + (i - Len(q))
        BY <1>0, <2>3
      <4> QED
        BY <4>1, Zenon
    <3>2. j \in 1 .. Len(s) /\ j + 1 \in 1 .. Len(s) /\ i + 1 = Len(q) + (j + 1)
      BY <1>0, <3>1
    <3>3. r[i] = s[j] /\ r[i + 1] = s[j + 1]
      BY <1>1, <3>1, <3>2, Zenon
    <3> QED
      BY <3>3, Zenon
  <2> QED
    BY <1>0, <2>1, <2>2, <2>3
<1>4. End(w, r) = IF Len(s) = 0 THEN End(w, q) ELSE s[Len(s)]
  <2>1. CASE Len(s) = 0
    <3>1. Len(r) = Len(q) /\ (Len(q) # 0 => Len(q) \in 1 .. Len(q))
      BY <1>0, <2>1
    <3> QED
      BY <1>1, <2>1, <3>1, Zenon DEF End
  <2>2. CASE Len(s) # 0
    <3>1. Len(r) # 0 /\ Len(s) \in 1 .. Len(s)
      BY <1>0, <2>2
    <3>2. r[Len(r)] = s[Len(s)]
      BY <1>1, <3>1, Zenon
    <3> QED
      BY <2>2, <3>1, <3>2, Zenon DEF End
  <2> QED
    BY <2>1, <2>2, Zenon
<1> QED
  BY <1>2, <1>3, <1>4, Zenon DEF InOrder, r

\* No last chunk of a call is among them.
LEMMA OtherQueued ==
  ASSUME NEW a, Len(a) \in Nat, NEW w, Len(w) \in Nat, \A i \in 1 .. Len(w) : w[i] \in Calls,
         NEW q \in Seq(Threads \X Nat), Queued(a, w, q),
         NEW s \in Seq(Threads \X Nat), \A j \in 1 .. Len(s) : \A c \in Calls : s[j] # LastChunk(c)
  PROVE  Queued(a, w, q \o s)
<1> DEFINE r == q \o s
<1>1. /\ Len(q) \in Nat /\ Len(s) \in Nat /\ Len(r) = Len(q) + Len(s)
      /\ \A i \in 1 .. Len(q) : r[i] = q[i]
      /\ \A i \in 1 .. Len(s) : r[Len(q) + i] = s[i]
  OBVIOUS
<1>0. Len(q) \in Nat /\ Len(s) \in Nat /\ Len(r) = Len(q) + Len(s)
  BY <1>1, Zenon
<1> HIDE DEF r
<1>2. \A i \in Len(a) + 1 .. Len(w) : w[i] \in Calls
  OBVIOUS
<1>3. ASSUME NEW j \in 1 .. Len(r), NEW c \in Calls, r[j] = LastChunk(c)
      PROVE  j \in 1 .. Len(q) /\ q[j] = LastChunk(c)
  <2>1. CASE j \in 1 .. Len(q)
    BY <1>1, <1>3, <2>1, Zenon
  <2>2. CASE j \notin 1 .. Len(q)
    <3>1. j - Len(q) \in 1 .. Len(s) /\ j = Len(q) + (j - Len(q))
      BY <1>0, <2>2, Beyond, Zenon
    <3>2. r[j] = s[j - Len(q)]
      BY <1>1, <3>1, Zenon
    <3> QED
      BY <1>3, <3>1, <3>2, Zenon
  <2> QED
    BY <2>1, <2>2, Zenon
<1>4. ASSUME NEW j \in 1 .. Len(q) PROVE j \in 1 .. Len(r) /\ r[j] = q[j]
  BY <1>0, <1>1
<1>5. EachQueued(a, w, r)
  <2>1. ASSUME NEW i \in Len(a) + 1 .. Len(w) PROVE \E j \in 1 .. Len(r) : r[j] = LastChunk(w[i])
    <3>1. PICK j \in 1 .. Len(q) : q[j] = LastChunk(w[i])
      BY Zenon DEF Queued, EachQueued
    <3> QED
      BY <1>4, <3>1, Zenon
  <2> QED
    BY <2>1, Zenon DEF EachQueued
<1>6. NoOther(a, w, r)
  <2>1. ASSUME NEW j \in 1 .. Len(r), NEW c \in Calls, r[j] = LastChunk(c)
        PROVE  \E i \in Len(a) + 1 .. Len(w) : w[i] = c
    <3>1. j \in 1 .. Len(q) /\ q[j] = LastChunk(c)
      BY <1>3, <2>1, Zenon
    <3> QED
      BY <3>1, Zenon DEF Queued, NoOther
  <2> QED
    BY <2>1, Zenon DEF NoOther
<1>7. SameOrder(a, w, r)
  <2>1. ASSUME NEW i \in Len(a) + 1 .. Len(w), NEW m \in Len(a) + 1 .. Len(w), i <= m,
               NEW j \in 1 .. Len(r), NEW l \in 1 .. Len(r), r[j] = LastChunk(w[i]), r[l] = LastChunk(w[m])
        PROVE  j <= l
    <3>1. j \in 1 .. Len(q) /\ q[j] = LastChunk(w[i]) /\ l \in 1 .. Len(q) /\ q[l] = LastChunk(w[m])
      BY <1>2, <1>3, <2>1, Zenon
    <3> QED
      BY <2>1, <3>1, Zenon DEF Queued, SameOrder
  <2> QED
    BY <2>1, Zenon DEF SameOrder
<1> QED
  BY <1>5, <1>6, <1>7, Zenon DEF Queued, r

\* They end with the last chunk of the call c, which waits now.
LEMMA LastQueued ==
  ASSUME NEW a \in Seq(Calls), NEW w \in Seq(Calls), NEW q \in Seq(Threads \X Nat), Agree(a, w), Queued(a, w, q),
         NEW c \in Calls, \A i \in 1 .. Len(w) : w[i] # c,
         NEW s \in Seq(Threads \X Nat), Len(s) > 0, s[Len(s)] = LastChunk(c),
         \A j \in 1 .. Len(s) - 1 : \A d \in Calls : s[j] # LastChunk(d)
  PROVE  Agree(a, Append(w, c)) /\ Queued(a, Append(w, c), q \o s)
<1> DEFINE r == q \o s
           v == Append(w, c)
           n == Len(w) + 1
           e == Len(q) + Len(s)
<1>1. /\ Len(q) \in Nat /\ Len(s) \in Nat /\ Len(r) = Len(q) + Len(s)
      /\ \A i \in 1 .. Len(q) : r[i] = q[i]
      /\ \A i \in 1 .. Len(s) : r[Len(q) + i] = s[i]
  OBVIOUS
<1>2. Len(a) \in Nat /\ Len(w) \in Nat /\ Len(v) = n /\ v[n] = c /\ \A i \in 1 .. Len(w) : v[i] = w[i] /\ w[i] \in Calls
  OBVIOUS
<1>0. Len(q) \in Nat /\ Len(s) \in Nat /\ Len(r) = Len(q) + Len(s) /\ Len(s) > 0
      /\ Len(a) \in Nat /\ Len(w) \in Nat /\ Len(v) = Len(w) + 1
  BY <1>1, <1>2, Zenon
<1>3. e \in 1 .. Len(r) /\ r[e] = LastChunk(c) /\ Len(r) = e
  <2> HIDE DEF r
  <2>1. Len(s) \in 1 .. Len(s) /\ e \in 1 .. Len(r)
    BY <1>0
  <2> QED
    BY <1>1, <2>1, Zenon
<1> HIDE DEF r, v
<1>4. Agree(a, v)
  <2>1. ASSUME NEW i \in 1 .. Len(a) PROVE a[i] = v[i]
    <3>1. i \in 1 .. Len(w)
      BY <1>2 DEF Agree
    <3> QED
      BY <1>2, <3>1, Zenon DEF Agree
  <2>2. Len(a) <= Len(v)
    BY <1>2 DEF Agree
  <2> QED
    BY <2>1, <2>2, Zenon DEF Agree
<1>5. ASSUME NEW i \in Len(a) + 1 .. Len(v)
      PROVE  (i = n /\ v[i] = c) \/ (i \in Len(a) + 1 .. Len(w) /\ v[i] = w[i] /\ w[i] # c /\ w[i] \in Calls)
  <2>1. i = n \/ (i \in Len(a) + 1 .. Len(w) /\ i \in 1 .. Len(w))
    BY <1>0, OneMore, Zenon
  <2> QED
    BY <1>2, <2>1, Zenon
<1>6. n \in Len(a) + 1 .. Len(v) /\ \A i \in Len(a) + 1 .. Len(w) : i \in Len(a) + 1 .. Len(v) /\ v[i] = w[i]
  BY <1>2 DEF Agree
<1>7. ASSUME NEW d, NEW x, x = LastChunk(d), x = LastChunk(c) PROVE d = c
  BY <1>7 DEF LastChunk
<1>8. ASSUME NEW j \in 1 .. Len(q), q[j] = LastChunk(c) PROVE FALSE
  <2>1. PICK i \in Len(a) + 1 .. Len(w) : w[i] = c
    BY <1>8, Zenon DEF Queued, NoOther
  <2>2. i \in 1 .. Len(w)
    BY <1>2
  <2> QED
    BY <2>1, <2>2, Zenon
<1>9. ASSUME NEW j \in 1 .. Len(r), NEW d \in Calls, r[j] = LastChunk(d)
      PROVE  (j = e /\ d = c) \/ (j \in 1 .. Len(q) /\ q[j] = LastChunk(d) /\ d # c)
  <2>1. CASE j \in 1 .. Len(q)
    BY <1>1, <1>8, <1>9, <2>1, Zenon
  <2>2. CASE j = e
    BY <1>3, <1>7, <1>9, <2>2, Zenon
  <2>3. CASE j \notin 1 .. Len(q) /\ j # e
    <3>1. j - Len(q) \in 1 .. Len(s) - 1 /\ j = Len(q) + (j - Len(q)) /\ j - Len(q) \in 1 .. Len(s)
      BY <1>0, <2>3, Beyond, Zenon
    <3>2. r[j] = s[j - Len(q)]
      BY <1>1, <3>1, Zenon
    <3> QED
      BY <1>9, <3>1, <3>2, Zenon
  <2> QED
    BY <2>1, <2>2, <2>3, Zenon
<1>10. ASSUME NEW j \in 1 .. Len(q) PROVE j \in 1 .. Len(r) /\ r[j] = q[j] /\ j <= e
  BY <1>1
<1>11. e <= e /\ e \in Nat
  BY <1>1
<1> HIDE DEF e, n
<1>12. EachQueued(a, v, r)
  <2>1. ASSUME NEW i \in Len(a) + 1 .. Len(v) PROVE \E j \in 1 .. Len(r) : r[j] = LastChunk(v[i])
    <3>1. CASE i = n /\ v[i] = c
      BY <1>3, <3>1, Zenon
    <3>2. CASE i \in Len(a) + 1 .. Len(w) /\ v[i] = w[i]
      <4>1. PICK j \in 1 .. Len(q) : q[j] = LastChunk(w[i])
        BY <3>2, Zenon DEF Queued, EachQueued
      <4> QED
        BY <1>10, <3>2, <4>1, Zenon
    <3> QED
      BY <1>5, <3>1, <3>2, Zenon
  <2> QED
    BY <2>1, Zenon DEF EachQueued
<1>13. NoOther(a, v, r)
  <2>1. ASSUME NEW j \in 1 .. Len(r), NEW d \in Calls, r[j] = LastChunk(d)
        PROVE  \E i \in Len(a) + 1 .. Len(v) : v[i] = d
    <3>1. CASE d = c
      BY <1>2, <1>6, <3>1, Zenon
    <3>2. CASE j \in 1 .. Len(q) /\ q[j] = LastChunk(d)
      <4>1. PICK i \in Len(a) + 1 .. Len(w) : w[i] = d
        BY <3>2, Zenon DEF Queued, NoOther
      <4> QED
        BY <1>6, <4>1, Zenon
    <3> QED
      BY <1>9, <2>1, <3>1, <3>2, Zenon
  <2> QED
    BY <2>1, Zenon DEF NoOther
<1>14. SameOrder(a, v, r)
  <2>1. ASSUME NEW i \in Len(a) + 1 .. Len(v), NEW m \in Len(a) + 1 .. Len(v), i <= m,
               NEW j \in 1 .. Len(r), NEW l \in 1 .. Len(r), r[j] = LastChunk(v[i]), r[l] = LastChunk(v[m])
        PROVE  j <= l
    <3>1. v[i] \in Calls /\ v[m] \in Calls
      BY <1>5, Zenon
    <3>2. CASE v[m] = c
      <4>1. l = e
        BY <1>9, <2>1, <3>1, <3>2, Zenon
      <4> QED
        BY <1>3, <1>11, <4>1
    <3>3. CASE v[m] # c
      <4>1. m \in Len(a) + 1 .. Len(w) /\ v[m] = w[m]
        BY <1>5, <3>3, Zenon
      <4>2. i \in Len(a) + 1 .. Len(w) /\ v[i] = w[i] /\ w[i] # c
        <5>1. i # n
          BY <1>2, <2>1, <4>1 DEF n
        <5> QED
          BY <1>5, <5>1, Zenon
      <4>3. j \in 1 .. Len(q) /\ q[j] = LastChunk(w[i]) /\ l \in 1 .. Len(q) /\ q[l] = LastChunk(w[m])
        BY <1>9, <2>1, <3>1, <3>3, <4>1, <4>2, Zenon
      <4> QED
        BY <2>1, <4>1, <4>2, <4>3, Zenon DEF Queued, SameOrder
    <3> QED
      BY <3>2, <3>3, Zenon
  <2> QED
    BY <2>1, Zenon DEF SameOrder
<1> QED
  BY <1>4, <1>12, <1>13, <1>14, Zenon DEF Queued, r, v

\* The chunks of one sender that are queued at once, and what follows them.
NewChunks(t, first, k) == [i \in 1 .. k |-> <<t, first + i>>]

LEMMA NewChunksAre ==
  ASSUME NEW t \in Threads, NEW first \in Nat, NEW k \in Nat
  PROVE  LET c == NewChunks(t, first, k)
         IN c \in Seq(Threads \X Nat) /\ Len(c) = k /\ \A i \in 1 .. k : c[i] = <<t, first + i>>
  BY DEF NewChunks

LEMMA SizeIs ==
  ASSUME NEW t \in Threads
  PROVE  Size(t) \in Nat /\ Size(t) >= 1
  BY ConnectionAssumption DEF Size

\* A chunk of a message that is not whole yet is followed by the next.
LEMMA NextChunk ==
  ASSUME NEW t \in Threads, NEW n \in Nat, n < Size(t)
  PROVE  Follows(<<t, n>>, <<t, n + 1>>)
  BY DEF Follows

FillFacts(n, m, first, k) ==
  /\ k \in Nat /\ m \in Nat /\ k <= m /\ ~ (n < n)
  /\ first + k = n - (m - k) /\ m - k = n - (first + k) /\ (first + k < n <=> k < m)
  /\ \A i \in 1 .. k - 1 : /\ i \in 1 .. k /\ i + 1 \in 1 .. k /\ first + (i + 1) = (first + i) + 1
                           /\ first + i \in Nat /\ first + i < n
  /\ \A x \in Nat : m = n - x => x = first
  /\ IF m < n THEN first < n ELSE first = 0
  /\ IF k = 0 THEN k < m /\ m - k = m ELSE 1 \in 1 .. k /\ k \in 1 .. k

LEMMA FillCounts ==
  ASSUME NEW n \in Nat, NEW m \in 1 .. n, NEW first \in Nat, first = n - m, NEW k \in 0 .. m
  PROVE  FillFacts(n, m, first, k)
  BY DEF FillFacts

Ordered(w, q, p, l, waits) == InOrder(w, q) /\ Goes(End(w, q), p, l, waits)

\* Thread t queues its chunks first + 1 .. first + k.
Fills(t, first, k, p, l, waits, p2, l2) ==
  /\ l[t] \in 1 .. Size(t) /\ (p[t] # "consume" => ~ waits /\ l[t] = Size(t))
  /\ first = Size(t) - l[t] /\ k \in 0 .. l[t] /\ (p[t] = "consume" => k # 0)
  /\ \A u \in Threads \ {t} : p2[u] = p[u]
  /\ l2[t] = l[t] - k /\ (p2[t] = "consume" <=> k < l[t])

LEMMA FillOrder ==
  ASSUME NEW w \in Threads \X Nat, NEW q \in Seq(Threads \X Nat), NEW p, NEW l, NEW waits,
         Ordered(w, q, p, l, waits), NEW t \in Threads, NEW first \in Nat, NEW k, NEW p2, NEW l2,
         Fills(t, first, k, p, l, waits, p2, l2)
  PROVE  Ordered(w, q \o NewChunks(t, first, k), p2, l2, k < l[t])
<1> InOrder(w, q) /\ Goes(End(w, q), p, l, waits)
  BY Zenon DEF Ordered
<1> /\ l[t] \in 1 .. Size(t) /\ (p[t] # "consume" => ~ waits /\ l[t] = Size(t))
    /\ first = Size(t) - l[t] /\ k \in 0 .. l[t] /\ (p[t] = "consume" => k # 0)
    /\ \A u \in Threads \ {t} : p2[u] = p[u]
    /\ l2[t] = l[t] - k /\ (p2[t] = "consume" <=> k < l[t])
  BY Zenon DEF Fills
<1> DEFINE x == End(w, q)
           c == NewChunks(t, first, k)
           r == q \o c
<1>1. x \in Threads \X Nat /\ x = <<x[1], x[2]>> /\ x[1] \in Threads /\ x[2] \in Nat
  BY EndIs, Zenon
<1>3. FillFacts(Size(t), l[t], first, k) /\ k \in Nat
  <2>1. FillFacts(Size(t), l[t], first, k)
    BY SizeIs, FillCounts, Zenon
  <2> QED
    BY <2>1, Zenon DEF FillFacts
<1>2. c \in Seq(Threads \X Nat) /\ Len(c) = k /\ \A i \in 1 .. k : c[i] = <<t, first + i>>
  BY <1>3, NewChunksAre, Zenon
<1> HIDE DEF x, c
<1>4. \A u \in Threads : p[u] = "consume" => u = t
  BY Zenon DEF Goes
<1>5. x[2] < Size(x[1]) => p[x[1]] = "consume" /\ l[x[1]] = Size(x[1]) - x[2]
  BY Zenon DEF Goes, x
<1>6. x[2] < Size(x[1]) => x[1] = t /\ p[t] = "consume" /\ x[2] = first
  <2>1. x[2] < Size(x[1]) => x[1] = t /\ p[t] = "consume" /\ l[t] = Size(t) - x[2]
    BY <1>1, <1>4, <1>5, Zenon
  <2> QED
    BY <1>1, <1>3, <2>1, Zenon DEF FillFacts
<1>7. l[t] < Size(t) => p[t] = "consume" /\ x = <<t, first>>
  <2>1. l[t] < Size(t) => p[t] = "consume"
    BY <1>3, Zenon DEF FillFacts
  <2>2. p[t] = "consume" /\ l[t] < Size(t) => x = <<t, Size(t) - l[t]>>
    BY Zenon DEF Goes, x
  <2> QED
    BY <2>1, <2>2, Zenon
<1>8. Follows(x, <<t, first + 1>>)
  <2>1. CASE x[2] < Size(x[1])
    <3>1. x = <<t, first>> /\ first < Size(t)
      BY <1>1, <1>6, <2>1, Zenon
    <3> QED
      BY <3>1, NextChunk, Zenon
  <2>2. CASE ~ (x[2] < Size(x[1]))
    <3>1. ASSUME l[t] < Size(t) PROVE FALSE
      <4>1. x[1] = t /\ x[2] = first
        BY <1>7, <3>1
      <4> QED
        BY <1>3, <2>2, <3>1, <4>1, Zenon DEF FillFacts
    <3>2. first = 0
      BY <1>3, <3>1, Zenon DEF FillFacts
    <3> QED
      BY <2>2, <3>2 DEF Follows
  <2> QED
    BY <2>1, <2>2, Zenon
<1>9. ASSUME k # 0 PROVE Follows(x, c[1])
  BY <1>2, <1>3, <1>8, <1>9, Zenon DEF FillFacts
<1>10. ASSUME NEW i \in 1 .. k - 1 PROVE Follows(c[i], c[i + 1])
  <2>1. /\ i \in 1 .. k /\ i + 1 \in 1 .. k /\ first + (i + 1) = (first + i) + 1
        /\ first + i \in Nat /\ first + i < Size(t)
    BY <1>3, Zenon DEF FillFacts
  <2>2. c[i] = <<t, first + i>> /\ c[i + 1] = <<t, (first + i) + 1>>
    BY <1>2, <2>1, Zenon
  <2> QED
    BY <2>1, <2>2, NextChunk, Zenon
<1>11. InOrder(w, r) /\ End(w, r) = IF k = 0 THEN x ELSE c[k]
  <2>1. Len(c) > 0 => Follows(End(w, q), c[1])
    BY <1>2, <1>9 DEF x
  <2>2. \A i \in 1 .. Len(c) - 1 : Follows(c[i], c[i + 1])
    BY <1>2, <1>10, Zenon
  <2>3. InOrder(w, r) /\ End(w, r) = IF Len(c) = 0 THEN End(w, q) ELSE c[Len(c)]
    BY <1>2, <2>1, <2>2, AppendOrder, Zenon
  <2> QED
    BY <1>2, <2>3, Zenon DEF x
<1> HIDE DEF r
<1>12. CASE k = 0
  <2>1. End(w, r) = x /\ p[t] # "consume" /\ p2[t] = "consume" /\ l2[t] = Size(t) /\ k < l[t]
    BY <1>3, <1>11, <1>12, Zenon DEF FillFacts
  <2>2. ~ (x[2] < Size(x[1]))
    BY <1>6, <2>1, Zenon
  <2>3. ~ (l2[t] < Size(t))
    BY <1>3, <2>1, Zenon DEF FillFacts
  <2>4. \A u \in Threads : p2[u] = "consume" => u = t
    BY <1>4, Zenon
  <2>5. Goes(x, p2, l2, k < l[t])
    BY <2>1, <2>2, <2>3, <2>4, Zenon DEF Goes
  <2> QED
    BY <1>11, <2>1, <2>5, Zenon DEF r, c, Ordered
<1>13. CASE k # 0
  <2> DEFINE y == <<t, first + k>>
  <2>1. End(w, r) = y
    BY <1>2, <1>3, <1>11, <1>13, Zenon DEF FillFacts
  <2>2. y[1] = t /\ y[2] = first + k
    OBVIOUS
  <2> HIDE DEF y
  <2>3. \A u \in Threads : p2[u] = "consume" => u = t
    BY <1>4, Zenon
  <2>4. y[2] < Size(y[1]) => k < l[t]
    BY <1>3, <2>2, Zenon DEF FillFacts
  <2>5. first + k = Size(t) - l2[t] /\ l2[t] = Size(t) - y[2]
    BY <1>3, <2>2, Zenon DEF FillFacts
  <2>6. y = <<t, Size(t) - l2[t]>>
    BY <2>5, Zenon DEF y
  <2>7. Goes(y, p2, l2, k < l[t])
    BY <2>2, <2>3, <2>4, <2>5, <2>6, Zenon DEF Goes
  <2> QED
    BY <1>11, <2>1, <2>7, Zenon DEF r, c, Ordered
<1> QED
  BY <1>12, <1>13, Zenon

\* The connection with the chunks c queued.
Put(s, c, b) == [s EXCEPT !.queue = @ \o c, !.wait_consume = b]

Filled(s, c, b, r) ==
  /\ Core(r) /\ Watched(r) /\ r.status = "RUNNING" /\ r.queue = s.queue \o c /\ r.wait_consume = b
  /\ r.handle_read = s.handle_read

LEMMA QueuedTcp ==
  ASSUME NEW s, Core(s), Watched(s), s.status = "RUNNING", NEW c \in Seq(Threads \X Nat), NEW b,
         NEW d, d = Put(s, c, b)
  PROVE  Filled(s, c, b, d)
<1>1. /\ DOMAIN d = Fields /\ d.status = s.status /\ d.queue = s.queue \o c /\ d.wait_callback = s.wait_callback
      /\ d.handle_read = s.handle_read /\ d.wait_release = s.wait_release /\ d.wait_consume = b
      /\ d.wait_init = s.wait_init /\ d.wait = s.wait /\ d.cancel = s.cancel /\ d.reset = s.reset
  BY DEF Core, Fields, Put
<1>2. s.queue \o c \in Seq(Threads \X Nat) /\ (s.queue # <<>> => s.queue \o c # <<>>)
  <2>1. s.queue \in Seq(Threads \X Nat)
    BY Zenon DEF Core
  <2> QED
    BY <2>1
<1>3. Core(d)
  BY <1>1, <1>2 DEF Core
<1>4. Watched(d)
  BY <1>1 DEF Watched, Closing
<1> QED
  BY <1>1, <1>3, <1>4, Zenon DEF Filled

\* What Fill makes of the connection: the chunks c are queued and written, and senders wait or wake.
Fed(s, c, b, r) ==
  \E w, a : (w = Put(s, c, b) \/ w \in start_write(Put(s, c, b))) /\ r = [w EXCEPT !.asleep = a]

LEMMA FillTcp ==
  ASSUME NEW s, Core(s), Watched(s), s.status = "RUNNING", NEW c \in Seq(Threads \X Nat), NEW b,
         NEW r, Fed(s, c, b, r)
  PROVE  Filled(s, c, b, r)
<1>1. PICK d : d = Put(s, c, b)
  OBVIOUS
<1>2. PICK w, a : (w = d \/ w \in start_write(d)) /\ r = [w EXCEPT !.asleep = a]
  BY <1>1, Zenon DEF Fed
<1>3. Filled(s, c, b, d)
  BY <1>1, QueuedTcp, Zenon
<1>4. Filled(s, c, b, w)
  <2>1. CASE w = d
    BY <1>3, <2>1, Zenon
  <2>2. CASE w \in start_write(d)
    <3>1. Sound(d, w) /\ w.status = "RUNNING"
      BY <1>3, <2>2, StartWrite, Zenon DEF Filled
    <3> QED
      BY <1>3, <3>1, Zenon DEF Sound, Moves, Filled
  <2> QED
    BY <1>2, <2>1, <2>2, Zenon
<1>5. Idles(w, r) /\ r.wait_consume = w.wait_consume
  BY <1>4, <1>2, OnlyWaits, Zenon DEF Filled
<1> QED
  BY <1>4, <1>5, Zenon DEF Idles, Filled

\* One call more waits for its answer.
LEMMA AgreeLonger ==
  ASSUME NEW a \in Seq(Calls), NEW w \in Seq(Calls), NEW c \in Calls, Agree(a, w)
  PROVE  Agree(a, Append(w, c))
  BY DEF Agree

\* The chunks first + 1 .. first + k of a message: the last one is the last of the message, or none is.
NoLast(s, n) == \A j \in 1 .. n : \A d \in Calls : s[j] # LastChunk(d)

LEMMA ChunksLast ==
  ASSUME NEW t \in Threads, NEW m \in Nat, m >= 1, m <= Size(t), NEW first \in Nat, first = Size(t) - m, NEW k \in 0 .. m,
         NEW s, s = NewChunks(t, first, k)
  PROVE  /\ k # m \/ t \notin Calls => NoLast(s, Len(s))
         /\ k = m /\ t \in Calls => Len(s) > 0 /\ s[Len(s)] = LastChunk(t) /\ NoLast(s, Len(s) - 1)
<1>0. Len(s) = k /\ \A i \in 1 .. k : s[i] = <<t, first + i>>
  <2>1. k \in Nat
    OBVIOUS
  <2> QED
    BY <2>1, NewChunksAre, Zenon
<1>1. Size(t) \in Nat /\ (t \in Calls => Size(t) = Chunks[t])
  BY SizeIs, NotReply, Zenon DEF Size
<1>2. ASSUME NEW i \in 1 .. k, NEW d \in Calls, s[i] = LastChunk(d)
      PROVE  t \in Calls /\ i = k /\ k = m
  <2>1. t = d /\ first + i = Chunks[d]
    BY <1>0, <1>2 DEF LastChunk
  <2> QED
    BY <1>1, <1>2, <2>1
<1>3. ASSUME k = m, t \in Calls PROVE s[k] = LastChunk(t)
  <2>1. k \in 1 .. k /\ first + k = Chunks[t]
    BY <1>1, <1>3
  <2> QED
    BY <1>0, <2>1, Zenon DEF LastChunk
<1>4. Len(s) = k /\ (k = m => Len(s) > 0) /\ \A j \in 1 .. Len(s) - 1 : j \in 1 .. k /\ j # k
  BY <1>0
<1> QED
  BY <1>2, <1>3, <1>4, Zenon DEF NoLast

\* The chunks that fit are queued; s is the connection, and nobody is in wait_consume any more.
LEMMA FillInv ==
  ASSUME IInv, NEW t \in Threads, pc[t] \in Sends, NEW s, Core(s), Watched(s), s.status = "RUNNING",
         tcp.status = "RUNNING", s.queue = tcp.queue, s.handle_read = tcp.handle_read,
         IF pc[t] = "consume" THEN Room(s) # 0 ELSE ~ tcp.wait_consume,
         Fill(t, s), drop' = drop, SendUnchanged
  PROVE  IInv'
<1>1. CallsInv /\ TcpInv /\ ChunkInv /\ MatchInv /\ LeftInv
  BY Zenon DEF IInv, ChunkInv
<1>2. UNCHANGED <<handlers, proto_released, timer, timer_cancelled, release, wire, torn, inbox, peer>>
  BY Zenon DEF SendUnchanged, net
<1>3. left[t] \in 1 .. Size(t) /\ (pc[t] # "consume" => left[t] = Size(t)) /\ left[t] \in Nat /\ Size(t) \in Nat
  BY <1>1, SizeIs DEF LeftInv, Sends
<1>4. PICK m \in Nat : m = left[t]
  BY <1>3, Zenon
<1>5. PICK first \in Nat : first = Size(t) - left[t]
  BY <1>3
<1>6. PICK k \in Nat : k = Min({left[t], Room(s)})
  <2>1. Room(s) \in Nat
    BY RoomIs, Zenon DEF Core
  <2>2. Room(s) \in Int /\ left[t] \in Int
    BY <1>3, <2>1
  <2>3. Min({left[t], Room(s)}) = IF left[t] <= Room(s) THEN left[t] ELSE Room(s)
    BY <2>2, MinIs, Zenon
  <2> QED
    BY <1>3, <2>1, <2>3
<1>7. k \in 0 .. m /\ (pc[t] = "consume" => k # 0)
  <2>1. PICK room \in Nat : room = Room(s)
    BY RoomIs, Zenon DEF Core
  <2>2. room \in Int /\ m \in Int /\ m # 0
    BY <1>3, <1>4, <2>1
  <2>3. k = IF m <= room THEN m ELSE room
    BY <1>4, <1>6, <2>1, <2>2, MinIs, Zenon
  <2>4. k <= m /\ (room # 0 => k # 0) /\ k \in 0 .. m
    BY <2>1, <2>2, <2>3
  <2> QED
    BY <2>1, <2>4, Zenon
<1> DEFINE c == NewChunks(t, first, k)
           d == [s EXCEPT !.queue = @ \o c, !.wait_consume = (k < m)]
<1>8. c \in Seq(Threads \X Nat) /\ Len(c) = k /\ \A i \in 1 .. k : c[i] = <<t, first + i>>
  BY NewChunksAre, Zenon
<1>9. /\ left' = [left EXCEPT ![t] = @ - k]
      /\ \E w \in (IF k = 0 THEN {d} ELSE start_write(d)) :
           tcp' = IF k = m THEN notify_all(w) ELSE [w EXCEPT !.asleep = @ \cup {t}]
      /\ IF k = m THEN SendReturns(t, TRUE)
         ELSE pc' = [pc EXCEPT ![t] = "consume"] /\ UNCHANGED <<recv, refs, guard, results>>
  BY <1>4, <1>5, <1>6, Zenon DEF Fill, NewChunks
<1> HIDE DEF c
<1>10. /\ Core(tcp') /\ Watched(tcp') /\ tcp'.status = "RUNNING" /\ tcp'.queue = tcp.queue \o c
       /\ tcp'.wait_consume = (k < m) /\ tcp'.handle_read = tcp.handle_read /\ ~ tcp'.wait_release
  <2>1. PICK q : q = d
    OBVIOUS
  <2>2. PICK w : /\ w = q \/ w \in start_write(q)
                 /\ tcp' = IF k = m THEN notify_all(w) ELSE [w EXCEPT !.asleep = @ \cup {t}]
    BY <1>9, <2>1, Zenon
  <2>3. PICK a : tcp' = [w EXCEPT !.asleep = a]
    BY <2>2, Zenon DEF notify_all
  <2>4. PICK b : b = (k < m)
    OBVIOUS
  <2>5. q = Put(s, c, b)
    BY <2>1, <2>4, Zenon DEF Put
  <2>6. Fed(s, c, b, tcp')
    BY <2>2, <2>3, <2>5, Zenon DEF Fed
  <2>7. Filled(s, c, b, tcp')
    BY <1>8, <2>6, FillTcp, Zenon
  <2>8. ~ tcp'.wait_release
    BY <2>7 DEF Filled, Core, Open
  <2> QED
    BY <2>4, <2>7, <2>8, Zenon DEF Filled
<1>11. TcpInv'
  <2>1. ~ tcp.wait_release
    BY <1>1 DEF TcpInv, Core, Open
  <2> QED
    BY <1>1, <1>2, <1>10, <2>1, Zenon DEF TcpInv
<1>12. SendMoves(t)
  BY <1>9, Zenon DEF SendMoves
<1>13. CallsInv'
  BY <1>1, <1>2, <1>10, <1>12, SendCalls, Zenon
<1>14. DOMAIN pc' = Threads /\ \A u \in Threads \ {t} : pc'[u] = pc[u]
  BY <1>1, <1>12, SendPlaces, Zenon
<1>15. pc'[t] = IF k = m THEN IF t \in Calls THEN "sent" ELSE "done" ELSE "consume"
  BY <1>1, <1>9 DEF SendReturns, CallsInv
<1>16. left' \in [Threads -> Nat] /\ left'[t] = m - k /\ \A u \in Threads \ {t} : left'[u] = left[u]
  <2>1. m - k \in Nat
    BY <1>7
  <2> QED
    BY <1>1, <1>4, <1>9, <2>1 DEF LeftInv
<1>17. LeftInv'
  <2>1. k # m => left'[t] \in 1 .. Size(t)
    BY <1>3, <1>4, <1>7, <1>16
  <2>2. pc'[t] \in Sends => left'[t] \in 1 .. Size(t)
    BY <1>15, <2>1 DEF Sends
  <2>3. \A u \in Threads : pc'[u] \in {"send", "sender", "consume"} => left'[u] \in 1 .. Size(u)
    BY <1>1, <1>14, <1>16, <2>2, Zenon DEF LeftInv, Sends
  <2>4. pc'[t] \notin {"send", "sender", "idle", "found"}
    BY <1>15
  <2>5. \A u \in Threads : pc'[u] \in {"send", "sender"} => left'[u] = Size(u)
    BY <1>1, <1>14, <1>16, <2>4, Zenon DEF LeftInv
  <2>6. \A u \in Calls : pc'[u] \in {"idle", "found"} => left'[u] = Size(u)
    BY <1>1, <1>14, <1>16, <2>4, NotReply, Zenon DEF LeftInv
  <2> QED
    BY <1>16, <2>3, <2>5, <2>6, Zenon DEF LeftInv
<1>18. ChunkInv'
  <2>1. /\ wire \in Threads \X Nat /\ torn \in BOOLEAN /\ drop \in {"no", "posted", "done"} /\ ChunksTogether
        /\ tcp.queue \in Seq(Threads \X Nat)
    BY <1>1, Zenon DEF ChunkInv, TcpInv, Core
  <2>2. ASSUME drop = "no"
        PROVE  InOrder(wire, tcp'.queue) /\ Goes(End(wire, tcp'.queue), pc', left', tcp'.wait_consume)
    <3>1. InOrder(wire, tcp.queue) /\ Goes(End(wire, tcp.queue), pc, left, tcp.wait_consume)
      BY <1>1, <2>2, Zenon DEF ChunkInv, Open
    <3>2. pc'[t] = "consume" <=> k < m
      <4>1. k # m <=> k < m
        BY <1>7
      <4>2. pc'[t] = "consume" <=> k # m
        BY <1>15
      <4> QED
        BY <4>1, <4>2, Zenon
    <3>3. pc[t] # "consume" => ~ tcp.wait_consume /\ left[t] = Size(t)
      BY <1>3, Zenon
    <3>4. /\ first = Size(t) - left[t] /\ k \in 0 .. left[t] /\ left'[t] = left[t] - k
          /\ (pc'[t] = "consume" <=> k < left[t])
      BY <1>4, <1>5, <1>7, <1>16, <3>2, Zenon
    <3>5. Ordered(wire, tcp.queue, pc, left, tcp.wait_consume)
      BY <3>1, Zenon DEF Ordered
    <3>6. Fills(t, first, k, pc, left, tcp.wait_consume, pc', left')
      BY <1>3, <1>7, <1>14, <3>3, <3>4, Zenon DEF Fills
    <3>7. Ordered(wire, tcp.queue \o c, pc', left', k < left[t])
      BY <2>1, <3>5, <3>6, FillOrder, Zenon DEF c
    <3> QED
      BY <1>4, <1>10, <3>7, Zenon DEF Ordered
  <2>3. ChunksTogether'
    BY <1>2, <2>1, Zenon DEF ChunksTogether
  <2> QED
    BY <1>2, <1>17, <2>1, <2>2, <2>3, Zenon DEF ChunkInv
<1>19. MatchInv'
  <2>1. PICK a \in Seq(Calls) : a = Answers
    <3>1. inbox \in Seq(Calls) /\ peer \in Seq(Calls)
      BY <1>1, Zenon DEF MatchInv
    <3>2. inbox \o peer \in Seq(Calls)
      BY <3>1
    <3> QED
      BY <3>2, Zenon DEF Answers
  <2>2. handlers \in Seq(Calls)
    BY <1>1, Zenon DEF CallsInv, Kept
  <2>3. Answers' = Answers /\ (Late' <=> Late) /\ inbox' \in Seq(Calls) /\ peer' \in Seq(Calls)
    BY <1>1, <1>2, Zenon DEF MatchInv, Answers, Late
  <2>4. SentAlone(pc) /\ SentAlone(pc')
    <3>1. GuardInv /\ GuardInv'
      BY <1>1, <1>13, Zenon DEF CallsInv
    <3>2. SentAlone(pc)
      BY <3>1, OneSends, Zenon
    <3>3. SentAlone(pc')
      BY <3>1 DEF GuardInv, SentAlone, Holding
    <3> QED
      BY <3>2, <3>3, Zenon
  <2>5. ~ proto_released
    BY <1>1 DEF CallsInv, ReleaseInv, Open
  <2>6. tcp.queue \in Seq(Threads \X Nat)
    BY <1>1, Zenon DEF TcpInv, Core
  <2>7. m >= 1 /\ m <= Size(t) /\ first = Size(t) - m
    BY <1>3, <1>4, <1>5
  <2>8. /\ k # m \/ t \notin Calls => NoLast(c, Len(c))
        /\ k = m /\ t \in Calls => Len(c) > 0 /\ c[Len(c)] = LastChunk(t) /\ NoLast(c, Len(c) - 1)
    BY <1>7, <2>7, ChunksLast, Zenon DEF c
  <2>9. CASE Late
    BY <2>3, <2>9, Zenon DEF MatchInv
  <2>10. CASE ~ Late /\ (k # m \/ t \notin Calls)
    <3>1. \A c_1 \in Calls : pc[c_1] = "sent" <=> pc'[c_1] = "sent"
      <4>1. t \in Calls => pc[t] # "sent" /\ pc'[t] # "sent"
        BY <1>15, <2>10 DEF Sends
      <4> QED
        BY <1>14, <4>1, NotReply, Zenon
    <3>2. Waiting' = Waiting
      BY <1>2, <2>4, <3>1, WaitingSame, Zenon DEF Waiting
    <3>3. Waiting \in Seq(Calls)
      BY <1>1, WaitingCalls, Zenon
    <3>4. PICK w \in Seq(Calls) : w = Waiting
      BY <3>3, Zenon
    <3>5. Len(a) \in Nat /\ Len(w) \in Nat /\ \A i \in 1 .. Len(w) : w[i] \in Calls
      OBVIOUS
    <3>6. ~ torn => Queued(a, w, tcp'.queue)
      <4>1. ~ torn => Queued(a, w, tcp.queue)
        BY <1>1, <2>1, <2>10, <3>4, Zenon DEF MatchInv, Open
      <4> QED
        BY <1>8, <1>10, <2>6, <2>8, <2>10, <3>5, <4>1, OtherQueued, Zenon DEF NoLast
    <3>7. Agree(a, w)
      BY <1>1, <2>1, <2>5, <2>10, <3>4, Zenon DEF MatchInv
    <3> QED
      BY <1>2, <2>1, <2>3, <3>2, <3>4, <3>6, <3>7, Zenon DEF MatchInv
  <2>11. CASE ~ Late /\ k = m /\ t \in Calls
    <3>1. Waiting' = Append(handlers, t)
      BY <1>2, <1>15, <2>4, <2>11, WaitingIs, Zenon DEF Waiting
    <3>2. Waiting = handlers
      <4>1. \A c_1 \in Calls : pc[c_1] # "sent"
        BY <1>1, <2>11 DEF CallsInv, GuardInv, Holding, Sends
      <4> QED
        BY <2>4, <4>1, WaitingIs, Zenon DEF Waiting
    <3>3. \A i \in 1 .. Len(handlers) : handlers[i] # t
      <4>1. pc[t] # "done"
        BY DEF Sends
      <4> QED
        BY <1>1, <4>1, NotKept, Zenon DEF CallsInv
    <3>4. Agree(a, handlers)
      BY <1>1, <2>1, <2>5, <2>11, <3>2, Zenon DEF MatchInv
    <3>5. Agree(a, Append(handlers, t))
      BY <2>2, <2>11, <3>4, AgreeLonger, Zenon
    <3>6. ~ torn => Queued(a, Append(handlers, t), tcp'.queue)
      <4>1. ~ torn => Queued(a, handlers, tcp.queue)
        BY <1>1, <2>1, <2>11, <3>2, Zenon DEF MatchInv, Open
      <4> QED
        BY <1>8, <1>10, <2>2, <2>6, <2>8, <2>11, <3>3, <3>4, <4>1, LastQueued, Zenon DEF NoLast
    <3> QED
      BY <1>2, <2>1, <2>3, <3>1, <3>5, <3>6, Zenon DEF MatchInv
  <2> QED
    BY <2>9, <2>10, <2>11, Zenon
<1> QED
  BY <1>11, <1>13, <1>18, <1>19, Zenon DEF IInv

LEMMA ReturnsFalse ==
  ASSUME CallsInv, NEW t \in Threads, SendReturns(t, FALSE)
  PROVE  SendMoves(t) /\ pc'[t] = "done"
<1>1. pc' = [pc EXCEPT ![t] = "done"] /\ DOMAIN pc = Threads
  BY Zenon DEF SendReturns, CallsInv
<1>2. pc'[t] = "done"
  BY <1>1
<1> QED
  BY <1>2, Zenon DEF SendMoves

LEMMA SendInv ==
  ASSUME IInv, NEW t \in Threads, Send(t)
  PROVE  IInv'
<1>1. TcpInv /\ CallsInv /\ Core(tcp) /\ Watched(tcp) /\ DOMAIN pc = Threads
  BY Zenon DEF IInv, TcpInv, CallsInv
<1>2. pc[t] \in {"send", "sender"}
  BY Zenon DEF Send
<1>3. pc[t] \in Sends /\ pc[t] # "consume"
  BY <1>2 DEF Sends
<1>4. drop' = drop /\ SendUnchanged
  BY Zenon DEF Send
<1>5. CASE SendReturns(t, FALSE) /\ UNCHANGED <<tcp, left>>
  <2>1. SendMoves(t) /\ pc'[t] = "done"
    BY <1>1, <1>5, ReturnsFalse, Zenon
  <2>2. Idles(tcp, tcp') /\ tcp'.wait_consume = tcp.wait_consume
    BY <1>1, <1>5, Zenon DEF Idles
  <2> QED
    BY <1>3, <1>4, <1>5, <2>1, <2>2, SendIdles, Zenon
<1>6. CASE /\ tcp' = [tcp EXCEPT !.asleep = @ \cup {t}]
           /\ pc' = [pc EXCEPT ![t] = "sender"]
           /\ UNCHANGED <<left, recv, refs, guard, results>>
  <2>1. pc'[t] = "sender"
    BY <1>1, <1>6
  <2>2. SendMoves(t)
    BY <1>6, Zenon DEF SendMoves
  <2>3. PICK a : tcp' = [tcp EXCEPT !.asleep = a]
    BY <1>6, Zenon
  <2>4. PICK s : s = tcp'
    OBVIOUS
  <2>5. Idles(tcp, s) /\ s.wait_consume = tcp.wait_consume
    <3>1. FALSE \in BOOLEAN /\ (tcp.status = "TERMINATED" => FALSE = tcp.wait_consume)
      BY <1>1, <1>6 DEF Core
    <3> QED
      BY <1>1, <2>3, <2>4, <3>1, OnlyWaits, Zenon
  <2> QED
    BY <1>3, <1>4, <1>6, <2>1, <2>2, <2>4, <2>5, SendIdles, Zenon
<1>7. CASE Fill(t, tcp) /\ tcp.status = "RUNNING" /\ SenderMayGo(tcp)
  <2>1. IF pc[t] = "consume" THEN Room(tcp) # 0 ELSE ~ tcp.wait_consume
    BY <1>3, <1>7, Zenon DEF SenderMayGo
  <2> QED
    BY <1>1, <1>3, <1>4, <1>7, <2>1, FillInv, Zenon
<1> QED
  BY <1>5, <1>6, <1>7 DEF Send

LEMMA ConsumedInv ==
  ASSUME IInv, NEW t \in Threads, Consumed(t)
  PROVE  IInv'
<1>1. TcpInv /\ CallsInv /\ ChunkInv /\ Core(tcp) /\ Watched(tcp) /\ DOMAIN pc = Threads
  BY Zenon DEF IInv, TcpInv, CallsInv
<1>2. pc[t] = "consume" /\ pc[t] \in Sends
  BY DEF Consumed, Sends
<1>3. drop' = drop /\ SendUnchanged
  BY Zenon DEF Consumed
<1>4. tcp.status = "TERMINATED" => FALSE = tcp.wait_consume
  BY <1>1 DEF Core
<1>5. PICK s : s = [tcp EXCEPT !.wait_consume = FALSE]
  OBVIOUS
<1>6. Idles(tcp, s)
  <2>1. FALSE \in BOOLEAN
    OBVIOUS
  <2> QED
    BY <1>1, <1>4, <1>5, <2>1, OnlyWaits, Zenon
<1>7. CASE tcp.status # "RUNNING" /\ tcp' = s /\ SendReturns(t, FALSE) /\ UNCHANGED left
  <2>1. SendMoves(t) /\ pc'[t] = "done"
    BY <1>1, <1>7, ReturnsFalse, Zenon
  <2>2. tcp.status \in Open => drop # "no"
    <3>1. tcp.status \in Open /\ drop = "no" => tcp.wait_consume
      BY <1>1, <1>2, Zenon DEF ChunkInv, Goes
    <3>2. tcp.status \in Open => ~ tcp.wait_consume
      BY <1>4, <1>7 DEF Open
    <3> QED
      BY <3>1, <3>2, Zenon
  <2> QED
    BY <1>2, <1>3, <1>6, <1>7, <2>1, <2>2, SendIdles, Zenon
<1>8. CASE /\ tcp' = [tcp EXCEPT !.asleep = @ \cup {t}]
           /\ UNCHANGED <<pc, left, recv, refs, guard, results>>
  <2>1. SendMoves(t)
    BY <1>8, Zenon DEF SendMoves
  <2>2. PICK a : tcp' = [tcp EXCEPT !.asleep = a]
    BY <1>8, Zenon
  <2>3. PICK r : r = tcp'
    OBVIOUS
  <2>4. Idles(tcp, r) /\ r.wait_consume = tcp.wait_consume
    <3>1. FALSE \in BOOLEAN
      OBVIOUS
    <3> QED
      BY <1>1, <1>4, <2>2, <2>3, <3>1, OnlyWaits, Zenon
  <2> QED
    BY <1>2, <1>3, <1>8, <2>1, <2>3, <2>4, SendIdles, Zenon
<1>9. CASE Fill(t, s) /\ tcp.status = "RUNNING" /\ Room(tcp) # 0
  <2>1. Room(s) # 0
    BY <1>6, <1>9, Zenon DEF Room, Idles
  <2> QED
    BY <1>2, <1>3, <1>6, <1>9, <2>1, FillInv, Zenon DEF Idles
<1> QED
  BY <1>5, <1>7, <1>8, <1>9, Zenon DEF Consumed

LEMMA ConsumeTimeoutInv ==
  ASSUME IInv, NEW t \in Threads, ConsumeTimeout(t)
  PROVE  IInv'
<1>1. TcpInv /\ CallsInv /\ Core(tcp) /\ Watched(tcp)
  BY Zenon DEF IInv, TcpInv
<1>2. pc[t] = "consume" /\ pc[t] \in Sends /\ tcp.status = "RUNNING"
  BY DEF ConsumeTimeout, Sends
<1>3. /\ drop' = "posted" /\ SendUnchanged /\ left' = left
      /\ tcp' = [tcp EXCEPT !.wait_consume = FALSE, !.asleep = @ \ {t}]
  BY Zenon DEF ConsumeTimeout
<1>4. SendMoves(t) /\ pc'[t] = "done"
  BY <1>1, ReturnsFalse, Zenon DEF ConsumeTimeout
<1>5. PICK a : tcp' = [tcp EXCEPT !.wait_consume = FALSE, !.asleep = a]
  BY <1>3, Zenon
<1>6. PICK r : r = tcp'
  OBVIOUS
<1>7. Idles(tcp, r)
  <2>1. FALSE \in BOOLEAN /\ (tcp.status = "TERMINATED" => FALSE = tcp.wait_consume)
    BY <1>2
  <2> QED
    BY <1>1, <1>5, <1>6, <2>1, OnlyWaits, Zenon
<1>8. drop' # "no"
  BY <1>3
<1> QED
  BY <1>2, <1>3, <1>4, <1>6, <1>7, <1>8, SendIdles, Zenon

----------------------------------------------------------------------------
(* The invariant is inductive. *)

LEMMA InitInv ==
  ASSUME Init
  PROVE  IInv
<1>1. TcpInv
  <2>1. /\ DOMAIN tcp = Fields /\ tcp.status = "TERMINATED" /\ tcp.queue = <<>> /\ tcp.wait_callback = 0
        /\ tcp.handle_read = FALSE /\ tcp.wait_release = FALSE /\ tcp.wait_consume = FALSE
        /\ tcp.wait_init = FALSE /\ tcp.wait = {} /\ tcp.cancel = {} /\ tcp.reset = FALSE
    BY DEF Init, Fields
  <2>2. Core(tcp)
    <3>1. /\ tcp.handle_read \in BOOLEAN /\ tcp.wait_release \in BOOLEAN /\ ~ tcp.handle_read /\ ~ tcp.wait_release
          /\ ~ tcp.wait_consume /\ ~ tcp.wait_init /\ ~ tcp.reset
      BY <2>1, Zenon
    <3>2. tcp.queue \in Seq(Threads \X Nat) /\ tcp.wait_callback \in Nat
      BY <2>1
    <3>3. DOMAIN tcp = Fields /\ tcp.status = "TERMINATED" /\ tcp.wait = {} /\ tcp.cancel = {} /\ tcp.wait_callback = 0
      BY <2>1, Zenon
    <3> QED
      BY <3>1, <3>2, <3>3 DEF Core, Open, Closing
  <2>3. Watched(tcp)
    BY <2>1 DEF Watched, Closing
  <2>4. release.stage = "none"
    BY DEF Init, NoThread
  <2> QED
    BY <2>1, <2>2, <2>3, <2>4 DEF TcpInv
<1>2. /\ pc = [t \in Threads |-> "idle"] /\ handlers = <<>> /\ tcp.handle_read = FALSE /\ tcp.queue = <<>>
      /\ tcp.wait_consume = FALSE
  BY DEF Init
<1>3. \A t \in Threads : pc[t] = "idle"
  BY <1>2, Zenon
<1>4. CallsInv
  <2>1. \A c \in Calls : CallInv(c)
    BY <1>3, NotReply DEF Init, CallInv
  <2>2. Kept(handlers, pc, timer_cancelled) /\ Kept(release.todo, pc, timer_cancelled)
    BY DEF Init, NoThread, Kept, IsDistinct
  <2>3. RecvInv
    BY <1>2, <1>3 DEF Init, RecvInv, Threads
  <2>4. GuardInv
    BY <1>3, NotReply DEF Init, GuardInv, Holding
  <2>5. ReleaseInv
    BY DEF Init, ReleaseInv, NoThread
  <2>6. DOMAIN pc = Threads /\ DOMAIN timer = Calls /\ DOMAIN timer_cancelled = Calls /\ DOMAIN results = Calls
    BY DEF Init
  <2> QED
    BY <2>1, <2>2, <2>3, <2>4, <2>5, <2>6, Zenon DEF CallsInv
<1>5. ChunkInv
  <2>1. wire = <<"reply", 1>> /\ torn = FALSE /\ drop = "no"
    BY Zenon DEF Init
  <2>2. wire \in Threads \X Nat /\ wire[1] = "reply" /\ wire[2] = 1 /\ Size("reply") = 1
    BY <2>1, ConnectionAssumption DEF Threads, Size
  <2>3. LeftInv
    <3>1. left = [t \in Threads |-> IF t \in Calls THEN Chunks[t] ELSE 0]
      BY Zenon DEF Init
    <3>2. \A t \in Threads : left[t] \in Nat
      BY <3>1, ConnectionAssumption
    <3>3. \A c \in Calls : left[c] = Size(c)
      BY <3>1, NotReply DEF Size
    <3> QED
      BY <1>3, <3>1, <3>2, <3>3 DEF LeftInv
  <2>4. InOrder(wire, tcp.queue) /\ End(wire, tcp.queue) = wire
    BY <1>2 DEF InOrder, End
  <2>5. Goes(wire, pc, left, tcp.wait_consume)
    <3>1. ~ (wire[2] < Size(wire[1])) /\ \A t \in Threads : pc[t] # "consume"
      BY <1>3, <2>2
    <3> QED
      BY <3>1, Zenon DEF Goes
  <2> QED
    BY <2>1, <2>2, <2>3, <2>4, <2>5 DEF ChunkInv, ChunksTogether
<1>6. MatchInv
  <2>1. inbox = <<>> /\ peer = <<>> /\ handlers = <<>> /\ tcp.queue = <<>>
    BY DEF Init
  <2>2. Answers = <<>>
    BY <2>1 DEF Answers
  <2>3. Waiting = <<>>
    BY <1>3, <2>1, NotReply DEF Waiting, WaitingAt
  <2>4. Agree(Answers, Waiting)
    BY <2>2, <2>3 DEF Agree
  <2>5. Queued(Answers, Waiting, tcp.queue)
    BY <2>1, <2>2, <2>3 DEF Queued, EachQueued, NoOther, SameOrder
  <2>6. inbox \in Seq(Calls) /\ peer \in Seq(Calls)
    BY <2>1
  <2> QED
    BY <2>4, <2>5, <2>6, Zenon DEF MatchInv
<1> QED
  BY <1>1, <1>4, <1>5, <1>6, Zenon DEF IInv

LEMMA SameInv ==
  ASSUME IInv, UNCHANGED vars
  PROVE  IInv'
<1>1. UNCHANGED <<tcp, guard, handlers, proto_released, timer, timer_cancelled, results, release, recv, pc, left,
                  drop, wire, torn, peer, inbox>>
  BY Zenon DEF vars, levin, send, net
<1>2. TcpInv' /\ CallsInv'
  <2>1. TcpInv'
    BY <1>1, Zenon DEF IInv, TcpInv
  <2>2. CallsInv
    BY Zenon DEF IInv
  <2>3. RecvInv' /\ GuardInv'
    BY <1>1, <2>2, Zenon DEF CallsInv, RecvInv, GuardInv
  <2>4. ReleaseInv' /\ \A c \in Calls : CallInv(c)'
    BY <1>1, <2>2, Zenon DEF CallsInv, ReleaseInv, CallInv
  <2> QED
    BY <1>1, <2>1, <2>2, <2>3, <2>4, Zenon DEF CallsInv
<1>3. ChunkInv'
  BY <1>1, Zenon DEF IInv, ChunkInv, LeftInv, ChunksTogether
<1>4. MatchInv'
  BY <1>1, Zenon DEF IInv, MatchInv, Late, Answers, Waiting
<1> QED
  BY <1>2, <1>3, <1>4, Zenon DEF IInv

LEMMA NextInv ==
  ASSUME IInv, [Next]_vars
  PROVE  IInv'
<1>1. CASE HandlerStep
  BY <1>1, HandlerStepInv
<1>2. CASE CallStep
  BY <1>2, CallStepInv
<1>3. CASE \E t \in Threads : Sending(t)
  BY <1>3, SendInv, ConsumedInv, ConsumeTimeoutInv, Zenon DEF Sending
<1>4. CASE UNCHANGED vars
  BY <1>4, SameInv, Zenon
<1> QED
  BY <1>1, <1>2, <1>3, <1>4, Zenon DEF Next, HandlerStep, CallStep

\* The inductive invariant, for any number of threads that send and any queue: what is under way
\* on the connection fits its state, the chunks queued are those of whole messages but for the one
\* that waits in wait_consume, and the answers on their way are those to the calls that wait.
THEOREM Inductive == Spec => []IInv
<1>1. Init => IInv
  BY InitInv
<1>2. IInv /\ [Next]_vars => IInv'
  BY NextInv
<1> QED
  BY <1>1, <1>2, PTL DEF Spec

LEMMA WatchedAlive ==
  ASSUME IInv
  PROVE  DestroyedWasted
<1>1. /\ tcp.status \in Open \cup Closing \cup {"WASTED"} /\ Watched(tcp)
      /\ (tcp.wait_release <=> release.stage # "none")
  BY Zenon DEF IInv, TcpInv, Core
<1>2. CASE tcp.status \in Open
  BY <1>1, <1>2 DEF Open, Watched, Alive, DestroyedWasted
<1>3. CASE tcp.status \in Closing
  BY <1>1, <1>3 DEF Watched, Busy, Alive, DestroyedWasted
<1>4. CASE tcp.status = "WASTED"
  BY <1>4 DEF DestroyedWasted
<1> QED
  BY <1>1, <1>2, <1>3, <1>4, Zenon

\* The destructor's assertion: a started connection that nothing keeps alive any more is WASTED.
\* While it runs its timer is set, and once it is closing one of the things that on_interrupted and
\* on_terminating wait for is still to come, and looks again whether the connection can be closed.
THEOREM ConnectionNotLost == Spec => []DestroyedWasted
<1>1. IInv => DestroyedWasted
  BY WatchedAlive
<1> QED
  BY <1>1, Inductive, PTL

\* send: on the wire no chunk comes between two of another message, until a sender that waited too
\* long for the queue to drain gives up and posts terminate.
THEOREM MessagesWhole == Spec => []ChunksTogether
<1>1. IInv => ChunksTogether
  BY Zenon DEF IInv, ChunkInv
<1> QED
  BY <1>1, Inductive, PTL

----------------------------------------------------------------------------
(* What a caller knows: AsyncCalls. *)

\* The caller of d learns nothing.
Unaware(d) ==
  /\ results'[d] = results[d]
  /\ pc'[d] = "idle" <=> pc[d] = "idle"
  /\ pc'[d] = "refused" <=> pc[d] = "refused"

\* The call c is made, or called back.
Made(c) == pc[c] = "idle" /\ pc'[c] \in {"found", "refused"} /\ results'[c] = results[c]

CalledBack(c) ==
  /\ pc[c] \notin {"idle", "refused"} /\ pc'[c] \notin {"idle", "refused"}
  /\ \E r : results'[c] = Append(results[c], r)

Tells(c) == (Unaware(c) \/ Made(c) \/ CalledBack(c)) /\ \A d \in Calls \ {c} : Unaware(d)

Quiet == \A d \in Calls : Unaware(d)

LEMMA QuietSame ==
  ASSUME UNCHANGED <<pc, results>>
  PROVE  Quiet
  BY Zenon DEF Quiet, Unaware

LEMMA SendTells ==
  ASSUME IInv, NEW t \in Threads, Sending(t)
  PROVE  Quiet \/ \E c \in Calls : Tells(c)
<1>1. CallsInv /\ DOMAIN pc = Threads /\ DOMAIN results = Calls
  BY Zenon DEF IInv, CallsInv
<1>2. pc[t] \notin {"idle", "refused"}
  BY DEF Sending, Send, Consumed, ConsumeTimeout
<1>3. \/ SendReturns(t, FALSE) \/ SendReturns(t, TRUE)
      \/ results' = results /\ pc' \in {[pc EXCEPT ![t] = "sender"], [pc EXCEPT ![t] = "consume"], pc}
  <2>1. ASSUME NEW s, Fill(t, s)
        PROVE  SendReturns(t, TRUE) \/ (results' = results /\ pc' = [pc EXCEPT ![t] = "consume"])
    BY <2>1, Zenon DEF Fill
  <2>2. CASE Send(t)
    BY <2>1, <2>2 DEF Send
  <2>3. CASE Consumed(t)
    BY <2>1, <2>3 DEF Consumed
  <2>4. CASE ConsumeTimeout(t)
    BY <2>4, Zenon DEF ConsumeTimeout
  <2> QED
    BY <2>2, <2>3, <2>4, Zenon DEF Sending
<1>4. /\ \A u \in Threads \ {t} : pc'[u] = pc[u]
      /\ pc'[t] \notin {"idle", "refused"}
  BY <1>1, <1>2, <1>3 DEF SendReturns
<1>5. results' = results \/ (t \in Calls /\ results' = [results EXCEPT ![t] = Append(@, "failed")])
  BY <1>3, Zenon DEF SendReturns, Threads
<1>6. CASE results' = results
  BY <1>2, <1>4, <1>6, NotReply, Zenon DEF Quiet, Unaware
<1>7. CASE t \in Calls /\ results' = [results EXCEPT ![t] = Append(@, "failed")]
  <2>1. results'[t] = Append(results[t], "failed") /\ \A d \in Calls \ {t} : results'[d] = results[d]
    BY <1>1, <1>7
  <2>2. CalledBack(t)
    BY <1>2, <1>4, <2>1, Zenon DEF CalledBack
  <2>3. \A d \in Calls \ {t} : Unaware(d)
    BY <1>4, <2>1, NotReply, Zenon DEF Unaware
  <2> QED
    BY <1>7, <2>2, <2>3, Zenon DEF Tells
<1> QED
  BY <1>5, <1>6, <1>7, Zenon

\* A callback of a call that was sent.
LEMMA CallbackTells ==
  ASSUME CallsInv, NEW c \in Calls, pc[c] = "done", pc' = pc, NEW r,
         results' = [results EXCEPT ![c] = Append(@, r)]
  PROVE  Tells(c)
<1>1. results'[c] = Append(results[c], r) /\ \A d \in Calls \ {c} : results'[d] = results[d]
  BY DEF CallsInv
<1>2. CalledBack(c)
  BY <1>1 DEF CalledBack
<1>3. \A d \in Calls \ {c} : Unaware(d)
  BY <1>1, Zenon DEF Unaware
<1> QED
  BY <1>2, <1>3, Zenon DEF Tells

LEMMA CallTells ==
  ASSUME IInv, NEW c \in Calls, Invoke(c) \/ LockHandlers(c) \/ AddHandler(c) \/ Expire(c) \/ TimedOut(c)
  PROVE  Quiet \/ Tells(c)
<1>1. CallsInv /\ CallInv(c) /\ DOMAIN pc = Threads /\ DOMAIN results = Calls /\ c \in Threads
  BY NotReply, Zenon DEF IInv, CallsInv
<1>2. ASSUME NEW place, pc' = [pc EXCEPT ![c] = place]
      PROVE  pc'[c] = place /\ \A d \in Calls \ {c} : pc'[d] = pc[d]
  BY <1>1, <1>2, NotReply
<1>3. CASE Invoke(c)
  <2>1. pc[c] = "idle" /\ results' = results
    BY <1>3, Zenon DEF Invoke, levin
  <2>2. PICK place \in {"found", "refused"} : pc' = [pc EXCEPT ![c] = place]
    BY <1>3, Zenon DEF Invoke
  <2> QED
    BY <1>2, <2>1, <2>2, Zenon DEF Tells, Made, Unaware
<1>4. CASE LockHandlers(c)
  <2>1. pc[c] = "found" /\ pc' = [pc EXCEPT ![c] = "send"] /\ results' = results
    BY <1>4, Zenon DEF LockHandlers
  <2>2. Unaware(c)
    BY <1>2, <2>1 DEF Unaware
  <2> QED
    BY <1>2, <2>1, <2>2, Zenon DEF Tells, Unaware
<1>5. CASE AddHandler(c)
  <2>1. pc[c] = "sent" /\ pc' = [pc EXCEPT ![c] = "done"]
    BY <1>5, Zenon DEF AddHandler
  <2>2. results' = results \/ results' = [results EXCEPT ![c] = Append(@, "failed")]
    BY <1>5, Zenon DEF AddHandler
  <2>3. \A d \in Calls \ {c} : results'[d] = results[d] /\ pc'[d] = pc[d]
    BY <1>1, <1>2, <2>1, <2>2
  <2>4. Unaware(c) \/ CalledBack(c)
    <3>1. pc'[c] = "done"
      BY <1>2, <2>1, Zenon
    <3>2. CASE results' = results
      BY <2>1, <3>1, <3>2 DEF Unaware
    <3>3. CASE results' = [results EXCEPT ![c] = Append(@, "failed")]
      <4>1. results'[c] = Append(results[c], "failed")
        BY <1>1, <3>3
      <4> QED
        BY <2>1, <3>1, <4>1 DEF CalledBack
    <3> QED
      BY <2>2, <3>2, <3>3, Zenon
  <2> QED
    BY <2>3, <2>4, Zenon DEF Tells, Unaware
<1>6. CASE Expire(c)
  BY <1>6, QuietSame, Zenon DEF Expire, send
<1>7. CASE TimedOut(c)
  <2>1. pc' = pc /\ timer[c] = "expired" /\ results' = [results EXCEPT ![c] = Append(@, "failed")]
    BY <1>7, Zenon DEF TimedOut, send
  <2>2. pc[c] = "done"
    BY <1>1, <2>1 DEF CallInv
  <2> QED
    BY <1>1, <2>1, <2>2, CallbackTells, Zenon
<1> QED
  BY <1>3, <1>4, <1>5, <1>6, <1>7, Zenon

LEMMA HandleRecvTells ==
  ASSUME IInv, HandleRecv
  PROVE  Quiet \/ \E c \in Calls : Tells(c)
<1>1. CallsInv /\ DOMAIN pc = Threads
  BY Zenon DEF IInv, CallsInv
<1>2. \/ UNCHANGED <<pc, results>>
      \/ pc' = [pc EXCEPT !["reply"] = "send"] /\ results' = results
      \/ inbox # <<>> /\ Answered(Head(inbox)) /\ pc' = pc
  BY Zenon DEF HandleRecv
<1>3. CASE UNCHANGED <<pc, results>>
  BY <1>3, QuietSame, Zenon
<1>4. CASE pc' = [pc EXCEPT !["reply"] = "send"] /\ results' = results
  <2>1. \A d \in Calls : pc'[d] = pc[d]
    BY <1>1, <1>4, NotReply
  <2> QED
    BY <1>4, <2>1, Zenon DEF Quiet, Unaware
<1>5. CASE inbox # <<>> /\ Answered(Head(inbox)) /\ pc' = pc
  <2>1. CASE results' = results
    BY <1>5, <2>1, QuietSame, Zenon
  <2>2. CASE results' # results
    <3>1. handlers # <<>>
      BY <1>5, <2>2, Zenon DEF Answered
    <3>2. PICK c \in Calls : c = Head(handlers) /\ pc[c] = "done"
      <4>1. handlers \in Seq(Calls) /\ \A i \in 1 .. Len(handlers) : pc[handlers[i]] = "done"
        BY <1>1, Zenon DEF CallsInv, Kept
      <4>2. Head(handlers) = handlers[1] /\ handlers[1] \in Calls /\ 1 \in 1 .. Len(handlers)
        BY <3>1, <4>1
      <4> QED
        BY <4>1, <4>2, Zenon
    <3>3. PICK r : results' = [results EXCEPT ![c] = Append(@, r)]
      BY <1>5, <2>2, <3>1, <3>2, Zenon DEF Answered
    <3> QED
      BY <1>1, <1>5, <3>2, <3>3, CallbackTells, Zenon
  <2> QED
    BY <2>1, <2>2, Zenon
<1> QED
  BY <1>2, <1>3, <1>4, <1>5, Zenon

LEMMA CancelCallTells ==
  ASSUME IInv, CancelCall
  PROVE  Quiet \/ \E c \in Calls : Tells(c)
<1>1. CallsInv /\ pc' = pc /\ release.todo # <<>>
  BY Zenon DEF IInv, CancelCall, send
<1>2. PICK c \in Calls : c = Head(release.todo) /\ pc[c] = "done"
  <2>1. release.todo \in Seq(Calls) /\ \A i \in 1 .. Len(release.todo) : pc[release.todo[i]] = "done"
    BY <1>1, Zenon DEF CallsInv, Kept
  <2>2. /\ Head(release.todo) = release.todo[1] /\ release.todo[1] \in Calls /\ 1 \in 1 .. Len(release.todo)
    BY <1>1, <2>1
  <2> QED
    BY <2>1, <2>2, Zenon
<1>3. results' = results \/ results' = [results EXCEPT ![c] = Append(@, "failed")]
  BY <1>2, Zenon DEF CancelCall
<1>4. CASE results' = results
  BY <1>1, <1>4, QuietSame, Zenon
<1>5. CASE results' = [results EXCEPT ![c] = Append(@, "failed")]
  BY <1>1, <1>2, <1>5, CallbackTells, Zenon
<1> QED
  BY <1>3, <1>4, <1>5, Zenon

LEMMA NextTells ==
  ASSUME IInv, [Next]_vars
  PROVE  Quiet \/ \E c \in Calls : Tells(c)
<1>1. CASE Start \/ Started \/ RequestCallback \/ RunCallback
  BY <1>1, QuietSame, Zenon DEF Start, Started, RequestCallback, RunCallback, levin, send
<1>2. CASE TimerHandler \/ ReadHandler \/ HandshakeHandler \/ WriteHandler \/ ShutdownHandler
  BY <1>2, QuietSame, Zenon
     DEF TimerHandler, ReadHandler, HandshakeHandler, WriteHandler, ShutdownHandler, levin, send
<1>3. CASE \E op \in {"in", "out"} : ThrottleHandler(op)
  BY <1>3, QuietSame, Zenon DEF ThrottleHandler, levin, send
<1>4. CASE \E t \in Threads : Sending(t)
  BY <1>4, SendTells, Zenon
<1>5. CASE \E c \in Calls : Invoke(c) \/ LockHandlers(c) \/ AddHandler(c) \/ Expire(c) \/ TimedOut(c)
  BY <1>5, CallTells, Zenon
<1>6. CASE Drop \/ Close \/ Received \/ PeerAnswers \/ ReleaseProtocol \/ Released
  BY <1>6, QuietSame, Zenon DEF Drop, Close, Received, PeerAnswers, ReleaseProtocol, Released, levin, send
<1>7. CASE HandleRecv \/ CancelCall
  BY <1>7, HandleRecvTells, CancelCallTells, Zenon
<1>8. CASE UNCHANGED vars
  BY <1>8, QuietSame, Zenon DEF vars, levin, send
<1> QED
  BY <1>1, <1>2, <1>3, <1>4, <1>5, <1>6, <1>7, <1>8, Zenon DEF Next

\* Outcome, for what CallInv leaves open.
Told(p, r) ==
  CASE p = "idle" -> "not made"
    [] p = "refused" -> "refused"
    [] p \notin {"idle", "refused"} /\ r = <<>> -> "pending"
    [] p \notin {"idle", "refused"} /\ r = <<"answered">> -> "answered"
    [] OTHER -> "failed"

Accepted(p) == p \notin {"idle", "refused"}

LEMMA ToldIs ==
  ASSUME NEW r
  PROVE  /\ Told("idle", r) = "not made" /\ Told("refused", r) = "refused"
         /\ \A p : Accepted(p) /\ r = <<>> => Told(p, r) = "pending"
         /\ \A p : Accepted(p) /\ r = <<"answered">> => Told(p, r) = "answered"
         /\ \A p : Accepted(p) /\ r = <<"failed">> => Told(p, r) = "failed"
<1>1. <<>> # <<"answered">> /\ <<>> # <<"failed">> /\ <<"answered">> # <<"failed">>
  OBVIOUS
<1>2. Told("idle", r) = "not made" /\ Told("refused", r) = "refused"
  BY DEF Told
<1>3. ASSUME NEW p, Accepted(p)
      PROVE  /\ r = <<>> => Told(p, r) = "pending"
             /\ r = <<"answered">> => Told(p, r) = "answered"
             /\ r = <<"failed">> => Told(p, r) = "failed"
  BY <1>1, <1>3 DEF Told, Accepted
<1> QED
  BY <1>2, <1>3, Zenon

LEMMA ToldSame ==
  ASSUME NEW p, NEW q, NEW r, Accepted(p), Accepted(q), r \in {<<>>, <<"answered">>, <<"failed">>}
  PROVE  Told(p, r) = Told(q, r)
<1>1. CASE r = <<>>
  BY <1>1, ToldIs, Zenon
<1>2. CASE r = <<"answered">>
  BY <1>2, ToldIs, Zenon
<1>3. CASE r = <<"failed">>
  BY <1>3, ToldIs, Zenon
<1> QED
  BY <1>1, <1>2, <1>3, Zenon

AllTold == \A c \in Calls : Outcome(c) = Told(pc[c], results[c])

LEMMA OutcomesTold == IInv => AllTold
<1> SUFFICES ASSUME IInv, NEW c \in Calls PROVE Outcome(c) = Told(pc[c], results[c])
  BY Zenon DEF AllTold
<1>1. PICK r \in {<<>>, <<"answered">>, <<"failed">>} : r = results[c]
  BY Zenon DEF IInv, CallsInv, CallInv
<1>2. CallInv(c)
  BY Zenon DEF IInv, CallsInv
<1>3. pc[c] \in {"idle", "refused"} => r = <<>>
  BY <1>1, <1>2 DEF CallInv
<1>4. /\ r = <<>> => Len(r) = 0
      /\ r = <<"answered">> => Len(r) = 1 /\ r[1] = "answered"
      /\ r = <<"failed">> => Len(r) = 1 /\ r[1] = "failed"
  OBVIOUS
<1>5. CASE pc[c] = "idle"
  <2>1. pc[c] \in {"idle"} /\ pc[c] # "refused" /\ Len(results[c]) = 0
    BY <1>1, <1>3, <1>4, <1>5
  <2>2. ~ (Len(results[c]) = 1) /\ ~ (Len(results[c]) > 1)
    BY <2>1
  <2>3. Outcome(c) = "not made"
    BY <2>1, <2>2, Zenon DEF Outcome
  <2> QED
    BY <1>5, <2>3, ToldIs, Zenon
<1>6. CASE pc[c] = "refused"
  <2>1. Outcome(c) = "refused"
    BY <1>1, <1>3, <1>4, <1>6 DEF Outcome
  <2> QED
    BY <1>6, <2>1, ToldIs, Zenon
<1>7. CASE pc[c] \notin {"idle", "refused"}
  <2>1. r = <<>> => Outcome(c) = "pending"
    BY <1>1, <1>4, <1>7 DEF Outcome
  <2>2. r = <<"answered">> => Outcome(c) = "answered"
    BY <1>1, <1>4, <1>7 DEF Outcome
  <2>3. r = <<"failed">> => Outcome(c) = "failed"
    BY <1>1, <1>4, <1>7 DEF Outcome
  <2>4. Accepted(pc[c])
    BY <1>7, Zenon DEF Accepted
  <2>5. Outcome(c) = Told(pc[c], r)
    <3>1. CASE r = <<>>
      BY <2>1, <2>4, <3>1, ToldIs, Zenon
    <3>2. CASE r = <<"answered">>
      BY <2>2, <2>4, <3>2, ToldIs, Zenon
    <3>3. CASE r = <<"failed">>
      BY <2>3, <2>4, <3>3, ToldIs, Zenon
    <3> QED
      BY <3>1, <3>2, <3>3, Zenon
  <2> QED
    BY <1>1, <2>5, Zenon
<1> QED
  BY <1>5, <1>6, <1>7, Zenon

\* What a caller learns by a callback.
Learnt(p, r, p2, r2) == Told(p, r) = "pending" /\ Told(p2, r2) \in {"answered", "failed"}

LEMMA Learns ==
  ASSUME NEW p, NEW r, NEW p2, NEW r2, NEW x, Accepted(p), Accepted(p2),
         r \in {<<>>, <<"answered">>, <<"failed">>}, r2 \in {<<>>, <<"answered">>, <<"failed">>},
         r2 = Append(r, x)
  PROVE  Learnt(p, r, p2, r2)
<1>1. r = <<>>
  BY SMT
<1>2. r2 = <<"answered">> \/ r2 = <<"failed">>
  <2>1. Len(r2) = 1
    BY <1>1
  <2> QED
    BY <2>1
<1> QED
  BY <1>1, <1>2, ToldIs, Zenon DEF Learnt

LEMMA CallsStep ==
  ASSUME IInv, [Next]_vars
  PROVE  \/ \A d \in Calls : Outcome(d)' = Outcome(d)
         \/ \E c \in Calls : /\ \A d \in Calls \ {c} : Outcome(d)' = Outcome(d)
                             /\ \/ Outcome(c) = "not made" /\ Outcome(c)' \in {"pending", "refused"}
                                \/ Outcome(c) = "pending" /\ Outcome(c)' \in {"answered", "failed"}
<1>1. IInv'
  BY NextInv, Zenon
<1>2. \A d \in Calls : Outcome(d) = Told(pc[d], results[d])
  BY OutcomesTold, Zenon DEF AllTold
<1>3. \A d \in Calls : Outcome(d)' = Told(pc'[d], results'[d])
  <2>1. AllTold'
    BY <1>1, OutcomesTold, PTL
  <2> QED
    BY <2>1, Zenon DEF AllTold
<1>4. ASSUME NEW d \in Calls, Unaware(d) PROVE Outcome(d)' = Outcome(d)
  <2>1. CASE pc[d] \in {"idle", "refused"}
    <3>1. pc'[d] = pc[d] /\ results'[d] = results[d]
      BY <1>4, <2>1, Zenon DEF Unaware
    <3> QED
      BY <1>2, <1>3, <3>1, Zenon
  <2>2. CASE pc[d] \notin {"idle", "refused"}
    <3>1. results'[d] = results[d] /\ pc'[d] \notin {"idle", "refused"}
      BY <1>4, <2>2, Zenon DEF Unaware
    <3>2. results[d] \in {<<>>, <<"answered">>, <<"failed">>}
      BY Zenon DEF IInv, CallsInv, CallInv
    <3>3. Told(pc'[d], results[d]) = Told(pc[d], results[d])
      <4>1. Accepted(pc[d]) /\ Accepted(pc'[d])
        BY <2>2, <3>1, Zenon DEF Accepted
      <4> QED
        BY <3>2, <4>1, ToldSame, Zenon
    <3> QED
      BY <1>2, <1>3, <3>1, <3>3, Zenon
  <2> QED
    BY <2>1, <2>2, Zenon
<1>5. CASE Quiet
  BY <1>4, <1>5, Zenon DEF Quiet
<1>6. ASSUME NEW c \in Calls, Tells(c), ~ Unaware(c)
      PROVE  /\ \A d \in Calls \ {c} : Outcome(d)' = Outcome(d)
             /\ \/ Outcome(c) = "not made" /\ Outcome(c)' \in {"pending", "refused"}
                \/ Outcome(c) = "pending" /\ Outcome(c)' \in {"answered", "failed"}
  <2>1. \A d \in Calls \ {c} : Outcome(d)' = Outcome(d)
    BY <1>4, <1>6, Zenon DEF Tells
  <2>2. CallInv(c) /\ results'[c] \in {<<>>, <<"answered">>, <<"failed">>}
    BY <1>1, Zenon DEF IInv, CallsInv, CallInv
  <2>3. CASE Made(c)
    <3>1. pc[c] = "idle" /\ results'[c] = results[c] /\ results[c] = <<>>
      BY <2>2, <2>3 DEF Made, CallInv
    <3>2. Told(pc[c], results[c]) = "not made"
      BY <3>1, ToldIs, Zenon
    <3>3. pc'[c] = "refused" \/ pc'[c] \notin {"idle", "refused"}
      BY <2>3 DEF Made
    <3>4. Told(pc'[c], results'[c]) \in {"pending", "refused"}
      <4>1. CASE pc'[c] = "refused"
        BY <4>1, ToldIs, Zenon
      <4>2. CASE Accepted(pc'[c])
        <5>1. Told(pc'[c], results'[c]) = "pending"
          BY <3>1, <4>2, ToldIs, Zenon
        <5> QED
          BY <5>1, Zenon
      <4> QED
        BY <3>3, <4>1, <4>2, Zenon DEF Accepted
    <3> QED
      BY <1>2, <1>3, <2>1, <3>2, <3>4, Zenon
  <2>4. CASE CalledBack(c)
    <3>0. Accepted(pc[c]) /\ Accepted(pc'[c])
      BY <2>4, Zenon DEF CalledBack, Accepted
    <3>1. PICK r, r2, x : r = results[c] /\ r2 = results'[c] /\ r2 = Append(r, x)
      BY <2>4, Zenon DEF CalledBack
    <3>2. r \in {<<>>, <<"answered">>, <<"failed">>} /\ r2 \in {<<>>, <<"answered">>, <<"failed">>}
      BY <2>2, <3>1, Zenon DEF CallInv
    <3>3. Learnt(pc[c], r, pc'[c], r2)
      BY <3>0, <3>1, <3>2, Learns, Zenon
    <3> QED
      BY <1>2, <1>3, <2>1, <3>1, <3>3, Zenon DEF Learnt
  <2> QED
    BY <1>6, <2>3, <2>4, Zenon DEF Tells
<1>7. CASE \E c \in Calls : Tells(c)
  <2>1. PICK c \in Calls : Tells(c)
    BY <1>7, Zenon
  <2>2. CASE Unaware(c)
    BY <1>5, <2>1, <2>2, Zenon DEF Tells, Quiet
  <2>3. CASE ~ Unaware(c)
    BY <1>6, <2>1, <2>3, Zenon
  <2> QED
    BY <2>2, <2>3, Zenon
<1> QED
  BY <1>5, <1>7, NextTells, Zenon

LEMMA AsyncStep ==
  ASSUME IInv, [Next]_vars
  PROVE  [AC!Next]_([c \in Calls |-> Outcome(c)])
<1> DEFINE o == [c \in Calls |-> Outcome(c)]
<1>1. CASE \A d \in Calls : Outcome(d)' = Outcome(d)
  <2>1. o' = o
    BY <1>1
  <2> QED
    BY <2>1, Zenon
<1>2. ASSUME NEW c \in Calls, \A d \in Calls \ {c} : Outcome(d)' = Outcome(d),
             \/ Outcome(c) = "not made" /\ Outcome(c)' \in {"pending", "refused"}
             \/ Outcome(c) = "pending" /\ Outcome(c)' \in {"answered", "failed"}
      PROVE  AC!Next
  <2>1. o' = [o EXCEPT ![c] = Outcome(c)'] /\ o[c] = Outcome(c)
    BY <1>2
  <2> QED
    BY <1>2, <2>1, Zenon DEF AC!Next, AC!Accept, AC!Refuse, AC!Answer, AC!Fail
<1> QED
  BY <1>1, <1>2, CallsStep, Zenon

\* async_invoke, but for the callback coming at all: whatever the order of answers, timeouts and
\* closing, a call is refused or accepted once, and an accepted one is called back at most once,
\* with the answer to that very call or with an error; a step never calls back two calls.
THEOREM CalledBackOnce == Spec => AC!Safety
<1>1. Init => AC!Init
  <2>1. Init => [c \in Calls |-> Outcome(c)] = [c \in Calls |-> "not made"]
    <3> SUFFICES ASSUME Init PROVE \A c \in Calls : Outcome(c) = "not made"
      BY Zenon
    <3>1. \A c \in Calls : Outcome(c) = Told(pc[c], results[c])
      BY InitInv, OutcomesTold, Zenon DEF AllTold
    <3>2. \A c \in Calls : pc[c] = "idle"
      BY NotReply DEF Init
    <3> QED
      BY <3>1, <3>2, ToldIs, Zenon
  <2> QED
    BY <2>1, Zenon DEF AC!Init
<1>2. IInv /\ [Next]_vars => [AC!Next]_([c \in Calls |-> Outcome(c)])
  BY AsyncStep, Zenon
<1> QED
  BY <1>1, <1>2, Inductive, PTL DEF Spec, AC!Safety

=============================================================================
