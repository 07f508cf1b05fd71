----------------------- MODULE LevinConnectionInvariant -----------------------
(***************************************************************************)
(* The inductive invariant of a connection and the calls over it, and the  *)
(* steps that leave the send queue alone or take from it: the handlers of  *)
(* the connection, the calls, and handle_recv.                             *)
(***************************************************************************)
EXTENDS LevinConnection, TLAPS

----------------------------------------------------------------------------
(* The state of the connection. *)

Open == {"TERMINATED", "RUNNING"}

Closing == {"INTERRUPTED", "TERMINATING"}

Fields ==
  {"type", "ssl", "pauses", "status", "connected", "wait", "cancel", "reset", "handle_read", "queue",
   "wait_consume", "asleep", "wait_init", "wait_callback", "wait_release", "released"}

\* What each of the functions under the lock keeps.  Once the connection is closing, everything
\* that is under way was told to stop, except what the closing itself has started.
Core(s) ==
  /\ DOMAIN s = Fields /\ s.status \in Open \cup Closing \cup {"WASTED"}
  /\ s.queue \in Seq(Threads \X Nat) /\ s.wait_callback \in Nat
  /\ s.handle_read \in BOOLEAN /\ s.wait_release \in BOOLEAN
  /\ s.cancel \subseteq s.wait
  /\ s.reset => "timer" \in s.cancel
  /\ s.status \notin Open => s.wait \subseteq s.cancel \cup {"timer", "shutdown"}
  /\ s.status = "TERMINATING" => s.wait \subseteq s.cancel /\ ~ s.reset
  /\ s.status = "TERMINATED" =>
       /\ s.wait = {} /\ s.wait_callback = 0
       /\ ~ s.handle_read /\ ~ s.wait_init /\ ~ s.wait_consume
  /\ s.wait_release => s.status \notin Open
  /\ "write" \in s.wait => s.queue # <<>>
  /\ "read" \in s.wait => ~ s.handle_read
  /\ s.wait_init => ~ s.handle_read /\ s.wait \cap {"in", "read", "handshake"} = {}

\* What a handler has to see to before it ends: the timer of a connection that runs will go off,
\* and something will call on_closing again for one that is closing.
Watched(s) ==
  /\ s.status = "RUNNING" => "timer" \in s.wait /\ ("timer" \in s.cancel => s.reset)
  /\ s.status \in Closing => Busy(s)

TcpInv ==
  /\ Core(tcp) /\ Watched(tcp)
  /\ tcp.wait_release <=> release.stage # "none"

----------------------------------------------------------------------------
(* The calls. *)

Holding == {"send", "sender", "consume", "sent"}

IsDistinct(s) == \A i, j \in 1 .. Len(s) : s[i] = s[j] => i = j

\* handle_read is set from the time handle_recv is posted until it has returned.
RecvInv ==
  /\ recv \in {"idle", "posted", "reply", "ok", "fail"}
  /\ tcp.handle_read <=> recv # "idle"
  /\ pc["reply"] \in {"idle", "send", "sender", "consume", "done"}
  /\ pc["reply"] \in {"send", "sender", "consume"} <=> recv = "reply"

\* A call takes the lock of the handlers alone.
GuardInv ==
  /\ guard \subseteq Calls
  /\ \A c \in Calls : c \in guard <=> pc[c] \in Holding
  /\ \A c, d \in guard : c = d

\* A call that was sent and not called back has a timer that did not call back yet.
CallInv(c) ==
  /\ pc[c] \in Holding \cup {"idle", "refused", "found", "done"}
  /\ timer[c] \in {"off", "armed", "expired"} /\ timer_cancelled[c] \in {"no", "yes", "late"}
  /\ results[c] \in {<<>>, <<"answered">>, <<"failed">>}
  /\ pc[c] # "done" => timer[c] = "off" /\ timer_cancelled[c] = "no" /\ results[c] = <<>>
  /\ pc[c] = "done" => (timer[c] = "off" <=> results[c] # <<>>)
  /\ timer_cancelled[c] = "late" => timer[c] # "armed"

\* A handler in m_invoke_response_handlers, or taken out by release_protocol: its call was sent,
\* and its timer was not cancelled.
Kept(s, p, tc) ==
  /\ s \in Seq(Calls) /\ IsDistinct(s)
  /\ \A i \in 1 .. Len(s) : p[s[i]] = "done" /\ tc[s[i]] # "yes"

ReleaseInv ==
  /\ DOMAIN release = {"stage", "todo", "unlist", "finish"}
  /\ release.stage # "cancel" => release.todo = <<>>
  /\ release.stage = "cancel" => proto_released
  /\ proto_released \in BOOLEAN
  /\ proto_released => handlers = <<>> /\ tcp.status \notin Open /\ \A c \in Calls : pc[c] # "sent"

CallsInv ==
  /\ DOMAIN pc = Threads /\ DOMAIN timer = Calls /\ DOMAIN timer_cancelled = Calls /\ DOMAIN results = Calls
  /\ \A c \in Calls : CallInv(c)
  /\ Kept(handlers, pc, timer_cancelled) /\ Kept(release.todo, pc, timer_cancelled)
  /\ RecvInv /\ GuardInv /\ ReleaseInv

----------------------------------------------------------------------------
(* The chunks of the messages. *)

Follows(x, y) == IF x[2] < Size(x[1]) THEN y = <<x[1], x[2] + 1>> ELSE y[2] = 1

\* The chunks q follow each other, and the chunk w.
InOrder(w, q) ==
  /\ Len(q) > 0 => Follows(w, q[1])
  /\ \A i \in 1 .. Len(q) - 1 : Follows(q[i], q[i + 1])

\* The last chunk sent or queued.
End(w, q) == IF Len(q) = 0 THEN w ELSE q[Len(q)]

\* x is the last chunk queued, and only a sender in wait_consume may have more to come after it.
Goes(x, p, l, waits) ==
  /\ \A t \in Threads : p[t] = "consume" =>
       /\ waits
       /\ l[t] < Size(t) => x = <<t, Size(t) - l[t]>>
       /\ \A u \in Threads : p[u] = "consume" => u = t
  /\ x[2] < Size(x[1]) => p[x[1]] = "consume" /\ l[x[1]] = Size(x[1]) - x[2]

LeftInv ==
  /\ left \in [Threads -> Nat]
  /\ \A t \in Threads : pc[t] \in {"send", "sender", "consume"} => left[t] \in 1 .. Size(t)
  /\ \A t \in Threads : pc[t] \in {"send", "sender"} => left[t] = Size(t)
  /\ \A c \in Calls : pc[c] \in {"idle", "found"} => left[c] = Size(c)

ChunkInv ==
  /\ wire \in Threads \X Nat /\ torn \in BOOLEAN /\ drop \in {"no", "posted", "done"}
  /\ LeftInv
  /\ tcp.status \in Open /\ drop = "no" =>
       InOrder(wire, tcp.queue) /\ Goes(End(wire, tcp.queue), pc, left, tcp.wait_consume)
  /\ ChunksTogether

----------------------------------------------------------------------------
(* Answers and calls. *)

LastChunk(c) == <<c, Chunks[c]>>

\* What the peer has answered or will answer, in this order.
Answers == inbox \o peer

\* The calls that wait for an answer, in order; one that was just sent comes next.
WaitingAt(p, h) ==
  IF \E c \in Calls : p[c] = "sent" THEN Append(h, CHOOSE c \in Calls : p[c] = "sent") ELSE h

Waiting == WaitingAt(pc, handlers)

\* The answers a are those to the first calls of w.
Agree(a, w) ==
  /\ Len(a) <= Len(w)
  /\ \A i \in 1 .. Len(a) : a[i] = w[i]

\* The last chunks of the other calls of w are in the queue q, there are no others, and they are in
\* the order of the calls.
EachQueued(a, w, q) ==
  \A i \in Len(a) + 1 .. Len(w) : \E j \in 1 .. Len(q) : q[j] = LastChunk(w[i])

NoOther(a, w, q) ==
  \A j \in 1 .. Len(q) : \A c \in Calls :
    q[j] = LastChunk(c) => \E i \in Len(a) + 1 .. Len(w) : w[i] = c

SameOrder(a, w, q) ==
  \A i, k \in Len(a) + 1 .. Len(w) : \A j, l \in 1 .. Len(q) :
    i <= k /\ q[j] = LastChunk(w[i]) /\ q[l] = LastChunk(w[k]) => j <= l

Queued(a, w, q) == EachQueued(a, w, q) /\ NoOther(a, w, q) /\ SameOrder(a, w, q)

\* An answer came too late for the first call: no answer is taken any more.
Late == handlers # <<>> /\ timer_cancelled[handlers[1]] = "late"

MatchInv ==
  /\ inbox \in Seq(Calls) /\ peer \in Seq(Calls)
  /\ Late \/ proto_released \/ Agree(Answers, Waiting)
  /\ tcp.status \in Open /\ ~ torn /\ ~ Late => Queued(Answers, Waiting, tcp.queue)

----------------------------------------------------------------------------

IInv == TcpInv /\ CallsInv /\ ChunkInv /\ MatchInv

----------------------------------------------------------------------------
(* What a step leaves alone. *)

\* What the rest of the state depends on: the queue and its senders are left alone, a connection
\* that was closed is not opened again, and release_protocol is not called off.
Moves(s, r) ==
  /\ r.queue = s.queue /\ r.wait_consume = s.wait_consume
  /\ r.status \in Open => r.status = s.status
  /\ s.wait_release => r.wait_release

Sound(s, r) == Core(r) /\ Watched(r) /\ Moves(s, r) /\ r.handle_read = s.handle_read

\* What a handler of the connection leaves of the calls.
calls == <<guard, handlers, proto_released, timer, timer_cancelled, results>>

ReleaseStarts ==
  IF tcp'.wait_release /\ ~ tcp.wait_release
  THEN DOMAIN release' = {"stage", "todo", "unlist", "finish"} /\ release'.stage = "lock" /\ release'.todo = <<>>
  ELSE release' = release

Forward ==
  /\ Core(tcp') /\ Watched(tcp') /\ ReleaseStarts
  /\ tcp'.status \in Open => tcp'.status = tcp.status
  /\ tcp.wait_release => tcp'.wait_release

Steps == Core(tcp') /\ Watched(tcp') /\ Moves(tcp, tcp') /\ ReleaseStarts

LEMMA TcpKept ==
  ASSUME TcpInv, Forward
  PROVE  TcpInv'
<1>1. tcp.wait_release \in BOOLEAN /\ tcp'.wait_release \in BOOLEAN
  BY Zenon DEF TcpInv, Forward, Core
<1>2. tcp'.wait_release <=> release'.stage # "none"
  BY <1>1 DEF TcpInv, Forward, ReleaseStarts
<1> QED
  BY <1>2, Zenon DEF TcpInv, Forward

LEMMA ReleaseKept ==
  ASSUME TcpInv, ReleaseInv, Kept(release.todo, pc, timer_cancelled), Forward, UNCHANGED <<handlers, proto_released, pc, timer_cancelled>>
  PROVE  ReleaseInv' /\ Kept(release.todo, pc, timer_cancelled)'
<1>1. proto_released => tcp'.status \notin Open
  BY Zenon DEF ReleaseInv, Forward
<1>2. CASE release' = release
  BY <1>1, <1>2, Zenon DEF ReleaseInv, Kept
<1>3. CASE release' # release
  <2>1. DOMAIN release' = {"stage", "todo", "unlist", "finish"} /\ release'.stage = "lock" /\ release'.todo = <<>>
    BY <1>3, Zenon DEF Forward, ReleaseStarts
  <2>2. ReleaseInv'
    BY <1>1, <2>1 DEF ReleaseInv
  <2>3. Kept(release.todo, pc, timer_cancelled)'
    BY <2>1 DEF Kept, IsDistinct
  <2> QED
    BY <2>2, <2>3, Zenon
<1> QED
  BY <1>2, <1>3, Zenon

LEMMA CallsKept ==
  ASSUME TcpInv, CallsInv, Forward, RecvInv', UNCHANGED <<calls, pc>>
  PROVE  CallsInv'
<1>1. ReleaseInv' /\ Kept(release.todo, pc, timer_cancelled)'
  BY ReleaseKept, Zenon DEF CallsInv, calls
<1>2. Kept(handlers, pc, timer_cancelled)' /\ GuardInv' /\ \A c \in Calls : CallInv(c)'
  BY Zenon DEF CallsInv, calls, Kept, GuardInv, CallInv
<1> QED
  BY <1>1, <1>2, Zenon DEF CallsInv, calls

LEMMA EndIs ==
  ASSUME NEW w \in Threads \X Nat, NEW q \in Seq(Threads \X Nat)
  PROVE  /\ End(w, q) \in Threads \X Nat /\ End(w, q) = <<End(w, q)[1], End(w, q)[2]>>
         /\ End(w, q)[1] \in Threads /\ End(w, q)[2] \in Nat
<1>1. End(w, q) \in Threads \X Nat
  BY DEF End
<1> QED
  BY <1>1

\* The same senders are in wait_consume.
SameWaits(p, l, p2, l2) ==
  \A t \in Threads : p2[t] = "consume" \/ p[t] = "consume" => p2[t] = p[t] /\ l2[t] = l[t]

LEMMA GoesOn ==
  ASSUME NEW x, x[1] \in Threads, NEW p, NEW l, NEW waits, Goes(x, p, l, waits), NEW p2, NEW l2,
         SameWaits(p, l, p2, l2)
  PROVE  Goes(x, p2, l2, waits)
<1>1. ASSUME NEW t \in Threads, p2[t] = "consume"
      PROVE  /\ waits
             /\ l2[t] < Size(t) => x = <<t, Size(t) - l2[t]>>
             /\ \A u \in Threads : p2[u] = "consume" => u = t
  BY <1>1, Zenon DEF Goes, SameWaits
<1>2. x[2] < Size(x[1]) => p2[x[1]] = "consume" /\ l2[x[1]] = Size(x[1]) - x[2]
  BY Zenon DEF Goes, SameWaits
<1> QED
  BY <1>1, <1>2, Zenon DEF Goes, SameWaits

\* The queue is as it was, or the connection is closed and it does not matter.
LEMMA ChunkKept ==
  ASSUME Core(tcp), ChunkInv, Moves(tcp, tcp'), UNCHANGED <<wire, torn>>, LeftInv',
         SameWaits(pc, left, pc', left'),
         drop' = drop \/ (drop = "posted" /\ drop' = "done")
  PROVE  ChunkInv'
<1>1. ASSUME tcp'.status \in Open, drop' = "no"
      PROVE  InOrder(wire, tcp.queue)' /\ Goes(End(wire, tcp.queue), pc, left, tcp.wait_consume)'
  <2>1. InOrder(wire, tcp.queue) /\ Goes(End(wire, tcp.queue), pc, left, tcp.wait_consume)
    BY <1>1 DEF ChunkInv, Moves
  <2>2. tcp'.queue = tcp.queue /\ tcp'.wait_consume = tcp.wait_consume
    BY Zenon DEF Moves
  <2>3. End(wire, tcp.queue)[1] \in Threads
    BY EndIs, Zenon DEF Core, ChunkInv
  <2>4. Goes(End(wire, tcp.queue), pc', left', tcp.wait_consume)
    BY <2>1, <2>3, GoesOn, Zenon
  <2>5. wire' = wire
    OBVIOUS
  <2> QED
    BY <2>1, <2>2, <2>4, <2>5
<1>2. ChunksTogether' /\ drop' \in {"no", "posted", "done"}
  BY DEF ChunkInv, ChunksTogether
<1> QED
  BY <1>1, <1>2, Zenon DEF ChunkInv

SentAlone(p) == \A c, d \in Calls : p[c] = "sent" /\ p[d] = "sent" => c = d

LEMMA WaitingIs ==
  ASSUME NEW p, NEW h, SentAlone(p)
  PROVE  /\ \A c \in Calls : p[c] = "sent" => WaitingAt(p, h) = Append(h, c)
         /\ (\A c \in Calls : p[c] # "sent") => WaitingAt(p, h) = h
<1>1. ASSUME NEW c \in Calls, p[c] = "sent" PROVE WaitingAt(p, h) = Append(h, c)
  <2>1. (CHOOSE d \in Calls : p[d] = "sent") = c
    BY <1>1 DEF SentAlone
  <2> QED
    BY <1>1, <2>1, Zenon DEF WaitingAt
<1>2. (\A c \in Calls : p[c] # "sent") => WaitingAt(p, h) = h
  BY Zenon DEF WaitingAt
<1> QED
  BY <1>1, <1>2, Zenon

LEMMA WaitingSame ==
  ASSUME NEW p, NEW h, NEW q, SentAlone(p), \A c \in Calls : p[c] = "sent" <=> q[c] = "sent"
  PROVE  WaitingAt(q, h) = WaitingAt(p, h)
<1>1. SentAlone(q)
  BY Zenon DEF SentAlone
<1>2. CASE \A c \in Calls : p[c] # "sent"
  <2>1. WaitingAt(p, h) = h
    BY <1>2, WaitingIs, Zenon
  <2>2. WaitingAt(q, h) = h
    BY <1>1, <1>2, WaitingIs, Zenon
  <2> QED
    BY <2>1, <2>2, Zenon
<1>3. CASE \E c \in Calls : p[c] = "sent"
  <2>1. PICK c \in Calls : p[c] = "sent"
    BY <1>3, Zenon
  <2>2. WaitingAt(p, h) = Append(h, c)
    BY <2>1, WaitingIs, Zenon
  <2>3. WaitingAt(q, h) = Append(h, c)
    BY <1>1, <2>1, WaitingIs, Zenon
  <2> QED
    BY <2>2, <2>3, Zenon
<1> QED
  BY <1>2, <1>3, Zenon

LEMMA OneSends ==
  ASSUME GuardInv
  PROVE  SentAlone(pc)
  BY Zenon DEF GuardInv, SentAlone, Holding

LEMMA MatchKept ==
  ASSUME MatchInv, GuardInv, Moves(tcp, tcp'), UNCHANGED <<inbox, peer, handlers, proto_released, torn>>,
         Late' <=> Late, \A c \in Calls : pc[c] = "sent" <=> pc'[c] = "sent"
  PROVE  MatchInv'
<1>1. SentAlone(pc)
  BY OneSends, Zenon
<1>2. WaitingAt(pc', handlers) = WaitingAt(pc, handlers)
  BY <1>1, WaitingSame, Zenon
<1>3. Answers' = Answers /\ Waiting' = Waiting
  BY <1>2, Zenon DEF Answers, Waiting
<1>4. tcp'.queue = tcp.queue /\ (tcp'.status \in Open => tcp.status \in Open)
  BY Zenon DEF Moves
<1> QED
  BY <1>3, <1>4, Zenon DEF MatchInv

LEMMA HandlerKept ==
  ASSUME IInv, Steps, RecvInv', UNCHANGED <<calls, pc, left, net>>,
         drop' = drop \/ (drop = "posted" /\ drop' = "done")
  PROVE  IInv'
<1>0. Forward
  BY Zenon DEF Steps, Moves, Forward
<1>1. TcpInv'
  BY <1>0, TcpKept, Zenon DEF IInv
<1>2. CallsInv'
  BY <1>0, CallsKept, Zenon DEF IInv
<1>3. LeftInv'
  BY Zenon DEF IInv, ChunkInv, LeftInv
<1>4. ChunkInv'
  BY <1>3, ChunkKept, Zenon DEF IInv, TcpInv, Steps, net, SameWaits
<1>5. Late' <=> Late
  BY Zenon DEF Late, calls
<1>6. MatchInv'
  BY <1>5, MatchKept, Zenon DEF IInv, CallsInv, Steps, net, calls
<1> QED
  BY <1>1, <1>2, <1>4, <1>6, Zenon DEF IInv

\* Only the call c changes.
Only(c) ==
  /\ DOMAIN pc' = Threads /\ DOMAIN timer' = Calls /\ DOMAIN timer_cancelled' = Calls /\ DOMAIN results' = Calls
  /\ \A t \in Threads \ {c} : pc'[t] = pc[t]
  /\ \A d \in Calls \ {c} :
       timer'[d] = timer[d] /\ timer_cancelled'[d] = timer_cancelled[d] /\ results'[d] = results[d]

LEMMA NotReply == \A c \in Calls : c # "reply" /\ c \in Threads
  BY ConnectionAssumption, Zenon DEF Threads

\* The parts of the invariant about the calls.
LEMMA CallsMove ==
  ASSUME CallsInv, NEW c \in Calls, Only(c), CallInv(c)', GuardInv', Kept(handlers, pc, timer_cancelled)',
         Kept(release.todo, pc, timer_cancelled)', ReleaseInv', RecvInv'
  PROVE  CallsInv'
<1>1. ASSUME NEW d \in Calls PROVE CallInv(d)'
  <2>1. CASE d = c
    BY <2>1, Zenon
  <2>2. CASE d # c
    <3>1. pc'[d] = pc[d] /\ timer'[d] = timer[d] /\ timer_cancelled'[d] = timer_cancelled[d] /\ results'[d] = results[d]
      BY <2>2, NotReply, Zenon DEF Only
    <3> QED
      BY <3>1, Zenon DEF CallInv, CallsInv
  <2> QED
    BY <2>1, <2>2, Zenon
<1> QED
  BY <1>1, Zenon DEF CallsInv, Only

\* handle_recv does not notice.
LEMMA RecvAside ==
  ASSUME CallsInv, NEW c \in Calls, Only(c), tcp'.handle_read = tcp.handle_read, recv' = recv
  PROVE  RecvInv'
<1>1. pc'["reply"] = pc["reply"]
  BY NotReply, Zenon DEF Only, Threads
<1> QED
  BY <1>1, Zenon DEF CallsInv, RecvInv

\* The calls with a handler are others, or c is still one.
LEMMA KeptStays ==
  ASSUME NEW c \in Calls, Only(c), NEW s, Kept(s, pc, timer_cancelled),
         (\A i \in 1 .. Len(s) : s[i] # c) \/ (pc'[c] = "done" /\ timer_cancelled'[c] # "yes")
  PROVE  Kept(s, pc', timer_cancelled')
<1>1. ASSUME NEW i \in 1 .. Len(s) PROVE pc'[s[i]] = "done" /\ timer_cancelled'[s[i]] # "yes"
  <2>1. s[i] \in Calls
    BY DEF Kept
  <2>2. CASE s[i] = c
    BY <2>2, Zenon
  <2>3. CASE s[i] # c
    BY <2>1, <2>3, NotReply, Zenon DEF Only, Kept
  <2> QED
    BY <2>2, <2>3, Zenon
<1> QED
  BY <1>1, Zenon DEF Kept

\* A call without a handler.
LEMMA NotKept ==
  ASSUME NEW c, NEW s, Kept(s, pc, timer_cancelled), pc[c] # "done"
  PROVE  \A i \in 1 .. Len(s) : s[i] # c
  BY Zenon DEF Kept

LEMMA KeptOthers ==
  ASSUME CallsInv, NEW c \in Calls, Only(c), UNCHANGED <<handlers, release>>,
         pc[c] # "done" \/ (pc'[c] = "done" /\ timer_cancelled'[c] # "yes")
  PROVE  Kept(handlers, pc, timer_cancelled)' /\ Kept(release.todo, pc, timer_cancelled)'
<1>1. ASSUME NEW s, Kept(s, pc, timer_cancelled) PROVE Kept(s, pc', timer_cancelled')
  <2>1. (\A i \in 1 .. Len(s) : s[i] # c) \/ (pc'[c] = "done" /\ timer_cancelled'[c] # "yes")
    BY <1>1, NotKept, Zenon
  <2> QED
    BY <1>1, <2>1, KeptStays, Zenon
<1>2. Kept(handlers, pc', timer_cancelled')
  BY <1>1, Zenon DEF CallsInv
<1>3. Kept(release.todo, pc', timer_cancelled')
  BY <1>1, Zenon DEF CallsInv
<1> QED
  BY <1>2, <1>3

\* Nothing changes for the calls: handle_recv may answer a command.
LEMMA CallsAside ==
  ASSUME CallsInv, DOMAIN pc' = Threads, \A c \in Calls : pc'[c] = pc[c], UNCHANGED <<calls, release>>,
         tcp'.status = tcp.status, RecvInv'
  PROVE  CallsInv'
<1>1. \A c \in Calls : CallInv(c)'
  BY Zenon DEF CallsInv, CallInv, calls
<1>2. ASSUME NEW s, Kept(s, pc, timer_cancelled) PROVE Kept(s, pc', timer_cancelled')
  <2>1. \A i \in 1 .. Len(s) : s[i] \in Calls
    BY <1>2 DEF Kept
  <2> QED
    BY <1>2, <2>1, Zenon DEF Kept, calls
<1>3. Kept(handlers, pc', timer_cancelled') /\ Kept(release.todo, pc', timer_cancelled')
  BY <1>2, Zenon DEF CallsInv
<1>4. Kept(handlers, pc, timer_cancelled)' /\ Kept(release.todo, pc, timer_cancelled)'
  BY <1>3, Zenon DEF calls
<1>5. GuardInv'
  BY Zenon DEF CallsInv, GuardInv, calls
<1>6. ReleaseInv'
  BY Zenon DEF CallsInv, ReleaseInv, calls
<1> QED
  BY <1>1, <1>4, <1>5, <1>6, Zenon DEF CallsInv, calls

LEMMA WaitingCalls ==
  ASSUME CallsInv
  PROVE  Waiting \in Seq(Calls) /\ IsDistinct(Waiting)
<1>1. handlers \in Seq(Calls) /\ IsDistinct(handlers) /\ SentAlone(pc)
  BY OneSends, Zenon DEF CallsInv, Kept
<1>2. CASE \A c \in Calls : pc[c] # "sent"
  <2>1. Waiting = handlers
    BY <1>1, <1>2, WaitingIs, Zenon DEF Waiting
  <2> QED
    BY <1>1, <2>1, Zenon
<1>3. CASE \E c \in Calls : pc[c] = "sent"
  <2>1. PICK c \in Calls : pc[c] = "sent"
    BY <1>3, Zenon
  <2>2. Waiting = Append(handlers, c)
    BY <1>1, <2>1, WaitingIs, Zenon DEF Waiting
  <2>3. \A i \in 1 .. Len(handlers) : handlers[i] # c
    BY <2>1, NotKept, Zenon DEF CallsInv
  <2>4. /\ Waiting \in Seq(Calls) /\ Len(Waiting) = Len(handlers) + 1 /\ Waiting[Len(handlers) + 1] = c
        /\ \A i \in 1 .. Len(handlers) : Waiting[i] = handlers[i]
    BY <1>1, <2>2
  <2>5. IsDistinct(Waiting)
    BY <1>1, <2>3, <2>4 DEF IsDistinct
  <2> QED
    BY <2>4, <2>5, Zenon
<1> QED
  BY <1>2, <1>3, Zenon

LEMMA StartWrite ==
  ASSUME NEW s, Core(s), Watched(s), s.status = "RUNNING", NEW r \in start_write(s)
  PROVE  Sound(s, r) /\ r.status = "RUNNING" /\ r.wait_init = s.wait_init
<1>1. CASE r = s
  BY <1>1, Zenon DEF Sound, Moves
<1>2. CASE r # s
  <2>1. s.queue # <<>> /\ \E ops \in {{"write"}, {"out", "write"}} : r = [s EXCEPT !.wait = @ \cup ops]
    BY <1>2, Zenon DEF start_write
  <2>2. PICK ops \in {{"write"}, {"out", "write"}} : r = [s EXCEPT !.wait = @ \cup ops]
    BY <2>1, Zenon
  <2>3. Core(r) /\ r.handle_read = s.handle_read /\ r.wait_init = s.wait_init
    BY <2>1, <2>2 DEF Core, Fields, Open, Closing
  <2>4. Watched(r) /\ Moves(s, r) /\ r.status = "RUNNING"
    BY <2>1, <2>2 DEF Core, Watched, Moves, Fields, Open, Closing
  <2> QED
    BY <2>3, <2>4, Zenon DEF Sound
<1> QED
  BY <1>1, <1>2, Zenon

----------------------------------------------------------------------------
(* The handlers of the connection, and the functions under m_state.lock. *)

\* The first lines of a handler.
DoneOf(s, op) == [s EXCEPT !.wait = @ \ {op}, !.cancel = @ \ {op}]

\* The states the handler of the timer leads to.
AfterTimer(s) ==
  LET d == DoneOf(s, "timer")
  IN CASE "timer" \in s.cancel /\ d.reset   -> [d EXCEPT !.wait = @ \cup {"timer"}, !.reset = FALSE]
       [] "timer" \in s.cancel /\ ~ d.reset -> on_closing(d)
       [] "timer" \notin s.cancel /\ d.status = "RUNNING"     -> interrupt(d)
       [] "timer" \notin s.cancel /\ d.status = "INTERRUPTED" -> terminate(d)
       [] OTHER -> d

\* They differ in fields that Core does not mention.
Alike(s, r) ==
  /\ Core(r) /\ Moves(s, r) /\ r.status = s.status /\ r.handle_read = s.handle_read
  /\ r.wait_init = s.wait_init /\ (Watched(s) => Watched(r))

HandlerStep ==
  \/ Start \/ Started \/ RequestCallback \/ RunCallback \/ Drop \/ Close \/ Received \/ Released
  \/ TimerHandler \/ ReadHandler \/ HandshakeHandler \/ ShutdownHandler \/ WriteHandler
  \/ \E op \in {"in", "out"} : ThrottleHandler(op)
  \/ \E c \in Calls : TimedOut(c)

\* A handler runs the functions under m_state.lock one after the other (OnTerminating ... HandlerStarts),
\* and what it leaves of the state is Sound; on_write also takes a chunk from the queue.
LEMMA HandlerStepInv ==
  IInv /\ HandlerStep => IInv'
<1>OnTerminating.
  ASSUME NEW s, Core(s), s.status = "TERMINATING"
  PROVE  Sound(s, on_terminating(s)) /\ on_terminating(s).status # "RUNNING"
  <2> USE <1>OnTerminating
  <2> DEFINE r == on_terminating(s)
  <2>1. Core(r) /\ r.handle_read = s.handle_read
    BY DEF Core, Fields, Open, Closing, on_terminating
  <2>2. Watched(r) /\ Moves(s, r) /\ r.status # "RUNNING"
    BY DEF Core, Watched, Moves, Fields, Open, Closing, on_terminating
  <2> QED
    BY <2>1, <2>2, Zenon DEF Sound

<1>OnInterrupted.
  ASSUME NEW s, Core(s), s.status = "INTERRUPTED"
  PROVE  Sound(s, on_interrupted(s)) /\ on_interrupted(s).status # "RUNNING"
  <2> USE <1>OnInterrupted
  <2> DEFINE r == on_interrupted(s)
  <2>1. Core(r) /\ r.handle_read = s.handle_read
    BY DEF Core, Fields, Open, Closing, on_interrupted, start_shutdown, start_timer, Busy
  <2>2. Watched(r) /\ Moves(s, r) /\ r.status # "RUNNING"
    BY Zenon DEF Core, Watched, Moves, Fields, Open, Closing, on_interrupted, start_shutdown, start_timer, Busy
  <2> QED
    BY <2>1, <2>2, Zenon DEF Sound

<1>OnClosing.
  ASSUME NEW s, Core(s), s.status # "RUNNING"
  PROVE  Sound(s, on_closing(s))
  <2> USE <1>OnClosing
  <2>1. CASE s.status = "INTERRUPTED"
    BY <2>1, <1>OnInterrupted, Zenon DEF on_closing
  <2>2. CASE s.status = "TERMINATING"
    <3>1. on_closing(s) = on_terminating(s)
      BY <2>2 DEF on_closing
    <3> QED
      BY <2>2, <3>1, <1>OnTerminating, Zenon
  <2>3. CASE s.status \notin Closing
    <3>1. on_closing(s) = s
      BY <2>3 DEF on_closing, Closing
    <3>2. Watched(s) /\ Moves(s, s)
      BY <2>3 DEF Watched, Moves
    <3> QED
      BY <3>1, <3>2, Zenon DEF Sound
  <2> QED
    BY <2>1, <2>2, <2>3, Zenon DEF Closing

\* The status c of cancel_socket(cancel_timer(...)) on the way out of interrupt and terminate.
<1>Cancelled.
  ASSUME NEW s, Core(s), s.status # "TERMINATED", NEW status \in Closing
  PROVE  LET c == cancel_socket(cancel_timer([s EXCEPT !.status = status]))
         IN Core(c) /\ Moves(s, c) /\ c.status = status /\ c.handle_read = s.handle_read
  <2> USE <1>Cancelled
  <2> DEFINE b == cancel_timer([s EXCEPT !.status = status])
  <2>1. /\ DOMAIN b = Fields /\ b.status = status /\ b.queue = s.queue /\ b.wait_callback = s.wait_callback
        /\ b.handle_read = s.handle_read /\ b.wait_release = s.wait_release /\ b.wait_consume = s.wait_consume
        /\ b.wait_init = s.wait_init /\ b.wait = s.wait
        /\ b.cancel = s.cancel \cup (s.wait \cap {"timer"}) /\ ~ b.reset
    BY DEF Core, Fields, cancel_timer
  <2> HIDE DEF b
  <2> DEFINE c == cancel_socket(b)
  <2>2. /\ DOMAIN c = Fields /\ c.status = b.status /\ c.queue = b.queue /\ c.wait_callback = b.wait_callback
        /\ c.handle_read = b.handle_read /\ c.wait_release = b.wait_release /\ c.wait_consume = b.wait_consume
        /\ c.wait_init = b.wait_init /\ c.wait = b.wait
        /\ c.cancel = b.cancel \cup (b.wait \ {"timer"}) /\ c.reset = b.reset
    BY <2>1 DEF Fields, cancel_socket
  <2> HIDE DEF c
  <2>3. Core(c)
    BY <2>1, <2>2 DEF Core, Open, Closing
  <2>4. Moves(s, c) /\ c.status = status /\ c.handle_read = s.handle_read
    BY <2>1, <2>2 DEF Moves, Open, Closing
  <2> QED
    BY <2>3, <2>4, Zenon DEF c, b

\* The end of interrupt and terminate.
<1>Notified.
  ASSUME NEW s, Core(s), Watched(s), s.status \notin Open
  PROVE  LET r == cancel_handler(notify_all(s)) IN Sound(s, r) /\ r.status = s.status
  <2> USE <1>Notified
  <2> DEFINE n == notify_all(s)
             r == cancel_handler(n)
  <2>1. /\ DOMAIN r = Fields /\ r.status = s.status /\ r.queue = s.queue /\ r.wait_callback = s.wait_callback
        /\ r.handle_read = s.handle_read /\ r.wait_release \in BOOLEAN /\ r.wait_consume = s.wait_consume
        /\ r.wait_init = s.wait_init /\ r.wait = s.wait /\ r.cancel = s.cancel /\ r.reset = s.reset
        /\ s.wait_release => r.wait_release
    BY Zenon DEF Core, Fields, cancel_handler, notify_all
  <2> HIDE DEF r
  <2>2. Core(r)
    BY <2>1 DEF Core
  <2>3. Watched(r) /\ Moves(s, r)
    BY <2>1 DEF Watched, Moves, Open, Closing, Busy
  <2> QED
    BY <2>1, <2>2, <2>3, Zenon DEF Sound, r, n

<1>Terminate.
  ASSUME NEW s, Core(s), s.status \notin {"RUNNING", "INTERRUPTED"} => Watched(s)
  PROVE  Sound(s, terminate(s)) /\ terminate(s).status # "RUNNING"
  <2> USE <1>Terminate
  <2>1. CASE s.status \notin {"RUNNING", "INTERRUPTED"}
    <3>1. terminate(s) = s
      BY <2>1, Zenon DEF terminate
    <3> QED
      BY <2>1, <3>1, Zenon DEF Sound, Moves
  <2>2. CASE s.status \in {"RUNNING", "INTERRUPTED"}
    <3> DEFINE c == cancel_socket(cancel_timer([s EXCEPT !.status = "TERMINATING"]))
               d == on_terminating(c)
               r == cancel_handler(notify_all(d))
    <3>1. terminate(s) = r
      BY <2>2, Zenon DEF terminate
    <3>2. Core(c) /\ Moves(s, c) /\ c.status = "TERMINATING" /\ c.handle_read = s.handle_read
      BY <2>2, <1>Cancelled, Zenon DEF Closing
    <3> HIDE DEF c
    <3>3. Sound(c, d) /\ d.status # "RUNNING"
      BY <3>2, <1>OnTerminating, Zenon
    <3>4. d.status \notin Open
      BY <3>2, <3>3 DEF Sound, Moves, Open
    <3> HIDE DEF d
    <3>5. Sound(d, r) /\ r.status = d.status
      BY <3>3, <3>4, <1>Notified, Zenon DEF Sound
    <3> HIDE DEF r
    <3>6. Sound(s, r) /\ r.status # "RUNNING"
      BY <3>2, <3>3, <3>4, <3>5 DEF Sound, Moves, Open
    <3> QED
      BY <3>1, <3>6, Zenon
  <2> QED
    BY <2>1, <2>2, Zenon

<1>Interrupt.
  ASSUME NEW s, Core(s), s.status # "RUNNING" => Watched(s)
  PROVE  Sound(s, interrupt(s)) /\ interrupt(s).status # "RUNNING"
  <2> USE <1>Interrupt
  <2>1. CASE s.status # "RUNNING"
    <3>1. interrupt(s) = s
      BY <2>1, Zenon DEF interrupt
    <3> QED
      BY <2>1, <3>1, Zenon DEF Sound, Moves
  <2>2. CASE s.status = "RUNNING"
    <3> DEFINE c == cancel_socket(cancel_timer([s EXCEPT !.status = "INTERRUPTED"]))
               d == on_interrupted(c)
               r == cancel_handler(notify_all(d))
    <3>1. interrupt(s) = r
      BY <2>2, Zenon DEF interrupt
    <3>2. Core(c) /\ Moves(s, c) /\ c.status = "INTERRUPTED" /\ c.handle_read = s.handle_read
      BY <2>2, <1>Cancelled, Zenon DEF Closing
    <3> HIDE DEF c
    <3>3. Sound(c, d) /\ d.status # "RUNNING"
      BY <3>2, <1>OnInterrupted, Zenon
    <3>4. d.status \notin Open
      BY <3>2, <3>3 DEF Sound, Moves, Open
    <3> HIDE DEF d
    <3>5. Sound(d, r) /\ r.status = d.status
      BY <3>3, <3>4, <1>Notified, Zenon DEF Sound
    <3> HIDE DEF r
    <3>6. Sound(s, r) /\ r.status # "RUNNING"
      BY <3>2, <3>3, <3>4, <3>5 DEF Sound, Moves, Open
    <3> QED
      BY <3>1, <3>6, Zenon
  <2> QED
    BY <2>1, <2>2, Zenon

<1>StatusCheck.
  ASSUME NEW s, Core(s)
  PROVE  Sound(s, state_status_check(s)) /\ state_status_check(s).status # "RUNNING"
  <2> USE <1>StatusCheck
  <2>1. CASE s.status = "RUNNING"
    BY <2>1, <1>Interrupt, Zenon DEF state_status_check
  <2>2. CASE s.status # "RUNNING"
    <3>1. Sound(s, on_closing(s)) /\ state_status_check(s) = on_closing(s)
      BY <2>2, <1>OnClosing, Zenon DEF state_status_check
    <3>2. on_closing(s).status # "RUNNING"
      BY <2>2, <3>1, Zenon DEF Sound, Moves, Open
    <3> QED
      BY <3>1, <3>2, Zenon
  <2> QED
    BY <2>1, <2>2, Zenon

<1>CloseSound.
  ASSUME NEW s, Core(s), Watched(s)
  PROVE  Sound(s, close(s))
  <2> USE <1>CloseSound
  <2>1. CASE s.status = "RUNNING"
    BY <2>1, <1>Terminate, Zenon DEF close
  <2>2. CASE s.status # "RUNNING"
    BY <2>2, Zenon DEF close, Sound, Moves
  <2> QED
    BY <2>1, <2>2, Zenon

<1>StartRead.
  ASSUME NEW s, Core(s), Watched(s), s.status = "RUNNING", ~ s.wait_init, NEW r \in start_read(s)
  PROVE  Sound(s, r) /\ r.status = "RUNNING"
  <2> USE <1>StartRead
  <2>1. CASE r = s
    BY <2>1, Zenon DEF Sound, Moves
  <2>2. CASE r # s
    <3>1. ~ s.handle_read /\ \E op \in {"in", "read"} : r = [s EXCEPT !.wait = @ \cup {op}]
      BY <2>2, Zenon DEF start_read
    <3>2. PICK op \in {"in", "read"} : r = [s EXCEPT !.wait = @ \cup {op}]
      BY <3>1, Zenon
    <3>3. Core(r) /\ r.handle_read = s.handle_read
      BY <3>1, <3>2 DEF Core, Fields, Open, Closing
    <3>4. Watched(r) /\ Moves(s, r) /\ r.status = "RUNNING"
      BY <3>1, <3>2 DEF Core, Watched, Moves, Fields, Open, Closing
    <3> QED
      BY <3>3, <3>4, Zenon DEF Sound
  <2> QED
    BY <2>1, <2>2, Zenon

<1>HandlerStarts.
  ASSUME NEW s, Core(s), Watched(s), NEW op, op \in s.wait, op # "timer"
  PROVE  LET d == DoneOf(s, op)
         IN /\ Core(d) /\ Moves(s, d) /\ d.status = s.status
            /\ d.handle_read = s.handle_read /\ d.wait_init = s.wait_init
            /\ s.status = "RUNNING" => Watched(d) /\ ("timer" \in d.cancel => d.reset)
            /\ s.status # "TERMINATED"
            /\ op \notin s.cancel /\ op # "shutdown" => s.status = "RUNNING"
  <2> USE <1>HandlerStarts
  <2> DEFINE d == DoneOf(s, op)
  <2>1. /\ DOMAIN d = Fields /\ d.status = s.status /\ d.queue = s.queue /\ d.wait_callback = s.wait_callback
        /\ d.handle_read = s.handle_read /\ d.wait_release = s.wait_release /\ d.wait_consume = s.wait_consume
        /\ d.wait_init = s.wait_init /\ d.wait = s.wait \ {op} /\ d.cancel = s.cancel \ {op} /\ d.reset = s.reset
    BY DEF DoneOf, Core, Fields
  <2> HIDE DEF d
  <2>2. Core(d)
    BY <2>1 DEF Core
  <2>3. Moves(s, d) /\ d.status = s.status
    BY <2>1 DEF Moves
  <2>4. s.status = "RUNNING" => Watched(d) /\ ("timer" \in d.cancel => d.reset)
    BY <2>1 DEF Watched, Closing
  <2>5. s.status # "TERMINATED" /\ (op \notin s.cancel /\ op # "shutdown" => s.status = "RUNNING")
    BY DEF Core, Open, Closing
  <2> QED
    BY <2>1, <2>2, <2>3, <2>4, <2>5, Zenon DEF d

<1>StartInv.
  ASSUME IInv, Start
  PROVE  IInv'
  <2> USE <1>StartInv
  <2> DEFINE a == [tcp EXCEPT !.status = "RUNNING", !.connected = TRUE, !.wait_init = TRUE]
  <2>1. Core(tcp) /\ tcp.status = "TERMINATED" /\ tcp' = start_timer(a)
    BY Zenon DEF IInv, TcpInv, Start
  <2>2. /\ DOMAIN tcp' = Fields /\ tcp'.status = "RUNNING" /\ tcp'.queue = tcp.queue
        /\ tcp'.wait_callback = tcp.wait_callback /\ tcp'.handle_read = tcp.handle_read
        /\ tcp'.wait_release = tcp.wait_release /\ tcp'.wait_consume = tcp.wait_consume
        /\ tcp'.wait = {"timer"} /\ tcp'.cancel = {} /\ tcp'.reset = tcp.reset
    BY <2>1 DEF Core, Fields, start_timer
  <2>3. Core(tcp') /\ Watched(tcp')
    BY <2>1, <2>2 DEF Core, Watched, Open, Closing
  <2>4. UNCHANGED <<calls, release, recv, pc, left, net, drop>>
    BY Zenon DEF Start, send, levin, calls
  <2>5. TcpInv'
    BY <2>2, <2>3, <2>4, Zenon DEF IInv, TcpInv
  <2>6. CallsInv'
    <3>1. Kept(release.todo, pc, timer_cancelled)' /\ Kept(handlers, pc, timer_cancelled)' /\ GuardInv' /\ \A c \in Calls : CallInv(c)'
      BY <2>4, Zenon DEF IInv, CallsInv, calls, Kept, GuardInv, CallInv
    <3>2. ReleaseInv'
      BY <2>1, <2>4 DEF IInv, CallsInv, ReleaseInv, calls, Open
    <3>3. RecvInv'
      BY <2>2, <2>4, Zenon DEF IInv, CallsInv, RecvInv
    <3> QED
      BY <2>4, <3>1, <3>2, <3>3, Zenon DEF IInv, CallsInv, calls
  <2>7. ChunkInv'
    <3>1. LeftInv'
      BY <2>4, Zenon DEF IInv, ChunkInv, LeftInv
    <3>2. ASSUME drop' = "no" PROVE InOrder(wire, tcp.queue)' /\ Goes(End(wire, tcp.queue), pc, left, tcp.wait_consume)'
      <4>1. InOrder(wire, tcp.queue) /\ Goes(End(wire, tcp.queue), pc, left, tcp.wait_consume)
        BY <2>1, <2>4, <3>2 DEF IInv, ChunkInv, Open
      <4>2. UNCHANGED <<wire, pc, left>>
        BY <2>4, Zenon DEF net
      <4> QED
        BY <2>2, <4>1, <4>2
    <3>3. ChunksTogether'
      BY <2>4, Zenon DEF IInv, ChunkInv, ChunksTogether, net
    <3> QED
      BY <2>4, <3>1, <3>2, <3>3, Zenon DEF IInv, ChunkInv, net
  <2>8. MatchInv'
    <3>1. Answers' = Answers /\ Waiting' = Waiting /\ Late' = Late
      BY <2>4, Zenon DEF Answers, Waiting, WaitingAt, Late, net, calls
    <3>2. tcp.status \in Open
      BY <2>1, Zenon DEF Open
    <3> QED
      BY <2>2, <2>4, <3>1, <3>2, Zenon DEF IInv, MatchInv, net, calls
  <2> QED
    BY <2>5, <2>6, <2>7, <2>8, Zenon DEF IInv

<1>ReleasedInv.
  ASSUME IInv, Released
  PROVE  IInv'
  <2> USE <1>ReleasedInv
  <2> DEFINE d == [tcp EXCEPT !.wait_release = FALSE, !.released = TRUE]
  <2>1. /\ Core(tcp) /\ Watched(tcp) /\ release.stage = "cancel" /\ proto_released /\ tcp.status \notin Open
        /\ tcp' = on_closing(d) /\ release' = NoThread
    BY Zenon DEF IInv, TcpInv, CallsInv, ReleaseInv, Released, handler_released
  <2>2. /\ DOMAIN d = Fields /\ d.status = tcp.status /\ d.queue = tcp.queue /\ d.wait_callback = tcp.wait_callback
        /\ d.handle_read = tcp.handle_read /\ d.wait_release = FALSE /\ d.wait_consume = tcp.wait_consume
        /\ d.wait_init = tcp.wait_init /\ d.wait = tcp.wait /\ d.cancel = tcp.cancel /\ d.reset = tcp.reset
    BY <2>1 DEF Core, Fields
  <2> HIDE DEF d
  <2>3. Core(d) /\ d.status # "RUNNING"
    BY <2>1, <2>2 DEF Core, Open
  <2>4. Sound(d, tcp')
    BY <2>1, <2>3, <1>OnClosing, Zenon
  <2>5. tcp'.status \notin Open /\ tcp'.handle_read = tcp.handle_read
    BY <2>1, <2>2, <2>4, Zenon DEF Sound, Moves
  <2>6. tcp'.wait_release = FALSE
    BY <2>1, <2>2 DEF on_closing, on_interrupted, on_terminating, start_shutdown, start_timer, Fields
  <2>7. UNCHANGED <<calls, recv, pc, left, net, drop>>
    BY Zenon DEF Released, send, levin, calls
  <2>8. DOMAIN release' = {"stage", "todo", "unlist", "finish"} /\ release'.stage = "none" /\ release'.todo = <<>>
    BY <2>1 DEF NoThread
  <2>9. TcpInv'
    BY <2>4, <2>6, <2>8 DEF TcpInv, Sound
  <2>10. CallsInv'
    <3>1. Kept(handlers, pc, timer_cancelled)' /\ GuardInv' /\ \A c \in Calls : CallInv(c)'
      BY <2>7, Zenon DEF IInv, CallsInv, calls, Kept, GuardInv, CallInv
    <3>2. Kept(release.todo, pc, timer_cancelled)'
      BY <2>8 DEF Kept, IsDistinct
    <3>3. ReleaseInv'
      BY <2>5, <2>7, <2>8 DEF IInv, CallsInv, ReleaseInv, calls
    <3>4. RecvInv'
      BY <2>5, <2>7, Zenon DEF IInv, CallsInv, RecvInv
    <3> QED
      BY <2>7, <3>1, <3>2, <3>3, <3>4, Zenon DEF IInv, CallsInv, calls
  <2>11. ChunkInv'
    BY <2>5, <2>7, Zenon DEF IInv, ChunkInv, LeftInv, ChunksTogether, net
  <2>12. MatchInv'
    BY <2>1, <2>5, <2>7, Zenon DEF IInv, MatchInv, net, calls
  <2> QED
    BY <2>9, <2>10, <2>11, <2>12, Zenon DEF IInv

<1>SoundFrom.
  ASSUME NEW s, NEW d, NEW r, Moves(s, d), d.handle_read = s.handle_read, Sound(d, r)
  PROVE  Sound(s, r)
  BY <1>SoundFrom, Zenon DEF Sound, Moves

\* A handler that does not touch what handle_recv depends on.
<1>SoundKept.
  ASSUME IInv, Sound(tcp, tcp'), ReleaseStarts, UNCHANGED <<calls, recv, pc, left, net>>,
         drop' = drop \/ (drop = "posted" /\ drop' = "done")
  PROVE  IInv'
  <2> USE <1>SoundKept
  <2>1. RecvInv'
    BY Zenon DEF IInv, CallsInv, RecvInv, Sound
  <2>2. Steps
    BY Zenon DEF Steps, Sound
  <2> QED
    BY <2>1, <2>2, HandlerKept, Zenon

<1>TimerHandlerSound.
  ASSUME NEW s, Core(s), Watched(s), "timer" \in s.wait
  PROVE  Sound(s, AfterTimer(s))
  <2> USE <1>TimerHandlerSound
  <2> DEFINE d == DoneOf(s, "timer")
             a == [d EXCEPT !.wait = @ \cup {"timer"}, !.reset = FALSE]
             r == AfterTimer(s)
  <2>1. /\ DOMAIN d = Fields /\ d.status = s.status /\ d.queue = s.queue /\ d.wait_callback = s.wait_callback
        /\ d.handle_read = s.handle_read /\ d.wait_release = s.wait_release /\ d.wait_consume = s.wait_consume
        /\ d.wait_init = s.wait_init /\ d.wait = s.wait \ {"timer"} /\ d.cancel = s.cancel \ {"timer"}
        /\ d.reset = s.reset
    BY DEF DoneOf, Core, Fields
  <2> HIDE DEF d
  <2>2. /\ DOMAIN a = Fields /\ a.status = s.status /\ a.queue = s.queue /\ a.wait_callback = s.wait_callback
        /\ a.handle_read = s.handle_read /\ a.wait_release = s.wait_release /\ a.wait_consume = s.wait_consume
        /\ a.wait_init = s.wait_init /\ a.wait = s.wait \cup {"timer"} /\ a.cancel = s.cancel \ {"timer"}
        /\ a.reset = FALSE
    BY <2>1 DEF Fields
  <2> HIDE DEF a
  <2>3. Moves(s, d) /\ d.handle_read = s.handle_read
    BY <2>1, Zenon DEF Moves
  <2>4. ~ s.reset => Core(d)
    BY <2>1 DEF Core
  <2>5. CASE "timer" \in s.cancel /\ s.reset
    <3>1. r = a
      BY <2>1, <2>5, Zenon DEF AfterTimer, d, a
    <3>2. Core(a)
      BY <2>2, <2>5 DEF Core
    <3>3. Watched(a) /\ Moves(s, a) /\ a.handle_read = s.handle_read
      BY <2>2, <2>5 DEF Watched, Moves, Busy
    <3> QED
      BY <3>1, <3>2, <3>3, Zenon DEF Sound
  <2>6. CASE "timer" \in s.cancel /\ ~ s.reset
    <3>1. r = on_closing(d)
      BY <2>1, <2>6, Zenon DEF AfterTimer, d
    <3>2. d.status # "RUNNING"
      BY <2>1, <2>6, Zenon DEF Watched
    <3>3. Sound(d, on_closing(d))
      BY <2>4, <2>6, <3>2, <1>OnClosing, Zenon
    <3> QED
      BY <2>3, <3>1, <3>3, Zenon DEF Sound, Moves
  <2>7. CASE "timer" \notin s.cancel
    <3>1. ~ s.reset
      BY <2>7, Zenon DEF Core
    <3>2. d.status \in {"RUNNING", "INTERRUPTED", "WASTED"}
      BY <2>1, <2>7 DEF Core, Open, Closing
    <3>3. Sound(d, r)
      <4>1. CASE d.status = "RUNNING"
        <5>1. r = interrupt(d)
          BY <2>7, <4>1, Zenon DEF AfterTimer, d
        <5> QED
          BY <2>4, <3>1, <4>1, <5>1, <1>Interrupt, Zenon
      <4>2. CASE d.status = "INTERRUPTED"
        <5>1. r = terminate(d)
          BY <2>7, <4>2 DEF AfterTimer, d
        <5> QED
          BY <2>4, <3>1, <4>2, <5>1, <1>Terminate, Zenon
      <4>3. CASE d.status = "WASTED"
        <5>1. r = d
          BY <2>7, <4>3 DEF AfterTimer, d
        <5>2. Watched(d)
          BY <4>3 DEF Watched, Closing
        <5> QED
          BY <2>4, <3>1, <5>1, <5>2, Zenon DEF Sound, Moves
      <4> QED
        BY <3>2, <4>1, <4>2, <4>3, Zenon
    <3> QED
      BY <2>3, <3>3, Zenon DEF Sound, Moves
  <2> QED
    BY <2>5, <2>6, <2>7, Zenon

<1>TimerHandlerInv.
  ASSUME IInv, TimerHandler
  PROVE  IInv'
  <2> USE <1>TimerHandlerInv
  <2>1. "timer" \in tcp.wait /\ Handled(AfterTimer(tcp))
    BY Zenon DEF TimerHandler, Done, Flagged, DoneOf, AfterTimer
  <2>2. Sound(tcp, AfterTimer(tcp))
    BY <2>1, <1>TimerHandlerSound, Zenon DEF IInv, TcpInv
  <2>3. tcp' = AfterTimer(tcp) /\ ReleaseStarts
    BY <2>1 DEF Handled, Becomes, ReleaseStarts, NoThread
  <2>4. UNCHANGED <<calls, recv, pc, left, net, drop>>
    BY Zenon DEF TimerHandler, send, levin, calls
  <2> QED
    BY <2>2, <2>3, <2>4, <1>SoundKept, Zenon

<1>ThrottleHandlerInv.
  ASSUME IInv, NEW op \in {"in", "out"}, ThrottleHandler(op)
  PROVE  IInv'
  <2> USE <1>ThrottleHandlerInv
  <2> DEFINE d == DoneOf(tcp, op)
  <2>1. Core(tcp) /\ Watched(tcp) /\ op \in tcp.wait /\ op # "timer" /\ op # "shutdown"
    BY Zenon DEF IInv, TcpInv, ThrottleHandler
  <2>2. /\ Core(d) /\ Moves(tcp, d) /\ d.status = tcp.status
        /\ d.handle_read = tcp.handle_read /\ d.wait_init = tcp.wait_init
        /\ tcp.status = "RUNNING" => Watched(d)
        /\ op \notin tcp.cancel => tcp.status = "RUNNING"
    BY <2>1, <1>HandlerStarts, Zenon
  <2>3. PICK r : /\ Handled(r)
                 /\ IF op \in tcp.cancel THEN r = state_status_check(d)
                    ELSE r \in IF op = "in" THEN start_read(d) ELSE start_write(d)
    BY Zenon DEF ThrottleHandler, Done, Flagged, DoneOf
  <2> HIDE DEF d
  <2>4. Sound(d, r)
    <3>1. CASE op \in tcp.cancel
      BY <2>2, <2>3, <3>1, <1>StatusCheck, Zenon
    <3>2. CASE op \notin tcp.cancel /\ op = "in"
      <4>1. ~ d.wait_init
        BY <2>1, <2>2, <3>2 DEF Core
      <4> QED
        BY <2>2, <2>3, <3>2, <4>1, <1>StartRead, Zenon
    <3>3. CASE op \notin tcp.cancel /\ op = "out"
      BY <2>2, <2>3, <3>3, StartWrite, Zenon
    <3> QED
      BY <3>1, <3>2, <3>3, Zenon
  <2>5. Sound(tcp, r)
    BY <2>2, <2>4, <1>SoundFrom, Zenon
  <2>6. tcp' = r /\ ReleaseStarts
    BY <2>3 DEF Handled, Becomes, ReleaseStarts, NoThread
  <2>7. UNCHANGED <<calls, recv, pc, left, net, drop>>
    BY Zenon DEF ThrottleHandler, send, levin, calls
  <2> QED
    BY <2>5, <2>6, <2>7, <1>SoundKept, Zenon

\* The connection expects bytes: handle_recv is posted.
<1>PostsRecv.
  ASSUME NEW s, Core(s), Watched(s), s.status = "RUNNING", ~ s.wait_init, "read" \notin s.wait, NEW r,
         \/ r = [start_timer(s) EXCEPT !.handle_read = TRUE]
         \/ r = [s EXCEPT !.ssl = "off", !.handle_read = TRUE]
  PROVE  Core(r) /\ Watched(r) /\ Moves(s, r) /\ r.handle_read = TRUE
  <2> USE <1>PostsRecv
  <2>1. /\ DOMAIN r = Fields /\ r.status = s.status /\ r.queue = s.queue /\ r.wait_callback = s.wait_callback
        /\ r.handle_read = TRUE /\ r.wait_release = s.wait_release /\ r.wait_consume = s.wait_consume
        /\ r.wait_init = s.wait_init /\ r.wait \in {s.wait, s.wait \cup {"timer"}} /\ s.cancel \subseteq r.cancel
        /\ r.cancel \subseteq r.wait /\ (r.reset <=> "timer" \in r.cancel)
    <3>1. CASE r = [start_timer(s) EXCEPT !.handle_read = TRUE]
      BY <3>1 DEF start_timer, Core, Watched, Fields
    <3>2. CASE r = [s EXCEPT !.ssl = "off", !.handle_read = TRUE]
      BY <3>2 DEF Core, Watched, Fields
    <3> QED
      BY <3>1, <3>2, Zenon
  <2>2. Core(r)
    BY <2>1 DEF Core, Open, Closing
  <2>3. Watched(r) /\ Moves(s, r)
    BY <2>1 DEF Watched, Moves, Closing
  <2> QED
    BY <2>1, <2>2, <2>3, Zenon

<1>Indifferent.
  ASSUME NEW s, Core(s), NEW v
  PROVE  Alike(s, [s EXCEPT !.ssl = v]) /\ Alike(s, [s EXCEPT !.connected = v])
  <2> USE <1>Indifferent
  <2>1. ASSUME NEW r, r = [s EXCEPT !.ssl = v] \/ r = [s EXCEPT !.connected = v] PROVE Alike(s, r)
    <3>1. /\ DOMAIN r = Fields /\ r.status = s.status /\ r.queue = s.queue /\ r.wait_callback = s.wait_callback
          /\ r.handle_read = s.handle_read /\ r.wait_release = s.wait_release /\ r.wait_consume = s.wait_consume
          /\ r.wait_init = s.wait_init /\ r.wait = s.wait /\ r.cancel = s.cancel /\ r.reset = s.reset
      BY <2>1 DEF Core, Fields
    <3> QED
      BY <3>1, Zenon DEF Alike, Core, Moves, Watched, Busy
  <2> QED
    BY <2>1

<1>StartHandshake.
  ASSUME NEW s, Core(s), Watched(s), s.status = "RUNNING", ~ s.wait_init, ~ s.handle_read
  PROVE  Sound(s, start_handshake(s))
  <2> USE <1>StartHandshake
  <2> DEFINE r == start_handshake(s)
  <2>1. Core(r) /\ r.handle_read = s.handle_read
    BY DEF start_handshake, Core, Fields, Open
  <2>2. Watched(r) /\ Moves(s, r)
    BY DEF start_handshake, Core, Fields, Watched, Moves, Open, Closing
  <2> QED
    BY <2>1, <2>2, Zenon DEF Sound

<1>ReadHandlerInv.
  ASSUME IInv, ReadHandler
  PROVE  IInv'
  <2> USE <1>ReadHandlerInv
  <2> DEFINE d == DoneOf(tcp, "read")
  <2>1. Core(tcp) /\ Watched(tcp) /\ "read" \in tcp.wait
    BY Zenon DEF IInv, TcpInv, ReadHandler
  <2>2. /\ Core(d) /\ Moves(tcp, d) /\ d.status = tcp.status
        /\ d.handle_read = tcp.handle_read /\ d.wait_init = tcp.wait_init
        /\ tcp.status = "RUNNING" => Watched(d)
        /\ "read" \notin tcp.cancel => tcp.status = "RUNNING"
    BY <2>1, <1>HandlerStarts, Zenon
  <2>3. ~ tcp.handle_read /\ ~ tcp.wait_init
    BY <2>1 DEF Core
  <2>4. "read" \notin d.wait
    BY <2>1 DEF DoneOf, Core, Fields
  <2>5. recv = "idle" /\ pc["reply"] \notin {"send", "sender", "consume"} /\ pc["reply"] \in {"idle", "done"}
    BY <2>3 DEF IInv, CallsInv, RecvInv
  <2>6. UNCHANGED <<calls, pc, left, net, drop>> /\ recv' = IF tcp'.handle_read THEN "posted" ELSE recv
    BY Zenon DEF ReadHandler, send, levin, calls
  <2>7. PICK r :
          /\ Handled(r)
          /\ IF "read" \in tcp.cancel THEN r = state_status_check(d)
             ELSE \/ r = terminate(d)
                  \/ r = [start_timer(d) EXCEPT !.handle_read = TRUE]
                  \/ r = [d EXCEPT !.ssl = "off", !.handle_read = TRUE]
                  \/ r = start_handshake([d EXCEPT !.ssl = "on"])
    BY Zenon DEF ReadHandler, Done, Flagged, DoneOf
  <2>8. tcp' = r /\ ReleaseStarts
    BY <2>7 DEF Handled, Becomes, ReleaseStarts, NoThread
  <2> HIDE DEF d
  <2>9. CASE Sound(d, r)
    <3>1. Sound(tcp, tcp')
      BY <2>2, <2>8, <2>9, <1>SoundFrom, Zenon
    <3>2. recv' = recv
      BY <2>3, <2>6, <3>1, Zenon DEF Sound
    <3> QED
      BY <2>6, <2>8, <3>1, <3>2, <1>SoundKept, Zenon
  <2>10. CASE "read" \in tcp.cancel
    BY <2>2, <2>7, <2>9, <2>10, <1>StatusCheck, Zenon
  <2>11. CASE "read" \notin tcp.cancel /\ r = terminate(d)
    BY <2>2, <2>9, <2>11, <1>Terminate, Zenon
  <2>12. CASE /\ "read" \notin tcp.cancel
              /\ \/ r = [start_timer(d) EXCEPT !.handle_read = TRUE]
                 \/ r = [d EXCEPT !.ssl = "off", !.handle_read = TRUE]
    <3>1. Core(r) /\ Watched(r) /\ Moves(d, r) /\ r.handle_read = TRUE
      BY <2>2, <2>3, <2>4, <2>12, <1>PostsRecv, Zenon
    <3>2. Steps
      BY <2>2, <2>8, <3>1, Zenon DEF Steps, Moves
    <3>3. RecvInv'
      BY <2>5, <2>6, <2>8, <3>1 DEF RecvInv
    <3> QED
      BY <2>6, <3>2, <3>3, HandlerKept, Zenon
  <2>13. CASE "read" \notin tcp.cancel /\ r = start_handshake([d EXCEPT !.ssl = "on"])
    <3> DEFINE e == [d EXCEPT !.ssl = "on"]
    <3>0. Alike(d, e)
      BY <2>2, <1>Indifferent, Zenon
    <3> HIDE DEF e
    <3>1. /\ Core(e) /\ Moves(d, e) /\ e.status = "RUNNING" /\ ~ e.handle_read /\ e.handle_read = d.handle_read
          /\ ~ e.wait_init /\ Watched(e)
      BY <2>2, <2>3, <2>13, <3>0, Zenon DEF Alike
    <3>2. Sound(e, start_handshake(e))
      BY <3>1, <1>StartHandshake, Zenon
    <3>3. Sound(d, r)
      BY <2>13, <3>1, <3>2, <1>SoundFrom, Zenon DEF e
    <3> QED
      BY <2>9, <3>3, Zenon
  <2> QED
    BY <2>7, <2>10, <2>11, <2>12, <2>13, Zenon

<1>HandshakeHandlerInv.
  ASSUME IInv, HandshakeHandler
  PROVE  IInv'
  <2> USE <1>HandshakeHandlerInv
  <2> DEFINE d == DoneOf(tcp, "handshake")
             up == [d EXCEPT !.ssl = "up"]
             off == [d EXCEPT !.connected = FALSE]
  <2>1. Core(tcp) /\ Watched(tcp) /\ "handshake" \in tcp.wait
    BY Zenon DEF IInv, TcpInv, HandshakeHandler
  <2>2. /\ Core(d) /\ Moves(tcp, d) /\ d.status = tcp.status
        /\ d.handle_read = tcp.handle_read /\ d.wait_init = tcp.wait_init
        /\ tcp.status = "RUNNING" => Watched(d)
        /\ "handshake" \notin tcp.cancel => tcp.status = "RUNNING"
    BY <2>1, <1>HandlerStarts, Zenon
  <2>3. ~ tcp.wait_init
    BY <2>1 DEF Core
  <2>4. PICK r :
          /\ Handled(r)
          /\ IF "handshake" \in tcp.cancel THEN r = state_status_check(d)
             ELSE \/ r = interrupt(off)
                  \/ \E t \in start_write(up) : r \in start_read(t)
    BY Zenon DEF HandshakeHandler, Done, Flagged, DoneOf
  <2>5. tcp' = r /\ ReleaseStarts
    BY <2>4 DEF Handled, Becomes, ReleaseStarts, NoThread
  <2>6. Sound(d, r)
    <3>1. CASE "handshake" \in tcp.cancel
      BY <2>2, <2>4, <3>1, <1>StatusCheck, Zenon
    <3>2. CASE "handshake" \notin tcp.cancel /\ r = interrupt(off)
      <4>0. Alike(d, off)
        BY <2>2, <1>Indifferent, Zenon
      <4> HIDE DEF off, d
      <4>1. Core(off) /\ Moves(d, off) /\ off.status = "RUNNING" /\ off.handle_read = d.handle_read /\ Watched(off)
        BY <2>2, <3>2, <4>0, Zenon DEF Alike
      <4> QED
        BY <3>2, <4>1, <1>Interrupt, <1>SoundFrom, Zenon
    <3>3. CASE "handshake" \notin tcp.cancel /\ \E t \in start_write(up) : r \in start_read(t)
      <4>0. Alike(d, up)
        BY <2>2, <1>Indifferent, Zenon
      <4> HIDE DEF up, d
      <4>1. /\ Core(up) /\ Moves(d, up) /\ up.status = "RUNNING" /\ up.handle_read = d.handle_read
            /\ Watched(up) /\ ~ up.wait_init
        BY <2>2, <2>3, <3>3, <4>0, Zenon DEF Alike
      <4>2. PICK t \in start_write(up) : r \in start_read(t)
        BY <3>3, Zenon
      <4>3. Sound(up, t) /\ t.status = "RUNNING" /\ ~ t.wait_init
        BY <4>1, StartWrite, Zenon
      <4>4. Sound(t, r)
        BY <4>2, <4>3, <1>StartRead, Zenon DEF Sound
      <4>5. Sound(up, r)
        BY <4>3, <4>4, <1>SoundFrom, Zenon DEF Sound
      <4> QED
        BY <4>1, <4>5, <1>SoundFrom, Zenon
    <3> QED
      BY <2>4, <3>1, <3>2, <3>3, Zenon
  <2> HIDE DEF d
  <2>7. Sound(tcp, tcp')
    BY <2>2, <2>5, <2>6, <1>SoundFrom, Zenon
  <2>8. UNCHANGED <<calls, recv, pc, left, net, drop>>
    BY Zenon DEF HandshakeHandler, send, levin, calls
  <2> QED
    BY <2>5, <2>7, <2>8, <1>SoundKept, Zenon

<1>ShutdownHandlerInv.
  ASSUME IInv, ShutdownHandler
  PROVE  IInv'
  <2> USE <1>ShutdownHandlerInv
  <2> DEFINE d == DoneOf(tcp, "shutdown")
  <2>1. Core(tcp) /\ Watched(tcp) /\ "shutdown" \in tcp.wait
    BY Zenon DEF IInv, TcpInv, ShutdownHandler
  <2>2. /\ Core(d) /\ Moves(tcp, d) /\ d.status = tcp.status /\ d.handle_read = tcp.handle_read
        /\ tcp.status # "TERMINATED"
    BY <2>1, <1>HandlerStarts, Zenon
  <2>3. tcp.status = "TERMINATING" => "shutdown" \in tcp.cancel
    BY <2>1 DEF Core
  <2>4. PICK r : Handled(r) /\ r = IF "shutdown" \in tcp.cancel /\ d.status = "TERMINATING" THEN on_terminating(d) ELSE terminate(d)
    BY Zenon DEF ShutdownHandler, Done, Flagged, DoneOf
  <2>5. tcp' = r /\ ReleaseStarts
    BY <2>4 DEF Handled, Becomes, ReleaseStarts, NoThread
  <2> HIDE DEF d
  <2>6. Sound(d, r)
    <3>1. CASE d.status = "TERMINATING"
      BY <2>2, <2>3, <2>4, <3>1, <1>OnTerminating, Zenon
    <3>2. CASE d.status # "TERMINATING"
      <4>1. d.status \notin {"RUNNING", "INTERRUPTED"} => Watched(d)
        BY <3>2 DEF Watched, Closing
      <4> QED
        BY <2>2, <2>4, <3>2, <4>1, <1>Terminate, Zenon
    <3> QED
      BY <3>1, <3>2, Zenon
  <2>7. Sound(tcp, tcp')
    BY <2>2, <2>5, <2>6, <1>SoundFrom, Zenon
  <2>8. UNCHANGED <<calls, recv, pc, left, net, drop>>
    BY Zenon DEF ShutdownHandler, send, levin, calls
  <2> QED
    BY <2>5, <2>7, <2>8, <1>SoundKept, Zenon

<1>StartedInv.
  ASSUME IInv, Started
  PROVE  IInv'
  <2> USE <1>StartedInv
  <2> DEFINE d == [tcp EXCEPT !.wait_init = FALSE]
  <2>1. Core(tcp) /\ Watched(tcp) /\ tcp.wait_init
    BY Zenon DEF IInv, TcpInv, Started
  <2>2. /\ DOMAIN d = Fields /\ d.status = tcp.status /\ d.queue = tcp.queue /\ d.wait_callback = tcp.wait_callback
        /\ d.handle_read = tcp.handle_read /\ d.wait_release = tcp.wait_release /\ d.wait_consume = tcp.wait_consume
        /\ d.wait_init = FALSE /\ d.wait = tcp.wait /\ d.cancel = tcp.cancel /\ d.reset = tcp.reset
    BY <2>1 DEF Core, Fields
  <2>3. PICK r : /\ Handled(r)
                 /\ \/ d.status # "RUNNING" /\ r = on_closing(d)
                    \/ d.status = "RUNNING" /\ r \in start_read(d)
                    \/ d.status = "RUNNING" /\ r = start_handshake(d)
    BY DEF Started
  <2> HIDE DEF d
  <2>4. Core(d) /\ ~ d.handle_read
    BY <2>1, <2>2 DEF Core
  <2>5. Moves(tcp, d) /\ (d.status = "RUNNING" => Watched(d))
    BY <2>1, <2>2 DEF Watched, Moves, Closing
  <2>6. Sound(d, r)
    <3>1. CASE d.status # "RUNNING" /\ r = on_closing(d)
      BY <2>4, <3>1, <1>OnClosing, Zenon
    <3>2. CASE d.status = "RUNNING" /\ r \in start_read(d)
      BY <2>2, <2>4, <2>5, <3>2, <1>StartRead, Zenon
    <3>3. CASE d.status = "RUNNING" /\ r = start_handshake(d)
      BY <2>2, <2>4, <2>5, <3>3, <1>StartHandshake, Zenon
    <3> QED
      BY <2>3, <3>1, <3>2, <3>3, Zenon
  <2>7. tcp' = r /\ ReleaseStarts
    BY <2>3 DEF Handled, Becomes, ReleaseStarts, NoThread
  <2>8. Sound(tcp, tcp')
    BY <2>2, <2>5, <2>6, <2>7, <1>SoundFrom, Zenon
  <2>9. UNCHANGED <<calls, recv, pc, left, net, drop>>
    BY Zenon DEF Started, send, levin, calls
  <2> QED
    BY <2>7, <2>8, <2>9, <1>SoundKept, Zenon

\* The number of callbacks that were posted changes.
<1>Callbacks.
  ASSUME NEW s, Core(s), Watched(s), s.status # "TERMINATED", NEW n \in Nat
  PROVE  LET d == [s EXCEPT !.wait_callback = n]
         IN Core(d) /\ Moves(s, d) /\ d.handle_read = s.handle_read /\ d.status = s.status
            /\ (s.status = "RUNNING" => Watched(d)) /\ d.wait_release = s.wait_release
  <2> USE <1>Callbacks
  <2> DEFINE d == [s EXCEPT !.wait_callback = n]
  <2>1. /\ DOMAIN d = Fields /\ d.status = s.status /\ d.queue = s.queue /\ d.wait_callback = n
        /\ d.handle_read = s.handle_read /\ d.wait_release = s.wait_release /\ d.wait_consume = s.wait_consume
        /\ d.wait_init = s.wait_init /\ d.wait = s.wait /\ d.cancel = s.cancel /\ d.reset = s.reset
    BY DEF Core, Fields
  <2> HIDE DEF d
  <2>2. Core(d)
    BY <2>1 DEF Core
  <2>3. Moves(s, d) /\ (s.status = "RUNNING" => Watched(d))
    BY <2>1 DEF Watched, Moves, Closing
  <2> QED
    BY <2>1, <2>2, <2>3, Zenon DEF d

<1>RequestCallbackInv.
  ASSUME IInv, RequestCallback
  PROVE  IInv'
  <2> USE <1>RequestCallbackInv
  <2>1. Core(tcp) /\ Watched(tcp) /\ tcp.status = "RUNNING" /\ tcp' = [tcp EXCEPT !.wait_callback = @ + 1]
    BY Zenon DEF IInv, TcpInv, RequestCallback
  <2>2. tcp.wait_callback + 1 \in Nat
    BY <2>1 DEF Core
  <2>3. Sound(tcp, tcp') /\ tcp'.wait_release = tcp.wait_release
    BY <2>1, <2>2, <1>Callbacks, Zenon DEF Sound
  <2>4. ReleaseStarts
    BY <2>3, Zenon DEF ReleaseStarts, RequestCallback
  <2>5. UNCHANGED <<calls, recv, pc, left, net, drop>>
    BY Zenon DEF RequestCallback, send, levin, calls
  <2> QED
    BY <2>3, <2>4, <2>5, <1>SoundKept, Zenon

<1>RunCallbackInv.
  ASSUME IInv, RunCallback
  PROVE  IInv'
  <2> USE <1>RunCallbackInv
  <2> DEFINE d == [tcp EXCEPT !.wait_callback = @ - 1]
  <2>1. Core(tcp) /\ Watched(tcp) /\ tcp.wait_callback > 0 /\ Handled(on_closing(d))
    BY Zenon DEF IInv, TcpInv, RunCallback
  <2>2. tcp.wait_callback - 1 \in Nat /\ tcp.status # "TERMINATED"
    BY <2>1 DEF Core
  <2>3. Core(d) /\ Moves(tcp, d) /\ d.handle_read = tcp.handle_read /\ (d.status = "RUNNING" => Watched(d))
    BY <2>1, <2>2, <1>Callbacks, Zenon
  <2>4. tcp' = on_closing(d) /\ ReleaseStarts
    BY <2>1 DEF Handled, Becomes, ReleaseStarts, NoThread
  <2> HIDE DEF d
  <2>5. Sound(d, on_closing(d))
    <3>1. CASE d.status = "RUNNING"
      <4>1. on_closing(d) = d
        BY <3>1 DEF on_closing
      <4> QED
        BY <2>3, <3>1, <4>1, Zenon DEF Sound, Moves
    <3>2. CASE d.status # "RUNNING"
      BY <2>3, <3>2, <1>OnClosing, Zenon
    <3> QED
      BY <3>1, <3>2, Zenon
  <2>6. Sound(tcp, tcp')
    BY <2>3, <2>4, <2>5, <1>SoundFrom, Zenon
  <2>7. UNCHANGED <<calls, recv, pc, left, net, drop>>
    BY Zenon DEF RunCallback, send, levin, calls
  <2> QED
    BY <2>4, <2>6, <2>7, <1>SoundKept, Zenon

<1>DropInv.
  ASSUME IInv, Drop
  PROVE  IInv'
  <2> USE <1>DropInv
  <2>1. Sound(tcp, terminate(tcp))
    BY <1>Terminate, Zenon DEF IInv, TcpInv
  <2>2. tcp' = terminate(tcp) /\ ReleaseStarts
    BY DEF Drop, Handled, Becomes, ReleaseStarts, NoThread
  <2>3. UNCHANGED <<calls, recv, pc, left, net>> /\ drop = "posted" /\ drop' = "done"
    BY Zenon DEF Drop, levin, calls
  <2> QED
    BY <2>1, <2>2, <2>3, <1>SoundKept, Zenon

<1>CloseInv.
  ASSUME IInv, Close
  PROVE  IInv'
  <2> USE <1>CloseInv
  <2>1. Sound(tcp, close(tcp))
    BY <1>CloseSound, Zenon DEF IInv, TcpInv
  <2>2. tcp' = close(tcp) /\ ReleaseStarts
    BY DEF Close, Becomes, ReleaseStarts, NoThread
  <2>3. UNCHANGED <<calls, recv, pc, left, net, drop>>
    BY Zenon DEF Close, send, calls
  <2> QED
    BY <2>1, <2>2, <2>3, <1>SoundKept, Zenon

<1>ReceivedInv.
  ASSUME IInv, Received
  PROVE  IInv'
  <2> USE <1>ReceivedInv
  <2> DEFINE d == [tcp EXCEPT !.handle_read = FALSE]
  <2>1. Core(tcp) /\ Watched(tcp) /\ recv \in {"ok", "fail"} /\ recv' = "idle" /\ RecvInv
    BY Zenon DEF IInv, TcpInv, CallsInv, Received
  <2>2. tcp.handle_read /\ pc["reply"] \in {"idle", "done"}
    BY <2>1 DEF RecvInv
  <2>3. /\ DOMAIN d = Fields /\ d.status = tcp.status /\ d.queue = tcp.queue /\ d.wait_callback = tcp.wait_callback
        /\ d.handle_read = FALSE /\ d.wait_release = tcp.wait_release /\ d.wait_consume = tcp.wait_consume
        /\ d.wait_init = tcp.wait_init /\ d.wait = tcp.wait /\ d.cancel = tcp.cancel /\ d.reset = tcp.reset
    BY <2>1 DEF Core, Fields
  <2>4. PICK r : /\ Handled(r)
                 /\ \/ d.status = "RUNNING" /\ r = interrupt(d)
                    \/ d.status = "RUNNING" /\ r \in start_read(d)
                    \/ d.status # "RUNNING" /\ r = on_closing(d)
    BY DEF Received
  <2> HIDE DEF d
  <2>5. Core(d) /\ ~ d.wait_init
    BY <2>1, <2>2, <2>3 DEF Core
  <2>6. Moves(tcp, d) /\ (d.status = "RUNNING" => Watched(d))
    BY <2>1, <2>3 DEF Watched, Moves, Closing
  <2>7. Sound(d, r)
    <3>1. CASE d.status = "RUNNING" /\ r = interrupt(d)
      BY <2>5, <2>6, <3>1, <1>Interrupt, Zenon
    <3>2. CASE d.status = "RUNNING" /\ r \in start_read(d)
      BY <2>5, <2>6, <3>2, <1>StartRead, Zenon
    <3>3. CASE d.status # "RUNNING" /\ r = on_closing(d)
      BY <2>5, <3>3, <1>OnClosing, Zenon
    <3> QED
      BY <2>4, <3>1, <3>2, <3>3, Zenon
  <2>8. tcp' = r /\ ReleaseStarts
    BY <2>4 DEF Handled, Becomes, ReleaseStarts, NoThread
  <2>9. Steps
    BY <2>6, <2>7, <2>8, Zenon DEF Steps, Sound, Moves
  <2>10. UNCHANGED <<calls, pc, left, net, drop>>
    BY Zenon DEF Received, send, levin, calls
  <2>11. RecvInv'
    <3>1. tcp'.handle_read = FALSE
      BY <2>3, <2>7, <2>8, Zenon DEF Sound
    <3> QED
      BY <2>1, <2>2, <2>10, <3>1 DEF RecvInv
  <2> QED
    BY <2>9, <2>10, <2>11, HandlerKept, Zenon

\* The handler of the call's timer: close may start release_protocol.
<1>TimedOutInv.
  ASSUME IInv, NEW c \in Calls, TimedOut(c)
  PROVE  IInv'
  <2> USE <1>TimedOutInv
  <2>1. /\ timer[c] = "expired" /\ timer' = [timer EXCEPT ![c] = "off"]
        /\ results' = [results EXCEPT ![c] = Append(@, "failed")]
        /\ UNCHANGED <<guard, handlers, proto_released, timer_cancelled, recv, pc, left, drop, net>>
    BY Zenon DEF TimedOut, send
  <2>2. Sound(tcp, close(tcp))
    BY <1>CloseSound, Zenon DEF IInv, TcpInv
  <2>3. tcp' = close(tcp) /\ ReleaseStarts
    BY DEF TimedOut, Becomes, ReleaseStarts, NoThread
  <2>4. Forward /\ Moves(tcp, tcp') /\ tcp'.handle_read = tcp.handle_read
    BY <2>2, <2>3, Zenon DEF Forward, Moves, Sound
  <2>5. CallInv(c) /\ CallsInv
    BY Zenon DEF IInv, CallsInv
  <2>6. /\ timer'[c] = "off" /\ DOMAIN timer' = Calls /\ \A d \in Calls \ {c} : timer'[d] = timer[d]
        /\ DOMAIN results' = Calls /\ \A d \in Calls \ {c} : results'[d] = results[d]
        /\ results'[c] = Append(results[c], "failed")
    BY <2>1, <2>5 DEF CallsInv
  <2>7. pc[c] = "done" /\ results[c] = <<>>
    BY <2>1, <2>5 DEF CallInv
  <2>8. CallInv(c)'
    <3>1. results'[c] = <<"failed">>
      BY <2>6, <2>7
    <3> QED
      BY <2>1, <2>5, <2>6, <2>7, <3>1 DEF CallInv
  <2>9. Only(c)
    BY <2>1, <2>5, <2>6, Zenon DEF Only, CallsInv
  <2>10. RecvInv'
    BY <2>1, <2>4, <2>5, <2>9, RecvAside, Zenon
  <2>11. ReleaseInv' /\ Kept(release.todo, pc, timer_cancelled)'
    BY <2>1, <2>4, <2>5, ReleaseKept, Zenon DEF IInv, CallsInv
  <2>12. GuardInv' /\ Kept(handlers, pc, timer_cancelled)'
    BY <2>1, <2>5, Zenon DEF CallsInv, GuardInv
  <2>13. CallsInv'
    BY <2>5, <2>8, <2>9, <2>10, <2>11, <2>12, CallsMove, Zenon
  <2>14. TcpInv'
    BY <2>4, TcpKept, Zenon DEF IInv
  <2>15. ChunkInv'
    <3>1. SameWaits(pc, left, pc', left') /\ LeftInv'
      BY <2>1, Zenon DEF SameWaits, IInv, ChunkInv, LeftInv
    <3> QED
      BY <2>1, <2>4, <3>1, ChunkKept, Zenon DEF IInv, TcpInv, net
  <2>16. MatchInv'
    <3>1. Late' <=> Late
      BY <2>1, Zenon DEF Late
    <3> QED
      BY <2>1, <2>4, <2>5, <3>1, MatchKept, Zenon DEF IInv, CallsInv, net
  <2> QED
    BY <2>13, <2>14, <2>15, <2>16, Zenon DEF IInv

\* A chunk is written that is not the last of a call.
<1>OtherWritten.
  ASSUME NEW a, Len(a) \in Nat, NEW w, Len(w) \in Nat, NEW q \in Seq(Threads \X Nat), q # <<>>, Queued(a, w, q),
         \A i \in 1 .. Len(w) : w[i] \in Calls,
         \A c \in Calls : q[1] # LastChunk(c)
  PROVE  Queued(a, w, Tail(q))
  <2> USE <1>OtherWritten
  <2> DEFINE r == Tail(q)
  <2>1. Len(q) \in Nat \ {0} /\ Len(r) = Len(q) - 1 /\ \A j \in 1 .. Len(r) : r[j] = q[j + 1] /\ j + 1 \in 1 .. Len(q)
    OBVIOUS
  <2> HIDE DEF r
  <2>2. ASSUME NEW j \in 1 .. Len(q), j # 1 PROVE j - 1 \in 1 .. Len(r) /\ r[j - 1] = q[j]
    BY <2>1, <2>2
  <2>3. \A i \in Len(a) + 1 .. Len(w) : w[i] \in Calls
    OBVIOUS
  <2>4. EachQueued(a, w, r)
    <3>1. ASSUME NEW i \in Len(a) + 1 .. Len(w) PROVE \E j \in 1 .. Len(r) : r[j] = LastChunk(w[i])
      <4>1. PICK j \in 1 .. Len(q) : q[j] = LastChunk(w[i])
        BY Zenon DEF Queued, EachQueued
      <4>2. j # 1
        BY <2>3, <4>1, Zenon
      <4> QED
        BY <2>2, <4>1, <4>2, Zenon
    <3> QED
      BY <3>1, Zenon DEF EachQueued
  <2>5. NoOther(a, w, r)
    <3>1. ASSUME NEW j \in 1 .. Len(r), NEW c \in Calls, r[j] = LastChunk(c)
          PROVE  \E i \in Len(a) + 1 .. Len(w) : w[i] = c
      <4>1. q[j + 1] = LastChunk(c) /\ j + 1 \in 1 .. Len(q)
        BY <2>1, <3>1, Zenon
      <4> QED
        BY <4>1, Zenon DEF Queued, NoOther
    <3> QED
      BY <3>1, Zenon DEF NoOther
  <2>6. SameOrder(a, w, r)
    <3>1. ASSUME NEW i \in Len(a) + 1 .. Len(w), NEW m \in Len(a) + 1 .. Len(w), i <= m,
                 NEW j \in 1 .. Len(r), NEW l \in 1 .. Len(r), r[j] = LastChunk(w[i]), r[l] = LastChunk(w[m])
          PROVE  j <= l
      <4>1. q[j + 1] = LastChunk(w[i]) /\ q[l + 1] = LastChunk(w[m]) /\ j + 1 \in 1 .. Len(q) /\ l + 1 \in 1 .. Len(q)
        BY <2>1, <3>1, Zenon
      <4>2. j + 1 <= l + 1
        BY <3>1, <4>1, Zenon DEF Queued, SameOrder
      <4> QED
        BY <2>1, <4>2
    <3> QED
      BY <3>1, Zenon DEF SameOrder
  <2> QED
    BY <2>4, <2>5, <2>6, Zenon DEF Queued, r

\* The last chunk of a call is written: the peer has the request, and answers it next.
<1>LastWritten.
  ASSUME NEW a \in Seq(Calls), NEW w \in Seq(Calls), IsDistinct(w), NEW q \in Seq(Threads \X Nat), q # <<>>,
         Agree(a, w), Queued(a, w, q), NEW c \in Calls, q[1] = LastChunk(c)
  PROVE  Agree(Append(a, c), w) /\ Queued(Append(a, c), w, Tail(q))
  <2> USE <1>LastWritten
  <2> DEFINE r == Tail(q)
             b == Append(a, c)
             n == Len(a) + 1
  <2>1. Len(q) \in Nat \ {0} /\ Len(r) = Len(q) - 1 /\ \A j \in 1 .. Len(r) : r[j] = q[j + 1] /\ j + 1 \in 1 .. Len(q) /\ j + 1 # 1
    OBVIOUS
  <2>2. Len(a) \in Nat /\ n \in Nat /\ Len(b) = n /\ b[n] = c /\ \A i \in 1 .. Len(a) : b[i] = a[i]
    OBVIOUS
  <2> HIDE DEF r, b, n
  <2>3. ASSUME NEW j \in 1 .. Len(q), j # 1 PROVE j - 1 \in 1 .. Len(r) /\ r[j - 1] = q[j]
    BY <2>1, <2>3
  <2>4. PICK o \in n .. Len(w) : w[o] = c
    <3>1. 1 \in 1 .. Len(q)
      BY <2>1
    <3> QED
      BY <3>1, Zenon DEF Queued, NoOther, n
  <2>5. Len(w) \in Nat /\ n <= Len(w) /\ n \in n .. Len(w) /\ n <= o /\ n \in 1 .. Len(w)
    BY <2>2, <2>4 DEF n
  <2>6. w[n] = c
    <3>1. PICK j \in 1 .. Len(q) : q[j] = LastChunk(w[n])
      BY <2>5, Zenon DEF Queued, EachQueued, n
    <3>2. q[1] = LastChunk(w[o]) /\ 1 \in 1 .. Len(q)
      BY <2>1, <2>4
    <3>3. j <= 1
      BY <2>4, <2>5, <3>1, <3>2, Zenon DEF Queued, SameOrder, n
    <3>4. j = 1
      BY <3>3
    <3>5. LastChunk(w[n]) = LastChunk(c)
      BY <3>1, <3>4, Zenon
    <3> QED
      BY <3>5 DEF LastChunk
  <2>7. Agree(b, w)
    <3>1. ASSUME NEW i \in 1 .. n PROVE b[i] = w[i]
      <4>1. i = n \/ i \in 1 .. Len(a)
        BY <2>2 DEF n
      <4> QED
        BY <2>2, <2>6, <4>1, Zenon DEF Agree
    <3> QED
      BY <2>2, <2>5, <3>1, Zenon DEF Agree
  <2>8. ASSUME NEW i \in n + 1 .. Len(w) PROVE i \in n .. Len(w) /\ i \in 1 .. Len(w) /\ i # n
    BY <2>2, <2>5
  <2>9. EachQueued(b, w, r)
    <3>1. ASSUME NEW i \in n + 1 .. Len(w) PROVE \E j \in 1 .. Len(r) : r[j] = LastChunk(w[i])
      <4>1. i \in n .. Len(w) /\ i \in 1 .. Len(w) /\ i # n
        BY <2>8
      <4>2. PICK j \in 1 .. Len(q) : q[j] = LastChunk(w[i])
        BY <4>1, Zenon DEF Queued, EachQueued, n
      <4>3. w[i] # c
        BY <2>5, <2>6, <4>1, Zenon DEF IsDistinct
      <4>4. j # 1
        BY <4>2, <4>3 DEF LastChunk
      <4> QED
        BY <2>3, <4>2, <4>4, Zenon
    <3> QED
      BY <2>2, <3>1, Zenon DEF EachQueued
  <2>10. NoOther(b, w, r)
    <3>1. ASSUME NEW j \in 1 .. Len(r), NEW d \in Calls, r[j] = LastChunk(d)
          PROVE  \E i \in n + 1 .. Len(w) : w[i] = d
      <4>1. q[j + 1] = LastChunk(d) /\ j + 1 \in 1 .. Len(q)
        BY <2>1, <3>1, Zenon
      <4>2. PICK i \in n .. Len(w) : w[i] = d
        BY <4>1, Zenon DEF Queued, NoOther, n
      <4>3. i # n
        <5>1. SUFFICES ASSUME i = n PROVE FALSE
          BY Zenon
        <5>2. q[j + 1] = LastChunk(w[n]) /\ q[1] = LastChunk(w[n]) /\ 1 \in 1 .. Len(q) /\ n <= n
          BY <2>1, <2>2, <2>6, <4>1, <4>2, <5>1
        <5>3. j + 1 <= 1
          BY <2>5, <4>1, <5>2, Zenon DEF Queued, SameOrder, n
        <5> QED
          BY <2>1, <5>3
      <4>4. i \in n + 1 .. Len(w)
        BY <2>2, <2>5, <4>3
      <4> QED
        BY <4>2, <4>4, Zenon
    <3> QED
      BY <2>2, <3>1, Zenon DEF NoOther
  <2>11. SameOrder(b, w, r)
    <3>1. ASSUME NEW i \in Len(b) + 1 .. Len(w), NEW m \in Len(b) + 1 .. Len(w), i <= m,
                 NEW j \in 1 .. Len(r), NEW l \in 1 .. Len(r), r[j] = LastChunk(w[i]), r[l] = LastChunk(w[m])
          PROVE  j <= l
      <4>1. q[j + 1] = LastChunk(w[i]) /\ q[l + 1] = LastChunk(w[m]) /\ j + 1 \in 1 .. Len(q) /\ l + 1 \in 1 .. Len(q)
        BY <2>1, <3>1, Zenon
      <4>2. i \in n .. Len(w) /\ m \in n .. Len(w)
        BY <2>2, <2>8
      <4>3. j + 1 <= l + 1
        BY <3>1, <4>1, <4>2, Zenon DEF Queued, SameOrder, n
      <4> QED
        BY <2>1, <4>3
    <3> QED
      BY <3>1, Zenon DEF SameOrder
  <2> QED
    BY <2>7, <2>9, <2>10, <2>11, Zenon DEF Queued, r, b

\* The chunk written is the one that has to follow.
<1>OrderTail.
  ASSUME NEW w, NEW q \in Seq(Threads \X Nat), q # <<>>, InOrder(w, q)
  PROVE  Follows(w, q[1]) /\ InOrder(q[1], Tail(q)) /\ End(q[1], Tail(q)) = End(w, q)
  <2> USE <1>OrderTail
  <2> DEFINE r == Tail(q)
  <2>1. Len(q) \in Nat \ {0} /\ Len(r) = Len(q) - 1 /\ \A j \in 1 .. Len(r) : r[j] = q[j + 1]
    OBVIOUS
  <2> HIDE DEF r
  <2>2. Follows(w, q[1])
    BY <2>1 DEF InOrder
  <2>3. Len(r) > 0 => Follows(q[1], r[1])
    BY <2>1 DEF InOrder
  <2>4. ASSUME NEW i \in 1 .. Len(r) - 1 PROVE Follows(r[i], r[i + 1])
    <3>0. i + 1 \in 1 .. Len(q) - 1 /\ i \in 1 .. Len(r) /\ i + 1 \in 1 .. Len(r)
      BY <2>1
    <3>1. i + 1 \in 1 .. Len(q) - 1 /\ r[i] = q[i + 1] /\ r[i + 1] = q[(i + 1) + 1]
      BY <2>1, <3>0, Zenon
    <3> QED
      BY <3>1, Zenon DEF InOrder
  <2>5. End(q[1], r) = End(w, q)
    BY <2>1 DEF End
  <2> QED
    BY <2>2, <2>3, <2>4, <2>5, Zenon DEF InOrder, r

\* The queue is cleared when a write is cancelled or fails.
<1>ClearedQueue.
  ASSUME NEW s, Core(s), "write" \notin s.wait
  PROVE  LET d == [s EXCEPT !.queue = <<>>]
         IN Core(d) /\ d.status = s.status /\ d.handle_read = s.handle_read /\ d.wait_release = s.wait_release
  <2> USE <1>ClearedQueue
  <2> DEFINE d == [s EXCEPT !.queue = <<>>]
  <2>1. /\ DOMAIN d = Fields /\ d.status = s.status /\ d.queue = <<>> /\ d.wait_callback = s.wait_callback
        /\ d.handle_read = s.handle_read /\ d.wait_release = s.wait_release /\ d.wait_consume = s.wait_consume
        /\ d.wait_init = s.wait_init /\ d.wait = s.wait /\ d.cancel = s.cancel /\ d.reset = s.reset
    BY DEF Core, Fields
  <2> HIDE DEF d
  <2>2. Core(d)
    BY <2>1 DEF Core
  <2> QED
    BY <2>1, <2>2, Zenon DEF d

\* on_write removes the chunk that was written, and wakes the senders.
<1>TakenFromQueue.
  ASSUME NEW s, Core(s), Watched(s), s.status = "RUNNING", "write" \notin s.wait, s.queue # <<>>
  PROVE  LET d == notify_all([s EXCEPT !.queue = Tail(@)])
         IN /\ Core(d) /\ Watched(d) /\ d.status = "RUNNING" /\ d.handle_read = s.handle_read
            /\ d.wait_release = s.wait_release /\ d.queue = Tail(s.queue) /\ d.wait_consume = s.wait_consume
  <2> USE <1>TakenFromQueue
  <2> DEFINE d == notify_all([s EXCEPT !.queue = Tail(@)])
  <2>1. /\ DOMAIN d = Fields /\ d.status = s.status /\ d.queue = Tail(s.queue) /\ d.wait_callback = s.wait_callback
        /\ d.handle_read = s.handle_read /\ d.wait_release = s.wait_release /\ d.wait_consume = s.wait_consume
        /\ d.wait_init = s.wait_init /\ d.wait = s.wait /\ d.cancel = s.cancel /\ d.reset = s.reset
    BY DEF Core, Fields, notify_all
  <2> HIDE DEF d
  <2>2. Tail(s.queue) \in Seq(Threads \X Nat)
    BY DEF Core
  <2>3. Core(d)
    BY <2>1, <2>2 DEF Core
  <2>4. Watched(d)
    BY <2>1 DEF Watched, Closing
  <2> QED
    BY <2>1, <2>3, <2>4, Zenon DEF d

\* The write was cancelled, or failed: the connection closes.
<1>WriteStopped.
  ASSUME IInv, tcp'.queue = <<>>, tcp'.status \notin Open, Core(tcp'), Watched(tcp'), ReleaseStarts,
         tcp.wait_release => tcp'.wait_release, tcp'.handle_read = tcp.handle_read,
         UNCHANGED <<calls, recv, pc, left, net, drop>>
  PROVE  IInv'
  <2> USE <1>WriteStopped
  <2>1. Forward
    BY Zenon DEF Forward
  <2>2. RecvInv'
    BY Zenon DEF IInv, CallsInv, RecvInv
  <2>3. TcpInv' /\ CallsInv'
    BY <2>1, <2>2, TcpKept, CallsKept, Zenon DEF IInv
  <2>4. ChunkInv'
    BY Zenon DEF IInv, ChunkInv, LeftInv, ChunksTogether, net
  <2>5. (Late' <=> Late) /\ Answers' = Answers /\ Waiting' = Waiting
    BY Zenon DEF Late, calls, Answers, Waiting, net
  <2>6. MatchInv'
    BY <2>5, Zenon DEF IInv, MatchInv, net, calls
  <2> QED
    BY <2>3, <2>4, <2>6, Zenon DEF IInv

\* The next chunk of the queue was written.
<1>ChunkWritten.
  ASSUME IInv, tcp.queue # <<>>, tcp.status = "RUNNING", tcp'.queue = Tail(tcp.queue), tcp'.status = "RUNNING",
         Core(tcp'), Watched(tcp'), ReleaseStarts, tcp.wait_release => tcp'.wait_release,
         tcp'.handle_read = tcp.handle_read, tcp'.wait_consume = tcp.wait_consume,
         wire' = Head(tcp.queue), torn' = (torn \/ ~ Continues(wire')),
         peer' = IF ~ torn' /\ wire'[1] \in Calls /\ wire'[2] = Chunks[wire'[1]]
                 THEN Append(peer, wire'[1]) ELSE peer,
         UNCHANGED <<calls, recv, pc, left, inbox, drop>>
  PROVE  IInv'
  <2> USE <1>ChunkWritten
  <2>1. Forward /\ tcp.queue \in Seq(Threads \X Nat) /\ tcp.status \in Open
    BY Zenon DEF Forward, IInv, TcpInv, Core, Open
  <2>2. RecvInv'
    BY Zenon DEF IInv, CallsInv, RecvInv
  <2>3. TcpInv' /\ CallsInv'
    BY <2>1, <2>2, TcpKept, CallsKept, Zenon DEF IInv
  <2>4. PICK x \in Threads \X Nat : x = wire' /\ x = tcp.queue[1]
    BY <2>1
  <2>5. x = <<x[1], x[2]>>
    BY <2>4
  <2>6. torn' <=> (torn \/ ~ Follows(wire, x))
    BY <2>4, Zenon DEF Continues, Follows
  <2>7. ASSUME drop = "no"
        PROVE  /\ ~ torn' /\ InOrder(x, tcp'.queue)
               /\ Goes(End(x, tcp'.queue), pc', left', tcp'.wait_consume)
    <3>1. InOrder(wire, tcp.queue) /\ Goes(End(wire, tcp.queue), pc, left, tcp.wait_consume) /\ ~ torn
      BY <2>1, <2>7, Zenon DEF IInv, ChunkInv, ChunksTogether
    <3>2. Follows(wire, x) /\ InOrder(x, Tail(tcp.queue)) /\ End(x, Tail(tcp.queue)) = End(wire, tcp.queue)
      BY <2>1, <2>4, <3>1, <1>OrderTail, Zenon
    <3> QED
      BY <2>6, <3>1, <3>2, Zenon
  <2>8. ChunkInv'
    <3>1. torn' \in BOOLEAN
      OBVIOUS
    <3>2. LeftInv'
      BY Zenon DEF IInv, ChunkInv, LeftInv
    <3>3. drop' = drop /\ drop \in {"no", "posted", "done"} /\ wire' = x
      BY <2>4, Zenon DEF IInv, ChunkInv
    <3>4. ChunksTogether'
      BY <2>7, <3>3, Zenon DEF ChunksTogether
    <3> QED
      BY <2>7, <3>1, <3>2, <3>3, <3>4, Zenon DEF ChunkInv
  <2>9. (Late' <=> Late) /\ Waiting' = Waiting /\ ~ proto_released /\ proto_released' = proto_released
    BY <2>1, Zenon DEF Late, calls, Waiting, IInv, CallsInv, ReleaseInv
  <2>10. Waiting \in Seq(Calls) /\ IsDistinct(Waiting) /\ inbox \in Seq(Calls) /\ peer \in Seq(Calls)
    BY WaitingCalls, Zenon DEF IInv, MatchInv
  <2>11. Answers \in Seq(Calls) /\ inbox' = inbox
    <3>1. inbox \o peer \in Seq(Calls)
      BY <2>10
    <3> QED
      BY <3>1, Zenon DEF Answers
  <2>12. CASE torn'
    <3>1. peer' = peer /\ Answers' = Answers
      BY <2>11, <2>12, Zenon DEF Answers
    <3>2. MatchInv'
      BY <2>9, <2>10, <2>11, <2>12, <3>1, Zenon DEF IInv, MatchInv
    <3> QED
      BY <2>3, <2>8, <3>2, Zenon DEF IInv
  <2>13. CASE ~ torn'
    <3>1. ~ Late => Agree(Answers, Waiting) /\ Queued(Answers, Waiting, tcp.queue)
      BY <2>1, <2>6, <2>9, <2>13, Zenon DEF IInv, MatchInv
    <3>2. CASE x[1] \in Calls /\ x[2] = Chunks[x[1]]
      <4>1. PICK c \in Calls : c = x[1]
        BY <3>2, Zenon
      <4>2. peer' = Append(peer, c) /\ tcp.queue[1] = LastChunk(c)
        BY <2>4, <2>5, <2>13, <3>2, <4>1, Zenon DEF LastChunk
      <4>3. peer' \in Seq(Calls) /\ inbox \o Append(peer, c) = Append(inbox \o peer, c)
        BY <2>10, <4>2
      <4>4. Answers' = Append(Answers, c)
        BY <2>11, <4>2, <4>3, Zenon DEF Answers
      <4>5. ~ Late => Agree(Append(Answers, c), Waiting) /\ Queued(Append(Answers, c), Waiting, Tail(tcp.queue))
        BY <2>1, <2>10, <2>11, <3>1, <4>2, <1>LastWritten, Zenon
      <4>6. MatchInv'
        BY <2>9, <2>10, <2>11, <4>3, <4>4, <4>5, Zenon DEF MatchInv
      <4> QED
        BY <2>3, <2>8, <4>6, Zenon DEF IInv
    <3>3. CASE ~ (x[1] \in Calls /\ x[2] = Chunks[x[1]])
      <4>1. peer' = peer /\ Answers' = Answers
        BY <2>4, <2>11, <3>3, Zenon DEF Answers
      <4>2. \A c \in Calls : tcp.queue[1] # LastChunk(c)
        BY <2>4, <3>3 DEF LastChunk
      <4>3. /\ Len(Answers) \in Nat /\ Len(Waiting) \in Nat
            /\ \A i \in 1 .. Len(Waiting) : Waiting[i] \in Calls
        BY <2>10, <2>11
      <4>4. ~ Late => Queued(Answers, Waiting, Tail(tcp.queue))
        BY <2>1, <3>1, <4>2, <4>3, <1>OtherWritten, Zenon
      <4>5. MatchInv'
        BY <2>9, <2>10, <2>11, <3>1, <4>1, <4>4, Zenon DEF MatchInv
      <4> QED
        BY <2>3, <2>8, <4>5, Zenon DEF IInv
    <3> QED
      BY <3>2, <3>3, Zenon
  <2> QED
    BY <2>12, <2>13, Zenon

<1>StartTimer.
  ASSUME NEW s, Core(s), s.status = "RUNNING"
  PROVE  Core(start_timer(s)) /\ Moves(s, start_timer(s)) /\ start_timer(s).status = "RUNNING"
         /\ (("timer" \in s.cancel => s.reset) => Watched(start_timer(s)))
         /\ start_timer(s).handle_read = s.handle_read
  BY <1>StartTimer DEF Core, Watched, Moves, Fields, Open, Closing, start_timer

<1>WriteHandlerInv.
  ASSUME IInv, WriteHandler
  PROVE  IInv'
  <2> USE <1>WriteHandlerInv
  <2> DEFINE s == DoneOf(tcp, "write")
             cleared == [s EXCEPT !.queue = <<>>]
  <2>1. Core(tcp) /\ Watched(tcp) /\ "write" \in tcp.wait /\ tcp.queue # <<>>
    BY Zenon DEF IInv, TcpInv, Core, WriteHandler
  <2>2. /\ Core(s) /\ Moves(tcp, s) /\ s.status = tcp.status /\ s.handle_read = tcp.handle_read
        /\ s.status = "RUNNING" => Watched(s) /\ ("timer" \in s.cancel => s.reset)
        /\ tcp.status # "TERMINATED" /\ ("write" \notin tcp.cancel => tcp.status = "RUNNING")
    BY <2>1, <1>HandlerStarts
  <2>3. "write" \notin s.wait
    BY <2>1 DEF DoneOf, Core, Fields
  <2>4. UNCHANGED <<calls, recv, pc, left, drop>>
    BY Zenon DEF WriteHandler, levin, send, calls
  <2>5. \/ /\ \E r : Handled(r) /\ (r = state_status_check(cleared) \/ (s.status = "RUNNING" /\ r = interrupt(cleared)))
           /\ UNCHANGED net
        \/ /\ \E t \in start_write(notify_all([start_timer(s) EXCEPT !.queue = Tail(@)])) : Handled(t)
           /\ wire' = Head(tcp.queue) /\ torn' = (torn \/ ~ Continues(wire'))
           /\ peer' = IF ~ torn' /\ wire'[1] \in Calls /\ wire'[2] = Chunks[wire'[1]]
                      THEN Append(peer, wire'[1]) ELSE peer
           /\ UNCHANGED inbox /\ s.status = "RUNNING"
    BY <2>2, Zenon DEF WriteHandler, DoneOf, Done, Flagged
  <2> HIDE DEF s
  <2>6. CASE /\ \E r : Handled(r) /\ (r = state_status_check(cleared) \/ (s.status = "RUNNING" /\ r = interrupt(cleared)))
             /\ UNCHANGED net
    <3>1. /\ Core(cleared) /\ cleared.status = s.status /\ cleared.handle_read = s.handle_read
          /\ cleared.wait_release = s.wait_release /\ cleared.queue = <<>>
      <4>1. cleared.queue = <<>>
        BY <2>2 DEF Core, Fields
      <4> QED
        BY <2>2, <2>3, <4>1, <1>ClearedQueue, Zenon
    <3>2. PICK r : Handled(r) /\ (r = state_status_check(cleared) \/ (s.status = "RUNNING" /\ r = interrupt(cleared)))
      BY <2>6, Zenon
    <3> HIDE DEF cleared
    <3>3. Sound(cleared, r) /\ r.status # "RUNNING"
      BY <3>1, <3>2, <1>StatusCheck, <1>Interrupt, Zenon
    <3>4. tcp' = r /\ ReleaseStarts
      BY <3>2, Zenon DEF Handled, Becomes, ReleaseStarts, NoThread
    <3>5. r.status \notin Open
      BY <2>2, <3>1, <3>3 DEF Sound, Moves, Open
    <3>6. Core(r) /\ Watched(r) /\ r.queue = <<>> /\ r.handle_read = tcp.handle_read
      BY <2>2, <3>1, <3>3, Zenon DEF Sound, Moves
    <3>7. tcp.wait_release => r.wait_release
      BY <2>2, <3>1, <3>3, Zenon DEF Sound, Moves
    <3> QED
      BY <2>4, <2>6, <3>4, <3>5, <3>6, <3>7, <1>WriteStopped, Zenon
  <2>7. CASE /\ \E t \in start_write(notify_all([start_timer(s) EXCEPT !.queue = Tail(@)])) : Handled(t)
             /\ wire' = Head(tcp.queue) /\ torn' = (torn \/ ~ Continues(wire'))
             /\ peer' = IF ~ torn' /\ wire'[1] \in Calls /\ wire'[2] = Chunks[wire'[1]]
                        THEN Append(peer, wire'[1]) ELSE peer
             /\ UNCHANGED inbox /\ s.status = "RUNNING"
    <3> DEFINE a == start_timer(s)
               b == notify_all([a EXCEPT !.queue = Tail(@)])
    <3>1. Core(a) /\ Moves(s, a) /\ a.status = "RUNNING" /\ Watched(a) /\ a.handle_read = s.handle_read
      BY <2>2, <2>7, <1>StartTimer, Zenon
    <3>2. "write" \notin a.wait
      BY <2>2, <2>3 DEF start_timer, Core, Fields
    <3>3. PICK t \in start_write(b) : Handled(t)
      BY <2>7, Zenon
    <3> HIDE DEF a
    <3>4. a.queue = tcp.queue /\ a.wait_consume = tcp.wait_consume /\ (tcp.wait_release => a.wait_release)
      BY <2>2, <3>1, Zenon DEF Moves
    <3>5. /\ Core(b) /\ Watched(b) /\ b.status = "RUNNING" /\ b.handle_read = a.handle_read
          /\ b.wait_release = a.wait_release /\ b.queue = Tail(a.queue) /\ b.wait_consume = a.wait_consume
      BY <2>1, <3>1, <3>2, <3>4, <1>TakenFromQueue, Zenon
    <3> HIDE DEF b
    <3>6. Sound(b, t) /\ t.status = "RUNNING"
      BY <3>3, <3>5, StartWrite, Zenon
    <3>7. tcp' = t /\ ReleaseStarts
      BY <3>3 DEF Handled, Becomes, ReleaseStarts, NoThread
    <3>8. /\ Core(t) /\ Watched(t) /\ t.queue = Tail(tcp.queue) /\ t.wait_consume = tcp.wait_consume
          /\ t.handle_read = tcp.handle_read /\ (tcp.wait_release => t.wait_release)
      BY <2>2, <3>1, <3>4, <3>5, <3>6, Zenon DEF Sound, Moves
    <3> QED
      BY <2>1, <2>2, <2>4, <2>7, <3>6, <3>7, <3>8, <1>ChunkWritten, Zenon
  <2> QED
    BY <2>5, <2>6, <2>7, Zenon
<1> QED
  BY <1>StartInv, <1>StartedInv, <1>RequestCallbackInv, <1>RunCallbackInv, <1>DropInv, <1>CloseInv,
     <1>ReceivedInv, <1>ReleasedInv, <1>TimerHandlerInv, <1>ReadHandlerInv, <1>HandshakeHandlerInv,
     <1>ShutdownHandlerInv, <1>WriteHandlerInv, <1>ThrottleHandlerInv, <1>TimedOutInv, Zenon DEF HandlerStep

----------------------------------------------------------------------------
(* The calls. *)

\* Nothing but the place of the call c changes.
Moving(c, place) ==
  /\ pc' = [pc EXCEPT ![c] = place]
  /\ UNCHANGED <<handlers, proto_released, timer, timer_cancelled, results, tcp, release, recv, left, drop, net>>

\* cancel_timer is called for the call c, and the callback if that cancelled it.
Cancelling(c) ==
  /\ TimerCancelled(c)
  /\ \E r \in {"answered", "failed"} :
       results' = IF Cancels(c) THEN [results EXCEPT ![c] = Append(@, r)] ELSE results

CallStep ==
  \/ \E c \in Calls : Invoke(c) \/ LockHandlers(c) \/ AddHandler(c) \/ Expire(c)
  \/ ReleaseProtocol \/ CancelCall \/ PeerAnswers \/ HandleRecv

\* A call moves on, its handler is added, called or cancelled, or an answer arrives: the handlers wait for
\* the answers in the order of their calls.
LEMMA CallStepInv ==
  IInv /\ CallStep => IInv'
\* The connection and handle_recv do not notice.
<1>CallMoves.
  ASSUME CallsInv, NEW c \in Calls, Only(c), CallInv(c)', GuardInv', Kept(handlers, pc, timer_cancelled)',
         Kept(release.todo, pc, timer_cancelled)', ReleaseInv', UNCHANGED <<tcp, recv>>
  PROVE  CallsInv'
  <2> USE <1>CallMoves
  <2>1. RecvInv'
    BY RecvAside, Zenon
  <2> QED
    BY <2>1, CallsMove, Zenon

<1>CallPlace.
  ASSUME IInv, NEW c \in Calls, NEW place, Moving(c, place), GuardInv',
         \/ pc[c] = "idle" /\ place \in {"found", "refused"}
         \/ pc[c] = "found" /\ place = "send"
  PROVE  IInv'
  <2> USE <1>CallPlace
  <2>1. /\ pc[c] \notin {"done", "sent", "consume"} /\ place \notin {"done", "sent", "consume"}
        /\ place \in {"found", "refused", "send"}
    BY Zenon
  <2>2. pc'[c] = place /\ DOMAIN pc' = Threads /\ \A t \in Threads \ {c} : pc'[t] = pc[t]
    BY NotReply DEF Moving, IInv, CallsInv
  <2>3. Only(c)
    BY <2>2, Zenon DEF Only, Moving, IInv, CallsInv
  <2>4. CallInv(c)'
    BY <2>1, <2>2 DEF IInv, CallsInv, CallInv, Moving, Holding
  <2>5. Kept(handlers, pc, timer_cancelled)' /\ Kept(release.todo, pc, timer_cancelled)'
    BY <2>1, <2>3, KeptOthers, Zenon DEF IInv, Moving
  <2>6. \A d \in Calls : (pc[d] = "sent" <=> pc'[d] = "sent")
    BY <2>1, <2>2, NotReply, Zenon
  <2>7. ReleaseInv'
    BY <2>6, Zenon DEF IInv, CallsInv, ReleaseInv, Moving
  <2>8. CallsInv'
    BY <2>3, <2>4, <2>5, <2>7, <1>CallMoves, Zenon DEF IInv, Moving
  <2>9. TcpInv'
    BY Zenon DEF IInv, TcpInv, Moving
  <2>10. Moves(tcp, tcp')
    BY Zenon DEF Moves, Moving
  <2>11. LeftInv'
    <3>1. left' = left /\ LeftInv
      BY Zenon DEF Moving, IInv, ChunkInv
    <3>2. place = "send" => left[c] = Size(c)
      BY <3>1, Zenon DEF LeftInv
    <3>3. Size(c) \in Nat \ {0}
      BY ConnectionAssumption DEF Size
    <3>4. Size(c) \in 1 .. Size(c)
      BY <3>3
    <3> QED
      BY <2>1, <2>2, <3>1, <3>2, <3>4, NotReply, Zenon DEF LeftInv
  <2>12. ChunkInv'
    <3>1. SameWaits(pc, left, pc', left')
      BY <2>1, <2>2, Zenon DEF SameWaits, Moving
    <3> QED
      BY <2>10, <2>11, <3>1, ChunkKept, Zenon DEF IInv, TcpInv, Moving, net
  <2>13. Late' <=> Late
    BY Zenon DEF Late, Moving
  <2>14. MatchInv'
    BY <2>6, <2>10, <2>13, MatchKept, Zenon DEF IInv, CallsInv, Moving, net
  <2> QED
    BY <2>8, <2>9, <2>12, <2>14, Zenon DEF IInv

<1>InvokeInv.
  ASSUME IInv, NEW c \in Calls, Invoke(c)
  PROVE  IInv'
  <2> USE <1>InvokeInv
  <2>1. PICK place \in {"found", "refused"} : pc' = [pc EXCEPT ![c] = place]
    BY Zenon DEF Invoke
  <2>2. pc[c] = "idle" /\ guard' = guard /\ Moving(c, place)
    BY <2>1, Zenon DEF Invoke, Moving, levin
  <2>3. GuardInv'
    <3>1. \A d \in Calls : pc'[d] \in Holding <=> pc[d] \in Holding
      BY <2>1, <2>2, NotReply DEF Holding, IInv, CallsInv
    <3> QED
      BY <2>2, <3>1, Zenon DEF IInv, CallsInv, GuardInv
  <2> QED
    BY <2>2, <2>3, <1>CallPlace, Zenon

<1>LockHandlersInv.
  ASSUME IInv, NEW c \in Calls, LockHandlers(c)
  PROVE  IInv'
  <2> USE <1>LockHandlersInv
  <2>1. pc[c] = "found" /\ guard = {} /\ guard' = {c} /\ Moving(c, "send")
    BY Zenon DEF LockHandlers, Moving
  <2>2. GuardInv'
    <3>1. \A d \in Calls : pc'[d] \in Holding <=> d = c
      BY <2>1, NotReply DEF Moving, Holding, IInv, CallsInv, GuardInv
    <3> QED
      BY <2>1, <3>1, Zenon DEF GuardInv
  <2> QED
    BY <2>1, <2>2, <1>CallPlace, Zenon

\* Only the timer of a call goes off.
<1>ExpireInv.
  ASSUME IInv, NEW c \in Calls, Expire(c)
  PROVE  IInv'
  <2> USE <1>ExpireInv
  <2>1. /\ timer[c] = "armed" /\ timer' = [timer EXCEPT ![c] = "expired"]
        /\ UNCHANGED <<guard, handlers, proto_released, timer_cancelled, results, tcp, release, recv, pc, left, drop, net>>
    BY Zenon DEF Expire, send
  <2>2. CallInv(c) /\ CallsInv
    BY Zenon DEF IInv, CallsInv
  <2>3. timer'[c] = "expired" /\ DOMAIN timer' = Calls /\ \A d \in Calls \ {c} : timer'[d] = timer[d]
    BY <2>1, <2>2 DEF CallsInv
  <2>4. Only(c)
    BY <2>1, <2>2, <2>3, Zenon DEF Only, CallsInv
  <2>5. CallInv(c)'
    BY <2>1, <2>2, <2>3 DEF CallInv
  <2>6. Kept(handlers, pc, timer_cancelled)' /\ Kept(release.todo, pc, timer_cancelled)'
    BY <2>1, <2>2, Zenon DEF CallsInv
  <2>7. GuardInv' /\ ReleaseInv'
    BY <2>1, <2>2, Zenon DEF CallsInv, GuardInv, ReleaseInv
  <2>8. CallsInv'
    BY <2>1, <2>2, <2>4, <2>5, <2>6, <2>7, <1>CallMoves, Zenon
  <2>9. TcpInv' /\ Moves(tcp, tcp')
    BY <2>1, Zenon DEF IInv, TcpInv, Moves
  <2>10. ChunkInv'
    <3>1. SameWaits(pc, left, pc', left') /\ LeftInv'
      BY <2>1, Zenon DEF SameWaits, IInv, ChunkInv, LeftInv
    <3> QED
      BY <2>1, <2>9, <3>1, ChunkKept, Zenon DEF IInv, TcpInv, net
  <2>11. MatchInv'
    <3>1. Late' <=> Late
      BY <2>1, Zenon DEF Late
    <3> QED
      BY <2>1, <2>2, <2>9, <3>1, MatchKept, Zenon DEF IInv, CallsInv, net
  <2> QED
    BY <2>8, <2>9, <2>10, <2>11, Zenon DEF IInv

\* The calls that wait for an answer stay the same.
<1>MatchSame.
  ASSUME MatchInv, Moves(tcp, tcp'), UNCHANGED <<proto_released, torn>>, Late' <=> Late, Waiting' = Waiting,
         Answers' = Answers, inbox' \in Seq(Calls), peer' \in Seq(Calls)
  PROVE  MatchInv'
  <2> USE <1>MatchSame
  <2>1. tcp'.queue = tcp.queue /\ (tcp'.status \in Open => tcp.status \in Open)
    BY Zenon DEF Moves
  <2> QED
    BY <2>1, Zenon DEF MatchInv

<1>LeftStays.
  ASSUME LeftInv, left' = left,
         \A t \in Threads : pc'[t] = pc[t] \/ pc'[t] \in {"sent", "done"}
  PROVE  LeftInv'
  <2> USE <1>LeftStays
  <2>1. \A t \in Threads : pc'[t] \notin {"sent", "done"} => pc'[t] = pc[t]
    BY Zenon
  <2>2. \A t \in Threads : pc'[t] \in {"send", "sender", "consume", "idle", "found"} => pc'[t] = pc[t]
    BY <2>1
  <2>3. \A t \in Threads : pc'[t] \in {"send", "sender", "consume"} => left'[t] \in 1 .. Size(t)
    BY <2>2, Zenon DEF LeftInv
  <2>4. \A t \in Threads : pc'[t] \in {"send", "sender"} => left'[t] = Size(t)
    BY <2>2, Zenon DEF LeftInv
  <2>5. \A c \in Calls : pc'[c] \in {"idle", "found"} => left'[c] = Size(c)
    BY <2>2, NotReply, Zenon DEF LeftInv
  <2> QED
    BY <2>3, <2>4, <2>5, Zenon DEF LeftInv

<1>AddHandlerInv.
  ASSUME IInv, NEW c \in Calls, AddHandler(c)
  PROVE  IInv'
  <2> USE <1>AddHandlerInv
  <2>1. CallInv(c) /\ CallsInv
    BY Zenon DEF IInv, CallsInv
  <2>2. pc[c] = "sent" /\ ~ proto_released
    BY <2>1, Zenon DEF AddHandler, CallsInv, ReleaseInv
  <2>3. /\ pc' = [pc EXCEPT ![c] = "done"] /\ guard' = guard \ {c} /\ handlers' = Append(handlers, c)
        /\ timer' = [timer EXCEPT ![c] = "armed"]
        /\ UNCHANGED <<proto_released, timer_cancelled, results, tcp, release, recv, left, drop, net>>
    BY <2>2, Zenon DEF AddHandler
  <2>4. /\ pc'[c] = "done" /\ DOMAIN pc' = Threads /\ \A t \in Threads \ {c} : pc'[t] = pc[t]
        /\ timer'[c] = "armed" /\ DOMAIN timer' = Calls /\ \A d \in Calls \ {c} : timer'[d] = timer[d]
    BY <2>1, <2>3, NotReply DEF CallsInv
  <2>5. Only(c)
    BY <2>1, <2>3, <2>4, Zenon DEF Only, CallsInv
  <2>6. timer_cancelled[c] = "no" /\ results[c] = <<>>
    BY <2>1, <2>2 DEF CallInv
  <2>7. CallInv(c)'
    BY <2>3, <2>4, <2>6 DEF CallInv
  <2>8. \A i \in 1 .. Len(handlers) : handlers[i] # c
    BY <2>1, <2>2, NotKept, Zenon DEF CallsInv
  <2>9. Kept(handlers, pc, timer_cancelled)'
    <3>1. Kept(handlers, pc', timer_cancelled')
      BY <2>1, <2>5, <2>8, KeptStays, Zenon DEF CallsInv
    <3>2. handlers \in Seq(Calls) /\ IsDistinct(handlers)
      BY <3>1, Zenon DEF Kept
    <3>3. /\ handlers' \in Seq(Calls) /\ Len(handlers') = Len(handlers) + 1 /\ handlers'[Len(handlers) + 1] = c
          /\ \A i \in 1 .. Len(handlers) : handlers'[i] = handlers[i]
      BY <2>3, <3>2
    <3>4. IsDistinct(handlers')
      BY <2>8, <3>2, <3>3 DEF IsDistinct
    <3>5. \A i \in 1 .. Len(handlers') : i = Len(handlers) + 1 \/ i \in 1 .. Len(handlers)
      BY <3>2, <3>3
    <3>6. ASSUME NEW i \in 1 .. Len(handlers')
          PROVE  pc'[handlers'[i]] = "done" /\ timer_cancelled'[handlers'[i]] # "yes"
      <4>1. CASE i = Len(handlers) + 1
        BY <2>3, <2>4, <2>6, <3>3, <4>1
      <4>2. CASE i \in 1 .. Len(handlers)
        BY <3>1, <3>3, <4>2, Zenon DEF Kept
      <4> QED
        BY <3>5, <4>1, <4>2, Zenon
    <3> QED
      BY <3>3, <3>4, <3>6, Zenon DEF Kept
  <2>10. Kept(release.todo, pc, timer_cancelled)'
    <3>1. timer_cancelled'[c] # "yes"
      BY <2>3, <2>6
    <3>2. Kept(release.todo, pc', timer_cancelled')
      BY <2>1, <2>4, <2>5, <3>1, KeptStays, Zenon DEF CallsInv
    <3> QED
      BY <2>3, <3>2, Zenon
  <2>11. \A d \in Calls : pc'[d] = "sent" => pc[d] = "sent"
    BY <2>4, NotReply, Zenon
  <2>12. GuardInv' /\ \A d \in Calls : pc'[d] # "sent"
    <3>1. \A d \in Calls : pc[d] \in Holding <=> d = c
      BY <2>1, <2>2 DEF CallsInv, GuardInv, Holding
    <3>2. \A d \in Calls : pc'[d] \notin Holding
      BY <2>4, <3>1, NotReply DEF Holding
    <3>3. guard' = {}
      BY <2>1, <2>3, <3>1 DEF CallsInv, GuardInv
    <3>4. \A d \in Calls : pc'[d] # "sent"
      BY <3>2, Zenon DEF Holding
    <3> QED
      BY <3>2, <3>3, <3>4, Zenon DEF GuardInv
  <2>13. ReleaseInv'
    BY <2>1, <2>2, <2>3, Zenon DEF CallsInv, ReleaseInv
  <2>14. CallsInv'
    BY <2>1, <2>3, <2>5, <2>7, <2>9, <2>10, <2>12, <2>13, <1>CallMoves, Zenon
  <2>15. TcpInv' /\ Moves(tcp, tcp')
    BY <2>3, Zenon DEF IInv, TcpInv, Moves
  <2>16. ChunkInv'
    <3>1. SameWaits(pc, left, pc', left')
      BY <2>2, <2>3, <2>4, Zenon DEF SameWaits
    <3>2. LeftInv'
      BY <2>3, <2>4, <1>LeftStays, Zenon DEF IInv, ChunkInv
    <3> QED
      BY <2>3, <2>15, <3>1, <3>2, ChunkKept, Zenon DEF IInv, TcpInv, net
  <2>17. MatchInv'
    <3>1. Late' <=> Late
      <4>1. handlers \in Seq(Calls)
        BY <2>1, Zenon DEF CallsInv, Kept
      <4>2. CASE handlers = <<>>
        BY <2>3, <2>6, <4>2 DEF Late
      <4>3. CASE handlers # <<>>
        <5>1. handlers'[1] = handlers[1] /\ handlers' # <<>>
          BY <2>3, <4>1, <4>3
        <5> QED
          BY <2>3, <4>3, <5>1, Zenon DEF Late
      <4> QED
        BY <4>2, <4>3
    <3>2. Waiting' = Waiting
      <4>1. WaitingAt(pc, handlers) = Append(handlers, c)
        BY <2>1, <2>2, OneSends, WaitingIs, Zenon DEF CallsInv
      <4>2. SentAlone(pc')
        BY <2>12, Zenon DEF SentAlone
      <4>3. WaitingAt(pc', handlers') = handlers'
        BY <2>12, <4>2, WaitingIs, Zenon
      <4> QED
        BY <2>3, <4>1, <4>3, Zenon DEF Waiting
    <3> QED
      BY <2>3, <2>15, <3>1, <3>2, <1>MatchSame, Zenon DEF IInv, MatchInv, Answers, net
  <2> QED
    BY <2>14, <2>15, <2>16, <2>17, Zenon DEF IInv

\* release_protocol takes the handlers.
<1>ReleaseProtocolInv.
  ASSUME IInv, ReleaseProtocol
  PROVE  IInv'
  <2> USE <1>ReleaseProtocolInv
  <2>1. /\ release.stage = "lock" /\ guard = {} /\ release' = [release EXCEPT !.stage = "cancel", !.todo = handlers]
        /\ handlers' = <<>> /\ proto_released' = TRUE
        /\ UNCHANGED <<tcp, guard, timer, timer_cancelled, results, recv, pc, left, drop, net>>
    BY Zenon DEF ReleaseProtocol, send
  <2>2. CallsInv /\ TcpInv
    BY Zenon DEF IInv
  <2>3. /\ DOMAIN release' = {"stage", "todo", "unlist", "finish"}
        /\ release'.stage = "cancel" /\ release'.todo = handlers
    BY <2>1, <2>2 DEF CallsInv, ReleaseInv
  <2>4. tcp.wait_release /\ tcp.status \notin Open
    BY <2>1, <2>2 DEF TcpInv, Core
  <2>5. \A c \in Calls : pc[c] # "sent"
    BY <2>1, <2>2, Zenon DEF CallsInv, GuardInv, Holding
  <2>6. Kept(handlers, pc, timer_cancelled)'
    BY <2>1 DEF Kept, IsDistinct
  <2>7. Kept(release.todo, pc, timer_cancelled)'
    BY <2>1, <2>2, <2>3, Zenon DEF CallsInv
  <2>8. ReleaseInv'
    BY <2>1, <2>3, <2>4, <2>5 DEF ReleaseInv
  <2>9. GuardInv' /\ RecvInv' /\ \A c \in Calls : CallInv(c)'
    BY <2>1, <2>2, Zenon DEF CallsInv, GuardInv, RecvInv, CallInv
  <2>10. CallsInv'
    BY <2>1, <2>2, <2>6, <2>7, <2>8, <2>9, Zenon DEF CallsInv
  <2>11. TcpInv'
    BY <2>1, <2>2, <2>3, <2>4 DEF TcpInv
  <2>12. ChunkInv'
    BY <2>1, Zenon DEF IInv, ChunkInv, LeftInv, ChunksTogether, net
  <2>13. MatchInv'
    BY <2>1, <2>4, Zenon DEF IInv, MatchInv, net
  <2> QED
    BY <2>10, <2>11, <2>12, <2>13, Zenon DEF IInv

<1>PeerAnswersInv.
  ASSUME IInv, PeerAnswers
  PROVE  IInv'
  <2> USE <1>PeerAnswersInv
  <2>1. /\ peer # <<>> /\ peer' = Tail(peer) /\ inbox' = Append(inbox, Head(peer))
        /\ UNCHANGED <<tcp, release, recv, pc, left, drop, wire, torn, guard, handlers, proto_released, timer,
                       timer_cancelled, results>>
    BY Zenon DEF PeerAnswers, send, levin
  <2>2. MatchInv /\ inbox \in Seq(Calls) /\ peer \in Seq(Calls)
    BY Zenon DEF IInv, MatchInv
  <2>3. Append(inbox, Head(peer)) \o Tail(peer) = inbox \o peer
    BY <2>1, <2>2
  <2>4. inbox' \in Seq(Calls) /\ peer' \in Seq(Calls)
    BY <2>1, <2>2
  <2>5. Answers' = Answers
    BY <2>1, <2>3, Zenon DEF Answers
  <2>6. Waiting' = Waiting /\ (Late' <=> Late) /\ Moves(tcp, tcp')
    BY <2>1, Zenon DEF Waiting, Late, Moves
  <2>7. MatchInv'
    BY <2>1, <2>2, <2>4, <2>5, <2>6, <1>MatchSame, Zenon
  <2>8. TcpInv' /\ CallsInv'
    <3>1. TcpInv' /\ RecvInv' /\ GuardInv' /\ ReleaseInv'
      BY <2>1, Zenon DEF IInv, TcpInv, CallsInv, RecvInv, GuardInv, ReleaseInv
    <3>2. \A c \in Calls : CallInv(c)'
      BY <2>1, Zenon DEF IInv, CallsInv, CallInv
    <3> QED
      BY <2>1, <3>1, <3>2, Zenon DEF IInv, CallsInv
  <2>9. ChunkInv'
    BY <2>1, Zenon DEF IInv, ChunkInv, LeftInv, ChunksTogether
  <2> QED
    BY <2>7, <2>8, <2>9, Zenon DEF IInv

<1>CancellingCall.
  ASSUME CallsInv, NEW c \in Calls, pc[c] = "done", timer_cancelled[c] # "yes", Cancelling(c), pc' = pc
  PROVE  /\ Only(c) /\ CallInv(c)'
         /\ Cancels(c) => timer_cancelled'[c] = "yes"
         /\ ~ Cancels(c) => timer_cancelled'[c] = "late"
  <2> USE <1>CancellingCall
  <2>1. CallInv(c)
    BY Zenon DEF CallsInv
  <2>2. PICK r \in {"answered", "failed"} : results' = IF Cancels(c) THEN [results EXCEPT ![c] = Append(@, r)] ELSE results
    BY Zenon DEF Cancelling
  <2>3. /\ DOMAIN timer' = Calls /\ DOMAIN timer_cancelled' = Calls
        /\ timer'[c] = IF timer[c] = "armed" THEN "off" ELSE timer[c]
        /\ timer_cancelled'[c] = IF Cancels(c) THEN "yes" ELSE "late"
        /\ \A d \in Calls \ {c} : timer'[d] = timer[d] /\ timer_cancelled'[d] = timer_cancelled[d]
    BY DEF Cancelling, TimerCancelled, CallsInv
  <2>4. /\ DOMAIN results' = Calls /\ \A d \in Calls \ {c} : results'[d] = results[d]
        /\ results'[c] = IF Cancels(c) THEN Append(results[c], r) ELSE results[c]
    BY <2>2 DEF CallsInv
  <2>5. Only(c)
    BY <2>3, <2>4, Zenon DEF Only, CallsInv
  <2>6. Cancels(c) => timer[c] = "armed" /\ results[c] = <<>>
    BY <2>1 DEF Cancels, CallInv
  <2>7. ~ Cancels(c) => timer[c] # "armed"
    BY <2>1 DEF Cancels, CallInv
  <2>8. CallInv(c)'
    <3>1. CASE Cancels(c)
      <4>1. timer'[c] = "off" /\ timer_cancelled'[c] = "yes" /\ results'[c] = Append(<<>>, r)
        BY <2>3, <2>4, <2>6, <3>1, Zenon
      <4>2. results'[c] = <<r>>
        BY <4>1
      <4>3. results'[c] \in {<<"answered">>, <<"failed">>} /\ results'[c] # <<>>
        BY <4>2
      <4> QED
        BY <4>1, <4>3, <2>1 DEF CallInv
    <3>2. CASE ~ Cancels(c)
      <4>1. results'[c] = results[c] /\ timer'[c] = timer[c] /\ timer_cancelled'[c] = "late"
        BY <2>3, <2>4, <2>7, <3>2
      <4> QED
        BY <2>1, <2>7, <3>2, <4>1 DEF CallInv
    <3> QED
      BY <3>1, <3>2, Zenon
  <2> QED
    BY <2>3, <2>5, <2>8, Zenon

\* Without the first.
<1>KeptTail.
  ASSUME NEW s, NEW p, NEW tc, Kept(s, p, tc), s # <<>>
  PROVE  /\ Kept(Tail(s), p, tc) /\ s[1] = Head(s) /\ s[1] \in Calls /\ p[s[1]] = "done" /\ tc[s[1]] # "yes"
         /\ \A i \in 1 .. Len(Tail(s)) : Tail(s)[i] # s[1]
  <2> USE <1>KeptTail
  <2>1. s \in Seq(Calls)
    BY Zenon DEF Kept
  <2>2. /\ Len(Tail(s)) = Len(s) - 1 /\ Tail(s) \in Seq(Calls) /\ Len(s) \in Nat \ {0}
        /\ \A i \in 1 .. Len(Tail(s)) : Tail(s)[i] = s[i + 1]
    BY <2>1
  <2>3. \A i \in 1 .. Len(Tail(s)) : i + 1 \in 1 .. Len(s) /\ i + 1 # 1
    BY <2>2
  <2>4. s[1] = Head(s) /\ s[1] \in Calls /\ 1 \in 1 .. Len(s)
    BY <2>1, <2>2
  <2>5. IsDistinct(Tail(s))
    BY <2>2, <2>3 DEF Kept, IsDistinct
  <2>6. ASSUME NEW i \in 1 .. Len(Tail(s)) PROVE p[Tail(s)[i]] = "done" /\ tc[Tail(s)[i]] # "yes"
    <3>1. Tail(s)[i] = s[i + 1] /\ i + 1 \in 1 .. Len(s)
      BY <2>2, <2>3, Zenon
    <3>2. p[s[i + 1]] = "done" /\ tc[s[i + 1]] # "yes"
      BY <3>1, Zenon DEF Kept
    <3> QED
      BY <3>1, <3>2, Zenon
  <2>7. \A i \in 1 .. Len(Tail(s)) : Tail(s)[i] # s[1]
    BY <2>2, <2>3, <2>4 DEF Kept, IsDistinct
  <2> QED
    BY <2>2, <2>4, <2>5, <2>6, <2>7, Zenon DEF Kept

\* release_protocol cancels a handler it took.
<1>CancelCallInv.
  ASSUME IInv, CancelCall
  PROVE  IInv'
  <2> USE <1>CancelCallInv
  <2>0. PICK c \in Calls : c = Head(release.todo)
    <3>1. release.todo \in Seq(Calls) /\ release.todo # <<>>
      BY Zenon DEF IInv, CallsInv, Kept, CancelCall
    <3> QED
      BY <3>1
  <2>1. /\ release.stage = "cancel" /\ release.todo # <<>> /\ release' = [release EXCEPT !.todo = Tail(@)]
        /\ Cancelling(c)
        /\ UNCHANGED <<tcp, guard, handlers, proto_released, recv, pc, left, drop, net>>
    BY <2>0, Zenon DEF CancelCall, send, Cancelling
  <2>2. CallsInv /\ TcpInv /\ Kept(release.todo, pc, timer_cancelled) /\ ReleaseInv /\ GuardInv
    BY Zenon DEF IInv, CallsInv
  <2>3. /\ DOMAIN release' = {"stage", "todo", "unlist", "finish"}
        /\ release'.stage = "cancel" /\ release'.todo = Tail(release.todo)
    BY <2>1, <2>2 DEF ReleaseInv
  <2>4. /\ Kept(Tail(release.todo), pc, timer_cancelled) /\ pc[c] = "done" /\ timer_cancelled[c] # "yes"
        /\ \A i \in 1 .. Len(Tail(release.todo)) : Tail(release.todo)[i] # c
    BY <2>0, <2>1, <2>2, <1>KeptTail, Zenon
  <2>5. proto_released /\ handlers = <<>> /\ tcp.status \notin Open
    BY <2>1, <2>2, Zenon DEF ReleaseInv
  <2>6. Only(c) /\ CallInv(c)'
    BY <2>1, <2>2, <2>4, <1>CancellingCall, Zenon
  <2>7. Kept(release.todo, pc, timer_cancelled)'
    <3>1. Kept(Tail(release.todo), pc', timer_cancelled')
      BY <2>4, <2>6, KeptStays, Zenon
    <3> QED
      BY <2>3, <3>1, Zenon
  <2>8. Kept(handlers, pc, timer_cancelled)'
    BY <2>1, <2>5 DEF Kept, IsDistinct
  <2>9. ReleaseInv'
    BY <2>1, <2>2, <2>3, <2>5 DEF ReleaseInv
  <2>10. GuardInv'
    BY <2>1, <2>2, Zenon DEF GuardInv
  <2>11. CallsInv'
    BY <2>1, <2>2, <2>4, <2>6, <2>7, <2>8, <2>9, <2>10, <1>CallMoves, Zenon
  <2>12. TcpInv'
    BY <2>1, <2>2, <2>3 DEF TcpInv
  <2>13. ChunkInv'
    BY <2>1, Zenon DEF IInv, ChunkInv, LeftInv, ChunksTogether, net
  <2>14. MatchInv'
    BY <2>1, <2>5, Zenon DEF IInv, MatchInv, net
  <2> QED
    BY <2>11, <2>12, <2>13, <2>14, Zenon DEF IInv

\* Part of a message arrived, or what the peer should not send.
<1>RecvBytes.
  ASSUME IInv, recv = "posted", recv' \in {"ok", "fail"},
         UNCHANGED <<tcp, release, calls, pc, left, net, drop>>
  PROVE  IInv'
  <2> USE <1>RecvBytes
  <2>1. RecvInv'
    BY DEF IInv, CallsInv, RecvInv
  <2>2. Steps
    BY Zenon DEF IInv, TcpInv, Steps, Moves, ReleaseStarts
  <2> QED
    BY <2>1, <2>2, HandlerKept, Zenon

\* A command that is answered.
<1>RecvCommand.
  ASSUME IInv, recv = "posted", recv' = "reply", pc' = [pc EXCEPT !["reply"] = "send"],
         left' = [left EXCEPT !["reply"] = 1], UNCHANGED <<tcp, release, calls, net, drop>>
  PROVE  IInv'
  <2> USE <1>RecvCommand
  <2>1. CallsInv /\ LeftInv /\ RecvInv
    BY Zenon DEF IInv, CallsInv, ChunkInv
  <2>2. /\ pc'["reply"] = "send" /\ DOMAIN pc' = Threads /\ \A t \in Threads \ {"reply"} : pc'[t] = pc[t]
        /\ left'["reply"] = 1 /\ left' \in [Threads -> Nat] /\ \A t \in Threads \ {"reply"} : left'[t] = left[t]
    BY <2>1 DEF CallsInv, LeftInv, Threads
  <2>3. \A c \in Calls : pc'[c] = pc[c] /\ left'[c] = left[c] /\ c \in Threads
    BY <2>2, NotReply, Zenon
  <2>4. pc["reply"] \in {"idle", "done"}
    BY <2>1 DEF RecvInv
  <2>5. RecvInv'
    BY <2>1, <2>2 DEF RecvInv
  <2>6. CallsInv'
    BY <2>1, <2>2, <2>3, <2>5, CallsAside, Zenon
  <2>7. TcpInv' /\ Moves(tcp, tcp')
    BY Zenon DEF IInv, TcpInv, Moves
  <2>8. Size("reply") = 1
    BY NotReply DEF Size
  <2>9. LeftInv'
    <3>1. ASSUME NEW t \in Threads, pc'[t] \in {"send", "sender", "consume"}
          PROVE  left'[t] \in 1 .. Size(t) /\ (pc'[t] # "consume" => left'[t] = Size(t))
      <4>1. CASE t = "reply"
        BY <2>2, <2>8, <4>1
      <4>2. CASE t # "reply"
        BY <2>1, <2>2, <3>1, <4>2 DEF LeftInv
      <4> QED
        BY <4>1, <4>2, Zenon
    <3>2. \A t \in Threads : pc'[t] \in {"send", "sender"} => left'[t] = Size(t)
      BY <3>1
    <3> QED
      BY <2>1, <2>2, <2>3, <3>1, <3>2, Zenon DEF LeftInv
  <2>10. SameWaits(pc, left, pc', left')
    BY <2>2, <2>4, Zenon DEF SameWaits
  <2>11. ChunkInv'
    BY <2>7, <2>9, <2>10, ChunkKept, Zenon DEF IInv, TcpInv, net
  <2>12. MatchInv'
    <3>1. (Late' <=> Late) /\ \A c \in Calls : pc[c] = "sent" <=> pc'[c] = "sent"
      BY <2>3, Zenon DEF Late, calls
    <3> QED
      BY <2>1, <2>7, <3>1, MatchKept, Zenon DEF IInv, CallsInv, net, calls
  <2> QED
    BY <2>6, <2>7, <2>11, <2>12, Zenon DEF IInv

\* The first answer is taken for the first call.
<1>AnswerTaken.
  ASSUME NEW a \in Seq(Calls), NEW w \in Seq(Calls), NEW q \in Seq(Threads \X Nat), Agree(a, w), a # <<>>
  PROVE  /\ w # <<>> /\ w[1] = a[1] /\ Agree(Tail(a), Tail(w))
         /\ Queued(a, w, q) => Queued(Tail(a), Tail(w), q)
  <2> USE <1>AnswerTaken
  <2> DEFINE b == Tail(a)
             v == Tail(w)
  <2>1. Len(a) \in Nat \ {0} /\ Len(w) \in Nat
    OBVIOUS
  <2>2. Len(w) >= 1 /\ w # <<>> /\ w[1] = a[1]
    BY <2>1 DEF Agree
  <2>3. /\ Len(b) = Len(a) - 1 /\ Len(v) = Len(w) - 1
        /\ \A i \in 1 .. Len(b) : b[i] = a[i + 1]
        /\ \A i \in 1 .. Len(v) : v[i] = w[i + 1]
    BY <2>1, <2>2
  <2> HIDE DEF b, v
  <2>4. Agree(b, v)
    <3>1. ASSUME NEW i \in 1 .. Len(b) PROVE b[i] = v[i]
      <4>1. i + 1 \in 1 .. Len(a) /\ i \in 1 .. Len(v)
        BY <2>1, <2>2, <2>3 DEF Agree
      <4> QED
        BY <2>3, <4>1, Zenon DEF Agree
    <3>2. Len(b) <= Len(v)
      BY <2>1, <2>3 DEF Agree
    <3> QED
      BY <3>1, <3>2, Zenon DEF Agree
  <2>5. ASSUME Queued(a, w, q) PROVE Queued(b, v, q)
    <3>1. ASSUME NEW i \in Len(b) + 1 .. Len(v) PROVE i + 1 \in Len(a) + 1 .. Len(w) /\ v[i] = w[i + 1]
      BY <2>1, <2>2, <2>3
    <3>2. EachQueued(b, v, q)
      <4>1. ASSUME NEW i \in Len(b) + 1 .. Len(v) PROVE \E j \in 1 .. Len(q) : q[j] = LastChunk(v[i])
        <5>1. i + 1 \in Len(a) + 1 .. Len(w) /\ v[i] = w[i + 1]
          BY <3>1
        <5>2. \E j \in 1 .. Len(q) : q[j] = LastChunk(w[i + 1])
          BY <2>5, <5>1, Zenon DEF Queued, EachQueued
        <5> QED
          BY <5>1, <5>2, Zenon
      <4> QED
        BY <4>1, Zenon DEF EachQueued
    <3>3. ASSUME NEW j \in 1 .. Len(q), NEW c \in Calls, q[j] = LastChunk(c)
          PROVE  \E i \in Len(b) + 1 .. Len(v) : v[i] = c
      <4>1. PICK i \in Len(a) + 1 .. Len(w) : w[i] = c
        BY <2>5, <3>3, Zenon DEF Queued, NoOther
      <4>2. i - 1 \in Len(b) + 1 .. Len(v) /\ v[i - 1] = w[i]
        BY <2>1, <2>2, <2>3
      <4> QED
        BY <4>1, <4>2, Zenon
    <3>4. ASSUME NEW i \in Len(b) + 1 .. Len(v), NEW m \in Len(b) + 1 .. Len(v), i <= m,
                 NEW j \in 1 .. Len(q), NEW l \in 1 .. Len(q), q[j] = LastChunk(v[i]), q[l] = LastChunk(v[m])
          PROVE  j <= l
      <4>1. i + 1 <= m + 1
        BY <2>1, <2>2, <2>3, <3>4
      <4>2. i + 1 \in Len(a) + 1 .. Len(w) /\ v[i] = w[i + 1] /\ m + 1 \in Len(a) + 1 .. Len(w) /\ v[m] = w[m + 1]
        BY <3>1
      <4>3. q[j] = LastChunk(w[i + 1]) /\ q[l] = LastChunk(w[m + 1])
        BY <3>4, <4>2, Zenon
      <4> QED
        BY <2>5, <4>1, <4>2, <4>3, Zenon DEF Queued, SameOrder
    <3> QED
      BY <3>2, <3>3, <3>4, Zenon DEF Queued, NoOther, SameOrder
  <2> QED
    BY <2>2, <2>4, <2>5, Zenon DEF b, v

\* An answer arrived, and no call holds the lock of the handlers.
<1>RecvAnswer.
  ASSUME IInv, recv = "posted", inbox # <<>>, guard = {}, Answered(Head(inbox)), inbox' = Tail(inbox),
         UNCHANGED <<pc, left, tcp, guard, proto_released, release, drop, wire, torn, peer>>
  PROVE  IInv'
  <2> USE <1>RecvAnswer
  <2>1. CallsInv /\ MatchInv /\ RecvInv /\ GuardInv /\ ReleaseInv
    BY Zenon DEF IInv, CallsInv
  <2>2. inbox \in Seq(Calls) /\ peer \in Seq(Calls) /\ handlers \in Seq(Calls)
    BY <2>1, Zenon DEF MatchInv, CallsInv, Kept
  <2>3. /\ inbox' \in Seq(Calls) /\ Answers \in Seq(Calls) /\ Answers # <<>> /\ Answers[1] = Head(inbox)
        /\ inbox' \o peer = Tail(Answers)
    <3>1. inbox' \in Seq(Calls) /\ inbox \o peer \in Seq(Calls) /\ inbox \o peer # <<>> /\ (inbox \o peer)[1] = Head(inbox)
      BY <2>2
    <3>2. Tail(inbox) \o peer = Tail(inbox \o peer)
      BY <2>2
    <3> QED
      BY <3>1, <3>2, Zenon DEF Answers
  <2>4. SentAlone(pc) /\ \A c \in Calls : pc[c] # "sent"
    BY <2>1, Zenon DEF GuardInv, Holding, SentAlone
  <2>5. Waiting = handlers
    BY <2>4, WaitingIs, Zenon DEF Waiting
  <2>6. WaitingAt(pc', handlers') = handlers'
    BY <2>4, WaitingIs, Zenon
  <2>7. TcpInv' /\ ChunkInv'
    BY Zenon DEF IInv, TcpInv, ChunkInv, LeftInv, ChunksTogether
  <2>8. recv' \in {"ok", "fail"} => RecvInv'
    BY <2>1 DEF RecvInv
  <2>9. GuardInv'
    BY <2>1, Zenon DEF GuardInv
  <2>10. CASE handlers = <<>>
    <3>1. recv' = "fail" /\ UNCHANGED <<handlers, timer, timer_cancelled, results>>
      BY <2>10, Zenon DEF Answered
    <3>2. RecvInv'
      BY <2>8, <3>1, Zenon
    <3>3. CallsInv'
      BY <2>1, <3>1, <3>2, CallsAside, Zenon DEF CallsInv, calls
    <3>4. proto_released
      BY <2>1, <2>3, <2>5, <2>10 DEF MatchInv, Late, Agree
    <3>5. MatchInv'
      BY <2>1, <2>2, <2>3, <3>4, Zenon DEF MatchInv, ReleaseInv
    <3> QED
      BY <2>7, <3>3, <3>5, Zenon DEF IInv
  <2>11. CASE handlers # <<>>
    <3>0. PICK c \in Calls : c = Head(handlers)
      BY <2>2, <2>11
    <3>1. ~ proto_released /\ Kept(handlers, pc, timer_cancelled) /\ release.todo = <<>>
      BY <2>1, <2>11, Zenon DEF ReleaseInv, CallsInv
    <3>2. /\ Kept(Tail(handlers), pc, timer_cancelled) /\ c = handlers[1] /\ pc[c] = "done" /\ timer_cancelled[c] # "yes"
          /\ \A i \in 1 .. Len(Tail(handlers)) : Tail(handlers)[i] # c
      BY <2>11, <3>0, <3>1, <1>KeptTail, Zenon
    <3>3. /\ recv' = "ok" /\ TimerCancelled(c)
          /\ Cancels(c) => /\ handlers' = Tail(handlers)
                           /\ results' = [results EXCEPT ![c] = Append(@, IF Head(inbox) = c THEN "answered" ELSE "wrong answer")]
          /\ ~ Cancels(c) => handlers' = handlers /\ results' = results
      BY <2>11, <3>0, Zenon DEF Answered
    <3>4. Late \/ (Agree(Answers, handlers) /\ handlers[1] = Answers[1] /\ Agree(Tail(Answers), Tail(handlers)))
      <4>1. tcp.queue \in Seq(Threads \X Nat)
        BY Zenon DEF IInv, TcpInv, Core
      <4>2. Late \/ Agree(Answers, handlers)
        BY <2>1, <2>5, <3>1, Zenon DEF MatchInv
      <4> QED
        BY <2>2, <2>3, <4>1, <4>2, <1>AnswerTaken, Zenon
    <3>5. Cancels(c) => ~ Late
      BY <2>11, <3>2 DEF Cancels, Late
    <3>6. Cancels(c) => Head(inbox) = c
      BY <2>3, <3>2, <3>4, <3>5, Zenon
    <3>7. Cancelling(c)
      <4>1. Cancels(c) => results' = [results EXCEPT ![c] = Append(@, "answered")]
        BY <3>3, <3>6, Zenon
      <4> QED
        BY <3>3, <4>1, Zenon DEF Cancelling
    <3>8. /\ Only(c) /\ CallInv(c)'
          /\ Cancels(c) => timer_cancelled'[c] = "yes"
          /\ ~ Cancels(c) => timer_cancelled'[c] = "late"
      BY <2>1, <3>2, <3>7, <1>CancellingCall, Zenon
    <3>9. Kept(handlers, pc, timer_cancelled)'
      <4>1. CASE Cancels(c)
        <5>1. Kept(Tail(handlers), pc', timer_cancelled')
          BY <3>2, <3>8, KeptStays, Zenon
        <5> QED
          BY <3>3, <4>1, <5>1, Zenon
      <4>2. CASE ~ Cancels(c)
        <5>1. pc'[c] = "done" /\ timer_cancelled'[c] # "yes"
          BY <3>2, <3>8, <4>2
        <5>2. Kept(handlers, pc', timer_cancelled')
          BY <3>1, <3>8, <5>1, KeptStays, Zenon
        <5> QED
          BY <3>3, <4>2, <5>2, Zenon
      <4> QED
        BY <4>1, <4>2, Zenon
    <3>10. Kept(release.todo, pc, timer_cancelled)'
      BY <3>1 DEF Kept, IsDistinct
    <3>11. ReleaseInv'
      BY <2>1, <3>1, Zenon DEF ReleaseInv
    <3>12. CallsInv'
      BY <2>1, <2>8, <2>9, <3>3, <3>8, <3>9, <3>10, <3>11, CallsMove, Zenon
    <3>13. MatchInv'
      <4>1. CASE Cancels(c)
        <5>1. Answers' = Tail(Answers) /\ Waiting' = Tail(handlers)
          BY <2>3, <2>6, <3>3, <4>1, Zenon DEF Answers, Waiting
        <5>2. Agree(Answers', Waiting')
          BY <3>4, <3>5, <4>1, <5>1, Zenon
        <5>3. ASSUME tcp.status \in Open, ~ torn PROVE Queued(Answers', Waiting', tcp'.queue)
          <6>1. Queued(Answers, handlers, tcp.queue)
            BY <2>1, <2>5, <3>5, <4>1, <5>3, Zenon DEF MatchInv
          <6>2. tcp.queue \in Seq(Threads \X Nat)
            BY Zenon DEF IInv, TcpInv, Core
          <6> QED
            BY <2>2, <2>3, <3>4, <3>5, <4>1, <5>1, <6>1, <6>2, <1>AnswerTaken, Zenon
        <5> QED
          BY <2>2, <2>3, <5>2, <5>3, Zenon DEF MatchInv
      <4>2. CASE ~ Cancels(c)
        <5>1. Late'
          BY <2>11, <3>2, <3>3, <3>8, <4>2, Zenon DEF Late
        <5> QED
          BY <2>2, <2>3, <5>1, Zenon DEF MatchInv
      <4> QED
        BY <4>1, <4>2, Zenon
    <3> QED
      BY <2>7, <3>12, <3>13, Zenon DEF IInv
  <2> QED
    BY <2>10, <2>11, Zenon

<1>HandleRecvInv.
  ASSUME IInv, HandleRecv
  PROVE  IInv'
  <2> USE <1>HandleRecvInv
  <2>1. CASE recv' \in {"ok", "fail"} /\ UNCHANGED <<handlers, timer, timer_cancelled, results, pc, left, inbox>>
    BY <2>1, <1>RecvBytes, Zenon DEF HandleRecv, calls, net
  <2>2. CASE /\ recv' = "reply" /\ pc' = [pc EXCEPT !["reply"] = "send"] /\ left' = [left EXCEPT !["reply"] = 1]
             /\ UNCHANGED <<handlers, timer, timer_cancelled, results, inbox>>
    BY <2>2, <1>RecvCommand, Zenon DEF HandleRecv, calls, net
  <2>3. CASE inbox # <<>> /\ guard = {} /\ Answered(Head(inbox)) /\ inbox' = Tail(inbox) /\ UNCHANGED <<pc, left>>
    BY <2>3, <1>RecvAnswer, Zenon DEF HandleRecv
  <2> QED
    BY <2>1, <2>2, <2>3, Zenon DEF HandleRecv
<1> QED
  BY <1>InvokeInv, <1>LockHandlersInv, <1>AddHandlerInv, <1>ExpireInv, <1>ReleaseProtocolInv, <1>CancelCallInv,
     <1>PeerAnswersInv, <1>HandleRecvInv, Zenon DEF CallStep
=============================================================================
