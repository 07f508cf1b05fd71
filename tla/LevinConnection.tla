--------------------------- MODULE LevinConnection ---------------------------
(***************************************************************************)
(* One TCP connection (epee abstract_tcp_server2.inl, class connection)    *)
(* and the levin protocol handler on it (levin_protocol_handler_async.h):  *)
(* its life from start to WASTED, and the calls made over it.  A P2P       *)
(* connection carries levin, has a speed limit and no SSL; an RPC          *)
(* connection carries HTTP, of which only the answers it sends are kept.   *)
(*                                                                         *)
(* Any number of threads run the handlers of the io_context.  A handler    *)
(* works under m_state.lock and is one action; it is cut where the lock is *)
(* given up: in cancel_handler, which calls release_protocol, in           *)
(* handle_recv, and in the waits of send.  An asynchronous operation is in *)
(* tcp.wait until its handler runs, and in tcp.cancel when it was told to  *)
(* stop; its handler may be queued by then, so no result is assumed.       *)
(*                                                                         *)
(* The peer answers requests in their order, or not at all.  Payloads are  *)
(* left out; a timeout is an event that may happen any time.               *)
(***************************************************************************)
EXTENDS Integers, Sequences, FiniteSetsExt

CONSTANTS
  Calls,        \* calls made over the connection, each by a thread of its own
  Chunks,       \* [Calls -> chunks of 32 KB the request is sent in]
  QueueMax,     \* ABSTRACT_SERVER_SEND_QUE_MAX_COUNT
  Settings      \* connections of this instance: type, SSL setting, whether the speed limit asks
                \* for pauses, calls that may be made, and the bounds on the peer's commands that
                \* are answered and on request_callback

ASSUME ConnectionAssumption ==
  /\ "reply" \notin Calls
  /\ Chunks \in [Calls -> Nat \ {0}]
  /\ QueueMax \in Nat
  /\ Settings \subseteq [type : {"P2P", "RPC"}, ssl : {"off", "auto", "on"}, pauses : BOOLEAN,
                          calls : SUBSET Calls, commands : Nat, callbacks : Nat]
  /\ \A s \in Settings : IF s.type = "P2P" THEN s.ssl = "off" ELSE ~ s.pauses

VARIABLES
  tcp,          \* connection::m_state
  listed,       \* the connection is in m_connects
  refs,         \* reference_counter and m_wait_count: outer calls in progress
  close_called, \* m_close_called is not 0
  guard,        \* the calls that hold m_invoke_response_handlers_lock across steps
  handlers,     \* m_invoke_response_handlers: calls waiting for an answer, in order
  proto_released,  \* m_protocol_released
  timer,        \* [Calls -> the call's deadline_timer]
  timer_cancelled, \* [Calls -> what cancel_timer found; "no" before it is called]
  release,      \* the thread in cancel_handler
  recv,         \* the thread in handle_recv; "idle" when handle_read is false
  pc,           \* [threads that send -> where they are]
  left,         \* [threads that send -> chunks not queued yet]
  results,      \* [Calls -> what the callback was called with, in order]
  wire,         \* the last chunk written to the socket: <<thread that sent it, number>>
  torn,         \* on the wire, a chunk came between two of another message
  peer,         \* requests the peer has and did not answer
  inbox,        \* answers on their way
  drop,         \* "posted" when a sender that waited too long has posted terminate
  budget        \* the setting chosen, with what is left of its bounds

levin == <<close_called, guard, handlers, proto_released, timer, timer_cancelled, results>>
send  == <<pc, left, drop>>
net   == <<wire, torn, peer, inbox>>
vars  == <<tcp, listed, refs, levin, release, recv, send, net, budget>>

Threads == Calls \cup {"reply"}     \* "reply" is handle_recv, answering a command

NoThread == [stage |-> "none", todo |-> <<>>, unlist |-> FALSE, finish |-> 0]

----------------------------------------------------------------------------
(* The connection's functions, under m_state.lock.  Each takes a value s of tcp to the next. *)

start_timer(s) ==
  IF "timer" \in s.wait THEN [s EXCEPT !.cancel = @ \cup {"timer"}, !.reset = TRUE]
                        ELSE [s EXCEPT !.wait = @ \cup {"timer"}]

cancel_timer(s) ==
  IF "timer" \in s.wait THEN [s EXCEPT !.cancel = @ \cup {"timer"}, !.reset = FALSE] ELSE s

cancel_socket(s) == [s EXCEPT !.cancel = @ \cup (s.wait \ {"timer"})]

start_shutdown(s) ==
  IF "shutdown" \in s.wait THEN s ELSE start_timer([s EXCEPT !.wait = @ \cup {"shutdown"}])

\* Mutant: the connection waits for its writes too.
BusyWriting(s) ==
  s.wait # {} \/ s.handle_read \/ s.wait_init \/ s.wait_release \/ s.wait_callback > 0

\* The early returns of on_interrupted and on_terminating.  A write that is under way is none of
\* them: asio may not be able to cancel it.
Busy(s) ==
  \/ s.wait \ {"write"} # {}
  \/ s.handle_read \/ s.wait_init \/ s.wait_release \/ s.wait_callback > 0

on_interrupted(s) ==
  IF Busy(s) THEN s
  ELSE IF s.connected /\ s.ssl # "off" THEN start_shutdown(s)
       ELSE [s EXCEPT !.connected = FALSE, !.status = "WASTED"]

on_terminating(s) ==
  IF Busy(s) THEN s ELSE [s EXCEPT !.connected = FALSE, !.status = "WASTED"]

on_closing(s) ==
  CASE s.status = "INTERRUPTED" -> on_interrupted(s)
    [] s.status = "TERMINATING" -> on_terminating(s)
    [] OTHER                    -> s

notify_all(s) == [s EXCEPT !.asleep = {}]

\* cancel_handler up to the unlock; the rest is Release below.
cancel_handler(s) == IF s.released THEN s ELSE [s EXCEPT !.wait_release = TRUE]

interrupt(s) ==
  IF s.status # "RUNNING" THEN s
  ELSE LET c == cancel_socket(cancel_timer([s EXCEPT !.status = "INTERRUPTED"]))
       IN  cancel_handler(notify_all(on_interrupted(c)))

terminate(s) ==
  IF s.status \notin {"RUNNING", "INTERRUPTED"} THEN s
  ELSE LET c == cancel_socket(cancel_timer([s EXCEPT !.status = "TERMINATING"]))
       IN  cancel_handler(notify_all(on_terminating(c)))

state_status_check(s) == IF s.status = "RUNNING" THEN interrupt(s) ELSE on_closing(s)

\* The set of states start_read may lead to: the speed limit may ask for a pause first.
start_read(s) ==
  IF s.wait \cap {"in", "read"} # {} \/ s.handle_read THEN {s}
  ELSE { [s EXCEPT !.wait = @ \cup {op}] : op \in IF s.pauses THEN {"in", "read"} ELSE {"read"} }

\* Here the pause is for the write that comes next.
start_write(s) ==
  IF s.wait \cap {"out", "write"} # {} \/ s.queue = <<>> \/ s.ssl \in {"auto", "on"} THEN {s}
  ELSE { [s EXCEPT !.wait = @ \cup ops] :
           ops \in IF s.pauses THEN {{"write"}, {"out", "write"}} ELSE {{"write"}} }

\* With "auto" the first bytes are read to see whether the client speaks SSL.
start_handshake(s) ==
  [s EXCEPT !.wait = @ \cup {IF s.ssl = "auto" THEN "read" ELSE "handshake"}]

\* tcp becomes s.  When that started cancel_handler, this thread goes on with release_protocol
\* before it does the rest: release `finish' references, and take the connection off the list if
\* `unlist' is "after".
Becomes(s, unlist, finish) ==
  /\ tcp' = s
  /\ IF s.wait_release /\ ~ tcp.wait_release
     THEN /\ release' = [NoThread EXCEPT !.stage = "lock", !.unlist = (unlist = "after"), !.finish = finish]
          /\ listed' = (listed /\ unlist # "before")
          /\ UNCHANGED refs
     ELSE /\ refs' = refs - finish
          /\ listed' = (listed /\ unlist = "no")
          /\ UNCHANGED release

\* The same for a handler, which does nothing afterwards.
Handled(s) == Becomes(s, "no", 0)

----------------------------------------------------------------------------
(* The handlers of the asynchronous operations. *)

Done(op) == [tcp EXCEPT !.wait = @ \ {op}, !.cancel = @ \ {op}]

Flagged(op) == op \in tcp.cancel

\* The handler of async_wait_timer.
TimerHandler ==
  /\ "timer" \in tcp.wait
  /\ LET s == Done("timer") IN
     Handled(CASE Flagged("timer") /\ s.reset   -> [s EXCEPT !.wait = @ \cup {"timer"}, !.reset = FALSE]
               [] Flagged("timer") /\ ~ s.reset -> on_closing(s)
               [] ~ Flagged("timer") /\ s.status = "RUNNING"     -> interrupt(s)
               [] ~ Flagged("timer") /\ s.status = "INTERRUPTED" -> terminate(s)
               [] OTHER -> s)
  /\ UNCHANGED <<levin, recv, send, net, budget>>

\* The handlers of the speed limit's pauses.
ThrottleHandler(op) ==
  /\ op \in tcp.wait
  /\ LET s == Done(op) IN
     IF Flagged(op) THEN Handled(state_status_check(s))
     ELSE \E t \in IF op = "in" THEN start_read(s) ELSE start_write(s) : Handled(t)
  /\ UNCHANGED <<levin, recv, send, net, budget>>

\* on_read, and the handler of the read that looks for SSL: cancelled, failed, or bytes for
\* handle_recv, which is posted.
ReadHandler ==
  /\ "read" \in tcp.wait
  /\ LET s == Done("read") IN
     IF Flagged("read") THEN Handled(state_status_check(s))
     ELSE \/ Handled(terminate(s))
          \/ s.ssl # "auto" /\ Handled([start_timer(s) EXCEPT !.handle_read = TRUE])
          \/ s.ssl = "auto" /\ Handled([s EXCEPT !.ssl = "off", !.handle_read = TRUE])
          \/ s.ssl = "auto" /\ Handled(start_handshake([s EXCEPT !.ssl = "on"]))
  /\ recv' = IF tcp'.handle_read THEN "posted" ELSE recv
  /\ UNCHANGED <<levin, send, net, budget>>

\* on_handshake.
HandshakeHandler ==
  /\ "handshake" \in tcp.wait
  /\ LET s == Done("handshake") IN
     IF Flagged("handshake") THEN Handled(state_status_check(s))
     ELSE \/ Handled(interrupt([s EXCEPT !.connected = FALSE]))
          \/ \E t \in start_write([s EXCEPT !.ssl = "up"]) : \E u \in start_read(t) : Handled(u)
  /\ UNCHANGED <<levin, recv, send, net, budget>>

Size(t) == IF t \in Calls THEN Chunks[t] ELSE 1

\* The chunk x continues the message on the wire, or is the first after a whole one.
Continues(x) ==
  IF wire[2] < Size(wire[1]) THEN x = <<wire[1], wire[2] + 1>> ELSE x[2] = 1

\* on_write.
WriteHandler ==
  /\ "write" \in tcp.wait
  /\ LET s       == Done("write")
         cleared == [s EXCEPT !.queue = <<>>]
     IN IF Flagged("write") THEN Handled(state_status_check(cleared)) /\ UNCHANGED net
        ELSE \/ Handled(interrupt(cleared)) /\ UNCHANGED net
             \/ /\ \E t \in start_write(notify_all([start_timer(s) EXCEPT !.queue = Tail(@)])) :
                     Handled(t)
                /\ wire' = Head(tcp.queue)
                /\ torn' = (torn \/ ~ Continues(wire'))
                /\ peer' = IF ~ torn' /\ wire'[1] \in Calls /\ wire'[2] = Chunks[wire'[1]]
                           THEN Append(peer, wire'[1]) ELSE peer
                /\ UNCHANGED inbox
  /\ UNCHANGED <<levin, recv, send, budget>>

\* on_shutdown.
ShutdownHandler ==
  /\ "shutdown" \in tcp.wait
  /\ LET s == Done("shutdown") IN
     Handled(IF Flagged("shutdown") /\ s.status = "TERMINATING" THEN on_terminating(s)
             ELSE terminate(s))
  /\ UNCHANGED <<levin, recv, send, net, budget>>

\* start_internal, with after_init_connection: the connection is listed while wait_init is set.
Start ==
  /\ tcp.status = "TERMINATED"
  /\ tcp' = start_timer([tcp EXCEPT !.status = "RUNNING", !.connected = TRUE, !.wait_init = TRUE])
  /\ listed' = (tcp.type = "P2P")
  /\ UNCHANGED <<refs, levin, release, recv, send, net, budget>>

Started ==
  /\ tcp.wait_init
  /\ LET s == [tcp EXCEPT !.wait_init = FALSE] IN
     \E t \in CASE s.status # "RUNNING" -> {on_closing(s)}
                [] s.status = "RUNNING" /\ s.ssl = "off" -> start_read(s)
                [] OTHER -> {start_handshake(s)} :
       Handled(t)
  /\ UNCHANGED <<levin, recv, send, net, budget>>

\* request_callback, and the callback it posts.
RequestCallback ==
  /\ budget.callbacks > 0 /\ listed /\ tcp.status = "RUNNING"
  /\ tcp' = [tcp EXCEPT !.wait_callback = @ + 1]
  /\ budget' = [budget EXCEPT !.callbacks = @ - 1]
  /\ UNCHANGED <<listed, refs, levin, release, recv, send, net>>

RunCallback ==
  /\ tcp.wait_callback > 0 /\ recv \in {"idle", "posted"}
  /\ Handled(on_closing([tcp EXCEPT !.wait_callback = @ - 1]))
  /\ UNCHANGED <<levin, recv, send, net, budget>>

----------------------------------------------------------------------------
(* Sending, under m_state.lock: wait_sender, wait_consume and the loop over the chunks. *)

\* send returned to thread t: to async_invoke, which calls the callback outside its lock when the
\* send failed, or to handle_recv, which for HTTP does not look at the result.
SendReturns(t, ok) ==
  /\ pc' = [pc EXCEPT ![t] = IF ok /\ t \in Calls THEN "sent" ELSE "done"]
  /\ recv' = CASE t \in Calls -> recv
              [] t = "reply" /\ (ok \/ tcp.type = "RPC") -> "ok"
              [] OTHER -> "fail"
  /\ IF ok \/ t = "reply" THEN UNCHANGED <<refs, guard, results>>
     ELSE /\ guard' = guard \ {t}
          /\ results' = [results EXCEPT ![t] = Append(@, "failed")]
          /\ refs' = refs - 1

Room(s) == Max({0, QueueMax + 1 - Len(s.queue)})

\* Mutant: a sender goes ahead while another one waits for the queue to drain.
NoSenderWaits(s) == TRUE

\* The condition of wait_sender.
SenderMayGo(s) == ~ s.wait_consume

\* From wait_sender's return: queue the chunks that fit, then return, or wait in wait_consume.
Fill(t, s) ==
  LET k      == Min({left[t], Room(s)})
      first  == Size(t) - left[t]
      queued == [s EXCEPT !.queue = @ \o [i \in 1 .. k |-> <<t, first + i>>], !.wait_consume = (k < left[t])]
  IN /\ left' = [left EXCEPT ![t] = @ - k]
     /\ \E w \in (IF k = 0 THEN {queued} ELSE start_write(queued)) :
          tcp' = IF k = left[t] THEN notify_all(w) ELSE [w EXCEPT !.asleep = @ \cup {t}]
     /\ IF k = left[t] THEN SendReturns(t, TRUE)
        ELSE pc' = [pc EXCEPT ![t] = "consume"] /\ UNCHANGED <<recv, refs, guard, results>>

SendUnchanged == UNCHANGED <<listed, close_called, handlers, proto_released, timer, timer_cancelled,
                             release, net, budget>>

\* send up to its first wait, or woken in wait_sender.
Send(t) ==
  /\ pc[t] = "send" \/ (pc[t] = "sender" /\ t \notin tcp.asleep)
  /\ CASE tcp.status # "RUNNING" \/ (pc[t] = "send" /\ "handshake" \in tcp.wait) ->
            SendReturns(t, FALSE) /\ UNCHANGED <<tcp, left>>
       [] tcp.status = "RUNNING" /\ ~ SenderMayGo(tcp) ->
            /\ tcp' = [tcp EXCEPT !.asleep = @ \cup {t}]
            /\ pc' = [pc EXCEPT ![t] = "sender"]
            /\ UNCHANGED <<left, recv, refs, guard, results>>
       [] OTHER -> Fill(t, tcp)
  /\ UNCHANGED drop
  /\ SendUnchanged

\* Woken in wait_consume.
Consumed(t) ==
  /\ pc[t] = "consume" /\ t \notin tcp.asleep
  /\ CASE tcp.status # "RUNNING" ->
            tcp' = [tcp EXCEPT !.wait_consume = FALSE] /\ SendReturns(t, FALSE) /\ UNCHANGED left
       [] tcp.status = "RUNNING" /\ Room(tcp) = 0 ->
            tcp' = [tcp EXCEPT !.asleep = @ \cup {t}] /\ UNCHANGED <<pc, left, recv, refs, guard, results>>
       [] OTHER -> Fill(t, [tcp EXCEPT !.wait_consume = FALSE])
  /\ UNCHANGED drop
  /\ SendUnchanged

\* wait_for times out after 5 to 6 seconds with the queue still full: terminate is posted.
ConsumeTimeout(t) ==
  /\ pc[t] = "consume" /\ tcp.status = "RUNNING" /\ Room(tcp) = 0
  /\ tcp' = [tcp EXCEPT !.wait_consume = FALSE, !.asleep = @ \ {t}]
  /\ drop' = "posted"
  /\ SendReturns(t, FALSE)
  /\ UNCHANGED left
  /\ SendUnchanged

Sending(t) == Send(t) \/ Consumed(t) \/ ConsumeTimeout(t)

\* The posted terminate.
Drop ==
  /\ drop = "posted" /\ drop' = "done"
  /\ Handled(terminate(tcp))
  /\ UNCHANGED <<levin, recv, pc, left, net, budget>>

----------------------------------------------------------------------------
(* The levin protocol handler. *)

\* Some shared pointer keeps the connection: outer calls, handlers to run, threads in them.
Alive ==
  \/ refs > 0 \/ tcp.wait # {} \/ tcp.handle_read \/ tcp.wait_init \/ tcp.wait_callback > 0
  \/ release.stage # "none" \/ drop = "posted" \/ tcp.status = "TERMINATED"

\* invoke_async, up to find_and_lock_connection.
Invoke(c) ==
  /\ pc[c] = "idle" /\ c \in budget.calls /\ tcp.status # "TERMINATED"
  /\ IF listed /\ Alive THEN refs' = refs + 1 /\ pc' = [pc EXCEPT ![c] = "found"]
                        ELSE pc' = [pc EXCEPT ![c] = "refused"] /\ UNCHANGED refs
  /\ UNCHANGED <<tcp, listed, levin, release, recv, left, drop, net, budget>>

\* async_invoke takes the lock that orders requests and handlers, and sends.
LockHandlers(c) ==
  /\ pc[c] = "found" /\ guard = {}
  /\ guard' = {c} /\ pc' = [pc EXCEPT ![c] = "send"]
  /\ UNCHANGED <<tcp, listed, refs, close_called, handlers, proto_released, timer, timer_cancelled, results,
                 release, recv, left, drop, net, budget>>

\* add_invoke_response_handler and the end of async_invoke: the new handler starts its timer and
\* takes a reference, and scope_exit_handler gives one back.
AddHandler(c) ==
  /\ pc[c] = "sent"
  /\ pc' = [pc EXCEPT ![c] = "done"] /\ guard' = guard \ {c}
  /\ IF proto_released
     THEN /\ results' = [results EXCEPT ![c] = Append(@, "failed")]
          /\ refs' = refs - 1
          /\ UNCHANGED <<handlers, timer>>
     ELSE /\ handlers' = Append(handlers, c)
          /\ timer' = [timer EXCEPT ![c] = "armed"]
          /\ UNCHANGED <<results, refs>>
  /\ UNCHANGED <<tcp, listed, close_called, proto_released, timer_cancelled, release, recv, left, drop, net, budget>>

\* Mutant: the result of cancel_timer is not looked at.
AlwaysCancels(c) == TRUE

\* cancel_timer: only a timer that did not expire is cancelled, and only the first call asks.
Cancels(c) == IF timer_cancelled[c] = "no" THEN timer[c] = "armed" ELSE timer_cancelled[c] = "yes"

TimerCancelled(c) ==
  /\ timer_cancelled' = [timer_cancelled EXCEPT ![c] = IF Cancels(c) THEN "yes" ELSE "late"]
  /\ timer' = [timer EXCEPT ![c] = IF @ = "armed" THEN "off" ELSE @]

\* The call's time is up; the handler is queued and can no longer be cancelled.
Expire(c) ==
  /\ timer[c] = "armed" /\ timer' = [timer EXCEPT ![c] = "expired"]
  /\ UNCHANGED <<tcp, listed, refs, close_called, guard, handlers, proto_released, timer_cancelled, results,
                 release, recv, send, net, budget>>

\* endpoint close().
close(s) == IF s.status = "RUNNING" THEN terminate(s) ELSE s

\* The handler of the call's timer.
TimedOut(c) ==
  /\ timer[c] = "expired" /\ timer' = [timer EXCEPT ![c] = "off"]
  /\ results' = [results EXCEPT ![c] = Append(@, "failed")]
  /\ close_called' = TRUE
  /\ Becomes(close(tcp), "no", 1)
  /\ UNCHANGED <<guard, handlers, proto_released, timer_cancelled, recv, send, net, budget>>

\* The node drops the connection: close takes it off the list afterwards, delete_connections
\* before.  The reference of this thread need not be counted: Alive counts the thread.
Close ==
  /\ listed /\ Alive
  /\ close_called' = TRUE
  /\ \E unlist \in {"before", "after"} : Becomes(close(tcp), unlist, 0)
  /\ UNCHANGED <<guard, handlers, proto_released, timer, timer_cancelled, results, recv, send, net, budget>>

\* A whole answer arrived, to call `to'.  It is taken for the answer to the first call waiting,
\* unless that call's timer has expired: then it is dropped, and the handler is left.
Answered(to) ==
  IF handlers = <<>> THEN recv' = "fail" /\ UNCHANGED <<handlers, timer, timer_cancelled, results, refs>>
  ELSE LET c == Head(handlers) IN
       /\ recv' = "ok"
       /\ TimerCancelled(c)
       /\ IF Cancels(c)
          THEN /\ handlers' = Tail(handlers)
               /\ results' = [results EXCEPT ![c] = Append(@, IF to = c THEN "answered" ELSE "wrong answer")]
               /\ refs' = refs - 1
          ELSE UNCHANGED <<handlers, results, refs>>

\* handle_recv.  The bytes may be part of a message, or nothing the peer should send, or a command
\* that is answered; or the answer to a call, when no call holds the lock of the handlers.
HandleRecv ==
  /\ recv = "posted"
  /\ \/ recv' \in (IF close_called THEN {"fail"} ELSE {"ok", "fail"})
        /\ UNCHANGED <<handlers, timer, timer_cancelled, results, refs, pc, left, inbox, budget>>
     \/ /\ ~ close_called /\ budget.commands > 0
        /\ budget' = [budget EXCEPT !.commands = @ - 1]
        /\ recv' = "reply"
        /\ pc' = [pc EXCEPT !["reply"] = "send"] /\ left' = [left EXCEPT !["reply"] = 1]
        /\ UNCHANGED <<handlers, timer, timer_cancelled, results, refs, inbox>>
     \/ /\ ~ close_called /\ inbox # <<>> /\ guard = {}
        /\ Answered(Head(inbox)) /\ inbox' = Tail(inbox)
        /\ UNCHANGED <<pc, left, budget>>
  /\ UNCHANGED <<tcp, listed, close_called, guard, proto_released, release, drop, wire, torn, peer>>

\* What follows handle_recv.
Received ==
  /\ recv \in {"ok", "fail"} /\ recv' = "idle"
  /\ LET s == [tcp EXCEPT !.handle_read = FALSE] IN
     \E t \in CASE s.status = "RUNNING" /\ recv = "fail" -> {interrupt(s)}
                [] s.status = "RUNNING" /\ recv = "ok"   -> start_read(s)
                [] OTHER -> {on_closing(s)} :
       Handled(t)
  /\ UNCHANGED <<levin, send, net, budget>>

\* release_protocol takes the handlers, cancels them one by one, and returns to cancel_handler.
ReleaseProtocol ==
  /\ release.stage = "lock" /\ guard = {}
  /\ release' = [release EXCEPT !.stage = "cancel", !.todo = handlers]
  /\ handlers' = <<>> /\ proto_released' = TRUE
  /\ UNCHANGED <<tcp, listed, refs, close_called, guard, timer, timer_cancelled, results, recv, send, net, budget>>

CancelCall ==
  /\ release.stage = "cancel" /\ release.todo # <<>>
  /\ LET c == Head(release.todo) IN
     /\ TimerCancelled(c)
     /\ IF Cancels(c) THEN results' = [results EXCEPT ![c] = Append(@, "failed")] /\ refs' = refs - 1
                      ELSE UNCHANGED <<results, refs>>
  /\ release' = [release EXCEPT !.todo = Tail(@)]
  /\ UNCHANGED <<tcp, listed, close_called, guard, handlers, proto_released, recv, send, net, budget>>

\* Mutant: nobody looks whether the connection can be closed now.
released_only(s) == [s EXCEPT !.wait_release = FALSE, !.released = TRUE]

\* cancel_handler from the second lock on.
handler_released(s) == on_closing([s EXCEPT !.wait_release = FALSE, !.released = TRUE])

Released ==
  /\ release.stage = "cancel" /\ release.todo = <<>>
  /\ tcp' = handler_released(tcp)
  /\ refs' = refs - release.finish
  /\ listed' = (listed /\ ~ release.unlist)
  /\ release' = NoThread
  /\ UNCHANGED <<levin, recv, send, net, budget>>

\* The peer answers the next request.
PeerAnswers ==
  /\ peer # <<>> /\ tcp.connected
  /\ peer' = Tail(peer) /\ inbox' = Append(inbox, Head(peer))
  /\ UNCHANGED <<tcp, listed, refs, levin, release, recv, send, wire, torn, budget>>

----------------------------------------------------------------------------
Init ==
  /\ budget \in Settings
  /\ tcp = [type |-> budget.type, ssl |-> budget.ssl, pauses |-> budget.pauses,
            status |-> "TERMINATED", connected |-> FALSE,
            wait |-> {}, cancel |-> {}, reset |-> FALSE, handle_read |-> FALSE, queue |-> <<>>,
            wait_consume |-> FALSE, asleep |-> {}, wait_init |-> FALSE, wait_callback |-> 0,
            wait_release |-> FALSE, released |-> FALSE]
  /\ listed = FALSE /\ refs = 0 /\ close_called = FALSE
  /\ guard = {} /\ handlers = <<>> /\ proto_released = FALSE
  /\ timer = [c \in Calls |-> "off"] /\ timer_cancelled = [c \in Calls |-> "no"]
  /\ release = NoThread /\ recv = "idle"
  /\ pc = [t \in Threads |-> "idle"]
  /\ left = [t \in Threads |-> IF t \in Calls THEN Chunks[t] ELSE 0]
  /\ results = [c \in Calls |-> <<>>]
  /\ wire = <<"reply", 1>> /\ torn = FALSE /\ peer = <<>> /\ inbox = <<>>
  /\ drop = "no"

Next ==
  \/ Start \/ Started \/ RequestCallback \/ RunCallback
  \/ TimerHandler \/ ReadHandler \/ HandshakeHandler \/ WriteHandler \/ ShutdownHandler
  \/ \E op \in {"in", "out"} : ThrottleHandler(op)
  \/ \E t \in Threads : Sending(t)
  \/ \E c \in Calls : Invoke(c) \/ LockHandlers(c) \/ AddHandler(c) \/ Expire(c) \/ TimedOut(c)
  \/ Drop \/ Close \/ HandleRecv \/ Received \/ PeerAnswers
  \/ ReleaseProtocol \/ CancelCall \/ Released

\* Threads run, posted handlers are called and timers expire.  An operation on the bare socket
\* completes once it is cancelled.  Nothing is assumed of the peer, nor of a write or of an
\* operation of the SSL stream: they are made of several, and a cancel may fall between two.
Fairness ==
  /\ WF_vars(Started) /\ WF_vars(RunCallback) /\ WF_vars(TimerHandler) /\ WF_vars(Drop)
  /\ \A op \in {"in", "out"} : WF_vars(ThrottleHandler(op))
  /\ WF_vars(ReadHandler /\ Flagged("read") /\ tcp.ssl = "off")
  /\ WF_vars(Sending("reply") \/ HandleRecv \/ Received)
  /\ \A c \in Calls : WF_vars(Sending(c) \/ LockHandlers(c) \/ AddHandler(c)) /\ WF_vars(Expire(c) \/ TimedOut(c))
  /\ WF_vars(ReleaseProtocol \/ CancelCall \/ Released)

Spec == Init /\ [][Next]_vars /\ Fairness

----------------------------------------------------------------------------
(* Properties. *)

\* What a caller knows of a call: its callback is called once it has a result.
Outcome(c) ==
  CASE pc[c] \in {"idle"} -> "not made"
    [] pc[c] = "refused"  -> "refused"
    [] Len(results[c]) = 1 -> results[c][1]
    [] Len(results[c]) > 1 -> "called twice"
    [] OTHER -> "pending"

AC == INSTANCE AsyncCalls WITH outcome <- [c \in Calls |-> Outcome(c)]

\* async_invoke: a call that is not refused has its callback called, once, with the answer to
\* that call or with an error, whatever the order of the answer, the call's timeout, the closing
\* of the connection and the other calls.
CallsBackOnce == AC!Spec

\* The assertion of the destructor (abstract_tcp_server2.inl): when the last pointer to a started
\* connection goes, its state is WASTED.  No connection is lost between two handlers.
DestroyedWasted == ~ Alive => tcp.status = "WASTED"

\* send: the chunks of a message follow each other on the wire, also when their sender has to wait
\* for the queue to drain and others want to send.  Only a sender that gave up, and posted
\* terminate, leaves part of a message behind.
ChunksTogether == torn => drop # "no"

\* interrupt and terminate on a connection without SSL: it becomes WASTED, and every call over it
\* has ended by then or ends later.
ClosingEnds ==
  (tcp.status \in {"INTERRUPTED", "TERMINATING"} /\ tcp.ssl = "off") ~> (tcp.status = "WASTED")
=============================================================================
