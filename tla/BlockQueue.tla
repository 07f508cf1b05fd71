----------------------------- MODULE BlockQueue -----------------------------
(***************************************************************************)
(* The download queue of a node that is catching up                        *)
(* (cryptonote_protocol/block_queue.cpp) and the parts of the protocol     *)
(* handler that drive it: request_missing_objects reserves a span of       *)
(* blocks for a connection, handle_response_get_objects puts the blocks in *)
(* the queue, try_add_next_blocks takes them out and adds them to the      *)
(* chain, and dropped connections are flushed.                             *)
(*                                                                         *)
(* Every call of the queue is atomic (it has a mutex).  Connections run in *)
(* threads of their own, so anything can happen between two calls; the     *)
(* thread in try_add_next_blocks holds m_sync_lock, and between taking a   *)
(* span and removing it the queue may change.  Nodes keep all blocks       *)
(* (no pruning seeds), and the queue has room.                             *)
(***************************************************************************)
EXTENDS Integers, Sequences, FiniteSets, FiniteSetsExt, SequencesExt

CONSTANTS
  Conns,       \* connections; a new connection has a new id
  Networks,    \* what the peers may have: a set of functions like chain_of
  Genesis,     \* id of the genesis block
  Bad,         \* blocks that fail verification
  Reliable,    \* connections that are never lost
  Sizes        \* values of max_blocks

VARIABLES
  chain_of,          \* [Conns -> Seq(Hashes)]: the peer's chain above the genesis block; fixed
  max_blocks,        \* blocks in a request (get_block_sync_size); fixed
  blocks,            \* [start heights -> spans]
  requested_hashes,  \* hashes some span is to bring
  have_blocks,       \* hashes that were brought, with their heights
  known,             \* blocks of the core: have_block
  live,              \* open connections
  asked,             \* [Conns -> the request a connection waits for an answer to]
  adding             \* the span the thread with m_sync_lock is adding

setting == <<chain_of, max_blocks>>
queue   == <<blocks, requested_hashes, have_blocks>>
vars    == <<chain_of, max_blocks, blocks, requested_hashes, have_blocks, known, live, asked, adding>>

Hashes == UNION { ToSet(chain_of[c]) : c \in Conns }

\* A block's height and parent, from the chain it is in.
HeightIn(c, h) == CHOOSE i \in DOMAIN chain_of[c] : chain_of[c][i] = h
Holders(h)     == { c \in Conns : h \in ToSet(chain_of[c]) }
height(h)      == HeightIn(CHOOSE c \in Holders(h) : TRUE, h)
parent(h)      == IF height(h) = 1 THEN Genesis ELSE chain_of[CHOOSE c \in Holders(h) : TRUE][height(h) - 1]

\* Two chains that share a block share all before it.
ShareHistory(c, d) ==
  \A i \in DOMAIN c, j \in DOMAIN d : c[i] = d[j] => i = j /\ SubSeq(c, 1, i) = SubSeq(d, 1, j)

ASSUME QueueAssumption ==
  /\ Sizes \subseteq Nat \ {0}
  /\ Reliable \subseteq Conns
  /\ \A n \in Networks : /\ \A c \in Conns : n[c] \in Seq(ToSet(n[c]))
                        /\ \A c, d \in Conns : ShareHistory(n[c], n[d])

\* A span: whom it was asked of or came from, the hashes it stands for, the blocks it holds
\* (none while it is scheduled) and their number.
Span(c, hashes, bcel, n) == [conn |-> c, hashes |-> hashes, blocks |-> bcel, nblocks |-> n]

Filled(s) == s.blocks # <<>>
Nothing   == [start |-> 0, hashes |-> <<>>]
NoSpan    == [start |-> 0, span |-> Span("none", <<>>, <<>>, 0)]

----------------------------------------------------------------------------
(* block_queue: what each operation makes of the queue q, a record of its three members. *)

Q == [blocks |-> blocks, requested |-> requested_hashes, have |-> have_blocks]

Without(f, S) == [x \in DOMAIN f \ S |-> f[x]]
Put(f, x, v)  == [y \in DOMAIN f \cup {x} |-> IF y = x THEN v ELSE f[y]]

\* Mutant: the hashes stay requested.
erase_keeps_requested(q, S) ==
  LET gone == UNION { ToSet(q.blocks[s].hashes) : s \in S } IN
  [blocks    |-> Without(q.blocks, S),
   requested |-> q.requested,
   have      |-> Without(q.have, gone)]

\* Mutant: the hashes stay downloaded.
erase_keeps_have(q, S) ==
  LET gone == UNION { ToSet(q.blocks[s].hashes) : s \in S } IN
  [blocks    |-> Without(q.blocks, S),
   requested |-> q.requested \ gone,
   have      |-> q.have]

\* erase_block, for every span that starts in S.
erase_blocks(q, S) ==
  LET gone == UNION { ToSet(q.blocks[s].hashes) : s \in S } IN
  [blocks    |-> Without(q.blocks, S),
   requested |-> q.requested \ gone,
   have      |-> Without(q.have, gone)]

set_span_hashes(q, start, c, hashes) ==
  IF start \in DOMAIN q.blocks /\ q.blocks[start].conn = c
  THEN LET e == erase_blocks(q, {start}) IN
       [e EXCEPT !.requested = @ \cup ToSet(hashes),
                 !.blocks = Put(@, start, [q.blocks[start] EXCEPT !.hashes = hashes])]
  ELSE q

\* add_blocks of a reservation.  The set keeps the span it has for that height.
add_scheduled(q, start, n, c) ==
  IF start \in DOMAIN q.blocks THEN q
  ELSE [q EXCEPT !.blocks = Put(@, start, Span(c, <<>>, <<>>, n))]

\* add_blocks of downloaded blocks.  They take the place, and the hashes, of the span that
\* starts at that height, whoever reserved it.
add_filled(q, start, bcel, c) ==
  LET there  == start \in DOMAIN q.blocks
      hashes == IF there THEN q.blocks[start].hashes ELSE <<>>
      e      == IF there THEN erase_blocks(q, {start}) ELSE q
      f      == [e EXCEPT !.blocks = Put(@, start, Span(c, <<>>, bcel, Len(bcel)))]
      have   == [h \in DOMAIN f.have \cup ToSet(hashes) |->
                   IF h \in DOMAIN f.have THEN f.have[h]
                   ELSE start + (CHOOSE i \in DOMAIN hashes : hashes[i] = h) - 1]
  IN IF there
     THEN set_span_hashes([f EXCEPT !.requested = @ \cup ToSet(hashes), !.have = have], start, c, hashes)
     ELSE f

\* Mutant: scheduled spans survive their connection.
flush_all_only(q, c, all) ==
  erase_blocks(q, { s \in DOMAIN q.blocks : q.blocks[s].conn = c /\ all })

flush_spans(q, c, all) ==
  erase_blocks(q, { s \in DOMAIN q.blocks : q.blocks[s].conn = c /\ (all \/ ~ Filled(q.blocks[s])) })

flush_stale_spans(q, alive) ==
  erase_blocks(q, { s \in DOMAIN q.blocks : ~ Filled(q.blocks[s]) /\ q.blocks[s].conn \notin alive })

remove_spans(q, c, start) ==
  erase_blocks(q, { s \in DOMAIN q.blocks : q.blocks[s].conn = c /\ s <= start })

\* reserve_span for the heights first to last of a peer's chain: what was requested is skipped,
\* then up to max_blocks are taken.  Length 0: nothing to reserve.
reserve_span(q, c, first, last) ==
  LET free   == { i \in first .. last : chain_of[c][i] \notin q.requested }
      start  == IF free = {} THEN 0 ELSE Min(free)
      hashes == IF free = {} THEN <<>>
                ELSE SubSeq(chain_of[c], start, Min({last, start + max_blocks - 1}))
  IN [start  |-> start, hashes |-> hashes,
      q      |-> IF free = {} THEN q
                 ELSE set_span_hashes(add_scheduled(q, start, Len(hashes), c), start, c, hashes)]

first_span(q) == Min(DOMAIN q.blocks)

\* get_next_span: the lowest filled one.
filled_spans(q)  == { s \in DOMAIN q.blocks : Filled(q.blocks[s]) }
next_filled(q)   == Min(filled_spans(q))

\* The queue becomes q.
QueueIs(q) ==
  \E v \in {q} : /\ blocks' = v.blocks
                 /\ requested_hashes' = v.requested
                 /\ have_blocks' = v.have

----------------------------------------------------------------------------
(* request_missing_objects: stale spans go first, and hashes the node has or has downloaded    *)
(* are skipped.                                                                            *)

\* What is left of the peer's list of needed hashes that starts at height lo.
Needed(c, lo, q) ==
  { i \in lo .. Len(chain_of[c]) : chain_of[c][i] \notin known \cup DOMAIN q.have }

Request(c, lo) ==
  /\ c \in live /\ asked[c] = Nothing
  /\ \E q \in {flush_stale_spans(Q, live)} :
       /\ Needed(c, lo, q) # {}
       /\ \E r \in {reserve_span(q, c, Min(Needed(c, lo, q)), Len(chain_of[c]))} :
            /\ r.hashes # <<>>
            /\ QueueIs(r.q)
            /\ asked' = [asked EXCEPT ![c] = [start |-> r.start, hashes |-> r.hashes]]
  /\ UNCHANGED <<setting, known, live, adding>>

\* The first span is late, or all else is scheduled: another connection is asked for it too.
RequestNext(c) ==
  /\ c \in live /\ asked[c] = Nothing
  /\ \E q \in {flush_stale_spans(Q, live)} :
       /\ DOMAIN q.blocks # {} /\ ~ Filled(q.blocks[first_span(q)])
       /\ QueueIs(q)
       /\ asked' = [asked EXCEPT ![c] = [start |-> first_span(q), hashes |-> q.blocks[first_span(q)].hashes]]
  /\ UNCHANGED <<setting, known, live, adding>>

\* handle_response_get_objects: exactly what was asked for, from the peer's own chain.
CanAnswer(c) == asked[c] # Nothing /\ ToSet(asked[c].hashes) \subseteq ToSet(chain_of[c])

Response(c) ==
  /\ c \in live /\ CanAnswer(c)
  /\ QueueIs(add_filled(Q, asked[c].start, asked[c].hashes, c))
  /\ asked' = [asked EXCEPT ![c] = Nothing]
  /\ UNCHANGED <<setting, known, live, adding>>

\* The connection is lost or dropped; what it did not bring yet is free again.
Drop(c) ==
  /\ c \in live
  /\ c \in Reliable => asked[c] # Nothing /\ ~ CanAnswer(c)
  /\ QueueIs(flush_spans(Q, c, FALSE))
  /\ live' = live \ {c}
  /\ asked' = [asked EXCEPT ![c] = Nothing]
  /\ UNCHANGED <<setting, known, adding>>

----------------------------------------------------------------------------
(* try_add_next_blocks, by the thread that holds m_sync_lock. *)

blockchain_height == 1 + Max({0} \cup { height(h) : h \in known \ {Genesis} })

\* Mutant: old blocks stay in the queue.
OldSpanStays ==
  /\ adding = NoSpan /\ filled_spans(Q) # {}
  /\ Last(blocks[next_filled(Q)].blocks) \in known
  /\ UNCHANGED vars

\* The last block is known: old blocks, ignored.
OldSpan ==
  /\ adding = NoSpan /\ filled_spans(Q) # {}
  /\ LET s == next_filled(Q) IN
     /\ Last(blocks[s].blocks) \in known
     /\ QueueIs(remove_spans(Q, blocks[s].conn, s))
  /\ UNCHANGED <<setting, known, live, asked, adding>>

StartAdding ==
  /\ adding = NoSpan /\ filled_spans(Q) # {}
  /\ LET s == next_filled(Q) IN
     /\ Last(blocks[s].blocks) \notin known
     /\ parent(Head(blocks[s].blocks)) \in known
     /\ adding' = [start |-> s, span |-> blocks[s]]
  /\ UNCHANGED <<setting, queue, known, live, asked>>

\* The parent is not known.  When it was asked for, the span waits; otherwise the span goes, if it
\* is the one that is needed now.  (have_height of the parent is its height in every chain here, so
\* no connection is dropped for a wrong one.)
Orphan ==
  /\ adding = NoSpan /\ filled_spans(Q) # {}
  /\ LET s == next_filled(Q)
         p == parent(Head(blocks[s].blocks))
     IN /\ Last(blocks[s].blocks) \notin known /\ p \notin known
        /\ p \notin requested_hashes /\ s <= blockchain_height
        /\ QueueIs(remove_spans(Q, blocks[s].conn, s))
  /\ UNCHANGED <<setting, known, live, asked, adding>>

\* The blocks are added one by one and the span is removed; a block that fails takes its
\* connection and all the connection's spans with it.
FinishAdding ==
  LET bs   == adding.span.blocks
      c    == adding.span.conn
      bad  == { i \in DOMAIN bs : bs[i] \in Bad }
      q    == IF bad # {} /\ c \in live THEN flush_spans(Q, c, TRUE) ELSE Q
  IN /\ adding # NoSpan
     /\ known' = known \cup { bs[i] : i \in { k \in DOMAIN bs : \A b \in bad : k < b } }
     /\ QueueIs(remove_spans(q, c, adding.start))
     /\ IF bad = {} THEN UNCHANGED <<live, asked>>
        ELSE live' = live \ {c} /\ asked' = [asked EXCEPT ![c] = Nothing]
     /\ adding' = NoSpan
     /\ UNCHANGED setting

----------------------------------------------------------------------------
Init ==
  /\ chain_of \in Networks /\ max_blocks \in Sizes
  /\ blocks = <<>> /\ requested_hashes = {} /\ have_blocks = <<>>
  /\ known = {Genesis}
  /\ live = Conns
  /\ asked = [c \in Conns |-> Nothing]
  /\ adding = NoSpan

Adding == OldSpan \/ StartAdding \/ Orphan \/ FinishAdding

Next ==
  \/ \E c \in Conns :
       \/ \E lo \in DOMAIN chain_of[c] : Request(c, lo)
       \/ RequestNext(c)
       \/ Response(c)
       \/ Drop(c)
  \/ Adding

Spec == Init /\ [][Next]_vars

\* A connection asks when it can, a peer answers or is dropped (there is a timeout), and whoever
\* brings blocks or comes back from standby adds what can be added.
FairSpec ==
  /\ Spec
  /\ \A c \in Conns : /\ WF_vars(\E lo \in DOMAIN chain_of[c] : Request(c, lo))
                      /\ WF_vars(Response(c) \/ Drop(c))
  /\ WF_vars(Adding)

----------------------------------------------------------------------------
(* Properties. *)

\* All peers are on one chain.
OneChain == \A c, d \in Conns : chain_of[c] = chain_of[d]

\* No hash is left marked as requested once no span stands for it (erase_block): such a hash
\* would never be asked for again, by any connection, and what builds on it would wait forever.
RequestedHasSpan == requested_hashes \subseteq UNION { ToSet(blocks[s].hashes) : s \in DOMAIN blocks }

\* A span that is still scheduled is one its connection is waiting for, so it will be filled
\* or flushed (add_blocks, flush_spans, flush_stale_spans).
ScheduledIsAsked ==
  \A s \in DOMAIN blocks :
    ~ Filled(blocks[s]) => blocks[s].conn \in live /\ asked[blocks[s].conn].start = s

\* While the peers are on one chain, a hash the queue says it has (have, have_height) is one of the
\* blocks that were downloaded and wait in it: handle_response_chain_entry trusts such a hash as proven.
HaveIsDownloaded ==
  OneChain => \A h \in DOMAIN have_blocks :
    \E s \in DOMAIN blocks : /\ h \in ToSet(blocks[s].blocks)
                             /\ have_blocks[h] = height(h)

\* The download never wedges while the peers are on one chain: whatever connections are lost at
\* whatever time, a node with one reliable connection gets all its blocks.
Synced == OneChain => <>(\A c \in Reliable : ToSet(chain_of[c]) \subseteq known)

=============================================================================
