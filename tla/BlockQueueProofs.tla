--------------------------- MODULE BlockQueueProofs ---------------------------
(* The bookkeeping of the download queue, for any number of connections, whatever chains their      *)
(* peers have, and however the threads of the protocol handler interleave.                           *)
EXTENDS BlockQueue, SequenceTheorems, WellFoundedInduction, TLAPS

IsSpan(s) == s = Span(s.conn, s.hashes, s.blocks, s.nblocks)

\* A span of q stands for h.
Covered(q, h) == \E s \in DOMAIN q.blocks : h \in ToSet(q.blocks[s].hashes)

QueueOK(q) ==
  /\ q = [blocks |-> q.blocks, requested |-> q.requested, have |-> q.have]
  /\ \A s \in DOMAIN q.blocks : IsSpan(q.blocks[s])
  /\ \A h \in q.requested : Covered(q, h)

\* What a scheduled span b[s] needs: its connection is open and waits for an answer about it.
Awaited(b, s, alive, waits) ==
  ~ Filled(b[s]) => /\ b[s].hashes # <<>>
                    /\ b[s].conn \in alive
                    /\ waits[b[s].conn] # Nothing
                    /\ waits[b[s].conn].start = s

AskedOK(v) == v.start \in Nat /\ (v # Nothing => v.hashes # <<>>)

\* The inductive invariant.
IInv ==
  /\ QueueOK(Q)
  /\ \A s \in DOMAIN blocks : Awaited(blocks, s, live, asked)
  /\ DOMAIN blocks \subseteq Nat
  /\ chain_of \in Networks
  /\ live \subseteq Conns
  /\ asked = [c \in Conns |-> asked[c]]
  /\ \A c \in Conns : AskedOK(asked[c])

----------------------------------------------------------------------------
(* The operations of the queue. *)

LEMMA MinIsIn == ASSUME NEW T, T \subseteq Nat, T # {} PROVE Min(T) \in T
<1>1. PICK x \in T : \A y \in T : ~ (<<y, x>> \in OpToRel(<, Nat))
  BY NatLessThanWellFounded, WFMin, Zenon
<1>2. \A y \in T : x <= y
  <2> SUFFICES ASSUME NEW y \in T, ~ (x <= y) PROVE FALSE
    BY Zenon
  <2>1. y < x /\ y \in Nat /\ x \in Nat
    OBVIOUS
  <2>2. <<y, x>> \in OpToRel(<, Nat)
    BY <2>1, Zenon DEF OpToRel
  <2> QED
    BY <1>1, <2>2, Zenon
<1> QED
  BY <1>2, Zenon DEF Min

\* erase_block leaves the other spans, and no hash without one.
LEMMA Erase ==
  ASSUME NEW q, NEW S, QueueOK(q)
  PROVE  LET e == erase_blocks(q, S) IN
         /\ QueueOK(e)
         /\ DOMAIN e.blocks = DOMAIN q.blocks \ S
         /\ \A s \in DOMAIN e.blocks : e.blocks[s] = q.blocks[s]
<1> DEFINE gone == UNION { ToSet(q.blocks[s].hashes) : s \in S }
           e == erase_blocks(q, S)
<1>1. /\ e = [blocks |-> e.blocks, requested |-> e.requested, have |-> e.have]
      /\ e.blocks = Without(q.blocks, S)
      /\ e.requested = q.requested \ gone
  BY Zenon DEF erase_blocks
<1>2. /\ DOMAIN e.blocks = DOMAIN q.blocks \ S
      /\ \A s \in DOMAIN e.blocks : e.blocks[s] = q.blocks[s]
  BY <1>1, Zenon DEF Without
<1>3. ASSUME NEW h \in e.requested PROVE Covered(e, h)
  <2>1. PICK s \in DOMAIN q.blocks : h \in ToSet(q.blocks[s].hashes)
    BY <1>1, Zenon DEF QueueOK, Covered
  <2>2. s \notin S
    BY <1>1, <2>1, Zenon
  <2> QED
    BY <1>2, <2>1, <2>2, Zenon DEF Covered
<1> QED
  BY <1>1, <1>2, <1>3, Zenon DEF QueueOK

\* q may lack a span for some of the hashes the span at start is to stand for, and for no other.
Lacks(q, start, c, hashes) ==
  /\ start \in DOMAIN q.blocks /\ q.blocks[start].conn = c
  /\ q = [blocks |-> q.blocks, requested |-> q.requested, have |-> q.have]
  /\ \A s \in DOMAIN q.blocks : IsSpan(q.blocks[s])
  /\ \A h \in q.requested : h \in ToSet(hashes) \/ Covered(q, h)

\* r is q with those hashes given to the span at start.
Supplied(q, start, c, hashes, r) ==
  /\ QueueOK(r)
  /\ DOMAIN r.blocks = DOMAIN q.blocks
  /\ \A s \in DOMAIN q.blocks \ {start} : r.blocks[s] = q.blocks[s]
  /\ r.blocks[start] = Span(c, hashes, q.blocks[start].blocks, q.blocks[start].nblocks)

\* set_span_hashes of a span of that connection: the span then stands for the hashes.
LEMMA SetHashes ==
  ASSUME NEW q, NEW start, NEW c, NEW hashes, Lacks(q, start, c, hashes)
  PROVE  Supplied(q, start, c, hashes, set_span_hashes(q, start, c, hashes))
<1> USE DEF Lacks
<1> DEFINE gone == UNION { ToSet(q.blocks[s].hashes) : s \in {start} }
           e == erase_blocks(q, {start})
           sp == [q.blocks[start] EXCEPT !.hashes = hashes]
           r == set_span_hashes(q, start, c, hashes)
<1>1. e = [blocks |-> Without(q.blocks, {start}), requested |-> q.requested \ gone, have |-> Without(q.have, gone)]
  BY Zenon DEF erase_blocks
<1>2. r = [blocks    |-> Put(Without(q.blocks, {start}), start, sp),
           requested |-> (q.requested \ gone) \cup ToSet(hashes),
           have      |-> Without(q.have, gone)]
  <2>1. r = [e EXCEPT !.requested = @ \cup ToSet(hashes), !.blocks = Put(@, start, sp)]
    BY Zenon DEF set_span_hashes
  <2> HIDE DEF e, sp, r, gone
  <2> QED
    BY <2>1, <1>1, Zenon
<1>3. /\ DOMAIN r.blocks = DOMAIN q.blocks
      /\ \A s \in DOMAIN q.blocks \ {start} : r.blocks[s] = q.blocks[s]
      /\ r.blocks[start] = sp
      /\ r.requested = (q.requested \ gone) \cup ToSet(hashes)
      /\ r = [blocks |-> r.blocks, requested |-> r.requested, have |-> r.have]
  <2> HIDE DEF sp, r, gone
  <2> QED
    BY <1>2, Zenon DEF Put, Without
<1>4. /\ sp = Span(c, hashes, q.blocks[start].blocks, q.blocks[start].nblocks)
      /\ IsSpan(sp) /\ sp.hashes = hashes
  BY DEF IsSpan, Span
<1>5. ASSUME NEW h \in r.requested PROVE Covered(r, h)
  <2>1. CASE h \in ToSet(hashes)
    BY <2>1, <1>3, <1>4, Zenon DEF Covered
  <2>2. CASE h \notin ToSet(hashes)
    <3>1. h \in q.requested /\ h \notin gone
      BY <2>2, <1>3, Zenon
    <3>2. PICK s \in DOMAIN q.blocks : h \in ToSet(q.blocks[s].hashes)
      BY <2>2, <3>1, Zenon DEF Covered
    <3>3. s # start
      BY <3>1, <3>2, Zenon
    <3> QED
      BY <1>3, <3>2, <3>3, Zenon DEF Covered
  <2> QED
    BY <2>1, <2>2, Zenon
<1>6. \A s \in DOMAIN r.blocks : IsSpan(r.blocks[s])
  <2> HIDE DEF sp, r
  <2> QED
    BY <1>3, <1>4, Zenon DEF IsSpan
<1>7. Supplied(q, start, c, hashes, r)
  <2> HIDE DEF r, sp
  <2> QED
    BY <1>3, <1>4, <1>5, <1>6, Zenon DEF QueueOK, Supplied
<1> QED
  BY <1>7, Zenon

\* have_blocks with the hashes of a span that starts at that height.
HaveWith(hv, start, hashes) ==
  [h \in DOMAIN hv \cup ToSet(hashes) |->
     IF h \in DOMAIN hv THEN hv[h] ELSE start + (CHOOSE i \in DOMAIN hashes : hashes[i] = h) - 1]

\* add_blocks of downloaded blocks, where there is a span: g is the queue with that span replaced, just
\* before it is given the hashes of the old one.
Replaced(q, start, bcel, c, g) ==
  LET hashes == q.blocks[start].hashes
      e      == erase_blocks(q, {start})
  IN /\ Lacks(g, start, c, hashes)
     /\ DOMAIN g.blocks = DOMAIN q.blocks
     /\ \A s \in DOMAIN q.blocks \ {start} : g.blocks[s] = q.blocks[s]
     /\ g.blocks[start] = Span(c, <<>>, bcel, Len(bcel))
     /\ g.have = HaveWith(e.have, start, hashes)

LEMMA AddReplaces ==
  ASSUME NEW q, NEW start, NEW bcel, NEW c, QueueOK(q), start \in DOMAIN q.blocks
  PROVE  \E g : /\ Replaced(q, start, bcel, c, g)
                /\ add_filled(q, start, bcel, c) = set_span_hashes(g, start, c, q.blocks[start].hashes)
<1> DEFINE new == Span(c, <<>>, bcel, Len(bcel))
           hashes == q.blocks[start].hashes
           e == erase_blocks(q, {start})
           f == [e EXCEPT !.blocks = Put(@, start, new)]
           have == [h \in DOMAIN f.have \cup ToSet(hashes) |->
                      IF h \in DOMAIN f.have THEN f.have[h]
                      ELSE start + (CHOOSE i \in DOMAIN hashes : hashes[i] = h) - 1]
           g == [f EXCEPT !.requested = @ \cup ToSet(hashes), !.have = have]
           r == set_span_hashes(g, start, c, hashes)
<1>1. /\ QueueOK(e)
      /\ DOMAIN e.blocks = DOMAIN q.blocks \ {start}
      /\ \A s \in DOMAIN e.blocks : e.blocks[s] = q.blocks[s]
  BY Erase, Zenon
<1>2. e = [blocks |-> e.blocks, requested |-> e.requested, have |-> e.have]
  BY <1>1, Zenon DEF QueueOK
<1>3. add_filled(q, start, bcel, c) = r
  BY DEF add_filled
<1>4. f = [blocks |-> Put(e.blocks, start, new), requested |-> e.requested, have |-> e.have]
  <2> HIDE DEF e, new
  <2> QED
    BY <1>2
<1>5. have = HaveWith(e.have, start, hashes)
  <2>1. f.have = e.have
    BY <1>4, Zenon
  <2>2. have = HaveWith(f.have, start, hashes)
    BY Zenon DEF HaveWith
  <2> HIDE DEF e, hashes, f, have
  <2> QED
    BY <2>1, <2>2, Zenon
<1>6. g = [blocks |-> f.blocks, requested |-> f.requested \cup ToSet(hashes), have |-> have]
  <2>1. g = [f EXCEPT !.requested = @ \cup ToSet(hashes), !.have = have]
    BY Zenon
  <2> HIDE DEF hashes, e, g, new, f, have
  <2> QED
    BY <1>4, <2>1, Zenon
<1>7. /\ DOMAIN g.blocks = DOMAIN e.blocks \cup {start}
      /\ \A s \in DOMAIN e.blocks : g.blocks[s] = q.blocks[s]
      /\ g.blocks[start] = new
      /\ g.requested = e.requested \cup ToSet(hashes)
      /\ g.have = have
      /\ g = [blocks |-> g.blocks, requested |-> g.requested, have |-> g.have]
  <2>1. f.blocks = Put(e.blocks, start, new) /\ f.requested = e.requested
    BY <1>4, Zenon
  <2> HIDE DEF e, new, hashes, g, f, have
  <2> QED
    BY <1>1, <1>6, <2>1, Zenon DEF Put
<1>8. IsSpan(new) /\ new.conn = c
  BY Zenon DEF IsSpan, Span
<1>9. Lacks(g, start, c, hashes)
  <2> HIDE DEF e, g, new, hashes, have
  <2>1. \A s \in DOMAIN g.blocks : IsSpan(g.blocks[s])
    BY <1>1, <1>7, <1>8, Zenon DEF QueueOK
  <2>2. \A h \in g.requested : h \in ToSet(hashes) \/ Covered(g, h)
    BY <1>1, <1>7 DEF QueueOK, Covered
  <2>3. start \in DOMAIN g.blocks /\ g.blocks[start].conn = c
    BY <1>7, <1>8, Zenon
  <2> QED
    BY <1>7, <2>1, <2>2, <2>3, Zenon DEF Lacks
<1>10. /\ DOMAIN g.blocks = DOMAIN q.blocks
       /\ \A s \in DOMAIN q.blocks \ {start} : g.blocks[s] = q.blocks[s]
  <2> HIDE DEF e, g, new, hashes, have
  <2> QED
    BY <1>1, <1>7, Zenon
<1>11. Replaced(q, start, bcel, c, g)
  <2>1. g.have = HaveWith(e.have, start, hashes)
    BY <1>5, <1>7, Zenon
  <2>2. g.blocks[start] = Span(c, <<>>, bcel, Len(bcel))
    BY <1>7, Zenon
  <2> HIDE DEF g
  <2> QED
    BY <1>9, <1>10, <2>1, <2>2, Zenon DEF Replaced
<1> HIDE DEF g
<1> QED
  BY <1>3, <1>11, Zenon

\* add_blocks of downloaded blocks: the span at that height is filled, and stands for the hashes the
\* one before stood for.
LEMMA AddFilled ==
  ASSUME NEW q, NEW start, NEW bcel, NEW c, QueueOK(q), bcel # <<>>
  PROVE  LET r == add_filled(q, start, bcel, c) IN
         /\ QueueOK(r)
         /\ \A s \in DOMAIN r.blocks \ {start} : s \in DOMAIN q.blocks /\ r.blocks[s] = q.blocks[s]
         /\ Filled(r.blocks[start])
<1> DEFINE new == Span(c, <<>>, bcel, Len(bcel))
<1>1. CASE start \notin DOMAIN q.blocks
  <2> DEFINE f == [blocks |-> Put(q.blocks, start, new), requested |-> q.requested, have |-> q.have]
  <2>1. add_filled(q, start, bcel, c) = f
    BY <1>1, Zenon DEF add_filled, QueueOK
  <2>2. /\ DOMAIN f.blocks = DOMAIN q.blocks \cup {start}
        /\ \A s \in DOMAIN q.blocks : f.blocks[s] = q.blocks[s]
        /\ f.blocks[start] = new
    BY <1>1, Zenon DEF Put
  <2>3. IsSpan(new) /\ Filled(new)
    BY Zenon DEF IsSpan, Span, Filled
  <2>4. QueueOK(f)
    BY <2>2, <2>3, Zenon DEF QueueOK, Covered
  <2> HIDE DEF f, new
  <2> QED
    BY <2>1, <2>2, <2>3, <2>4, Zenon
<1>2. CASE start \in DOMAIN q.blocks
  <2> DEFINE hashes == q.blocks[start].hashes
             r == add_filled(q, start, bcel, c)
  <2>1. PICK g : Replaced(q, start, bcel, c, g) /\ r = set_span_hashes(g, start, c, hashes)
    BY <1>2, AddReplaces, Zenon
  <2> HIDE DEF r, hashes
  <2>2. /\ Lacks(g, start, c, hashes)
        /\ DOMAIN g.blocks = DOMAIN q.blocks
        /\ \A s \in DOMAIN q.blocks \ {start} : g.blocks[s] = q.blocks[s]
        /\ g.blocks[start] = new
    BY <2>1, Zenon DEF Replaced, hashes
  <2>3. Supplied(g, start, c, hashes, r)
    BY <2>1, <2>2, SetHashes, Zenon
  <2>4. r.blocks[start].blocks = bcel
    BY <2>2, <2>3 DEF Supplied, Span
  <2>5. Filled(r.blocks[start])
    BY <2>4, Zenon DEF Filled
  <2> HIDE DEF new
  <2>6. /\ QueueOK(r)
        /\ \A s \in DOMAIN r.blocks \ {start} : s \in DOMAIN q.blocks /\ r.blocks[s] = q.blocks[s]
    BY <2>2, <2>3, Zenon DEF Supplied
  <2> QED
    BY <2>5, <2>6, Zenon DEF r
<1> QED
  BY <1>1, <1>2, Zenon

\* reserve_span leaves every span as it was, but for the one it reserves.
LEMMA Reserve ==
  ASSUME NEW q, NEW c, NEW first, NEW last, QueueOK(q), reserve_span(q, c, first, last).hashes # <<>>
  PROVE  LET r == reserve_span(q, c, first, last) IN
         /\ QueueOK(r.q)
         /\ \A s \in DOMAIN r.q.blocks :
              \/ s \in DOMAIN q.blocks /\ r.q.blocks[s] = q.blocks[s]
              \/ s = r.start /\ r.q.blocks[s].conn = c /\ r.q.blocks[s].hashes = r.hashes
<1> DEFINE r == reserve_span(q, c, first, last)
           a == add_scheduled(q, r.start, Len(r.hashes), c)
           new == Span(c, <<>>, <<>>, Len(r.hashes))
<1>1. r.q = set_span_hashes(a, r.start, c, r.hashes)
  BY Zenon DEF reserve_span
<1>2. /\ QueueOK(a)
      /\ r.start \in DOMAIN a.blocks
      /\ \A s \in DOMAIN a.blocks : \/ s \in DOMAIN q.blocks /\ a.blocks[s] = q.blocks[s]
                                    \/ s = r.start /\ a.blocks[s].conn = c
  <2> HIDE DEF r
  <2>1. CASE r.start \in DOMAIN q.blocks
    BY <2>1, Zenon DEF add_scheduled
  <2>2. CASE r.start \notin DOMAIN q.blocks
    <3>1. a = [blocks |-> Put(q.blocks, r.start, new), requested |-> q.requested, have |-> q.have]
      BY <2>2, Zenon DEF add_scheduled, QueueOK
    <3> HIDE DEF a
    <3>2. /\ DOMAIN a.blocks = DOMAIN q.blocks \cup {r.start}
          /\ \A s \in DOMAIN q.blocks : a.blocks[s] = q.blocks[s]
          /\ a.blocks[r.start] = new
          /\ a.requested = q.requested
          /\ a = [blocks |-> a.blocks, requested |-> a.requested, have |-> a.have]
      <4> HIDE DEF new
      <4> QED
        BY <3>1, <2>2, Zenon DEF Put
    <3>3. IsSpan(new) /\ new.conn = c
      BY Zenon DEF IsSpan, Span
    <3> HIDE DEF new
    <3> QED
      BY <3>2, <3>3, Zenon DEF QueueOK, Covered
  <2> QED
    BY <2>1, <2>2, Zenon
<1> HIDE DEF r, a
<1>3. CASE a.blocks[r.start].conn = c
  <2>1. /\ QueueOK(r.q)
        /\ DOMAIN r.q.blocks = DOMAIN a.blocks
        /\ \A s \in DOMAIN a.blocks \ {r.start} : r.q.blocks[s] = a.blocks[s]
        /\ r.q.blocks[r.start]
             = Span(c, r.hashes, a.blocks[r.start].blocks, a.blocks[r.start].nblocks)
    <3>1. Lacks(a, r.start, c, r.hashes)
      BY <1>2, <1>3, Zenon DEF QueueOK, Lacks
    <3> QED
      BY <3>1, <1>1, SetHashes DEF Supplied
  <2>3. r.q.blocks[r.start].conn = c /\ r.q.blocks[r.start].hashes = r.hashes
    BY <2>1 DEF Span
  <2> QED
    BY <2>1, <2>3, <1>2, Zenon DEF r
<1>4. CASE a.blocks[r.start].conn # c
  <2>1. r.q = a
    BY <1>1, <1>4, Zenon DEF set_span_hashes
  <2> QED
    BY <2>1, <1>2, <1>4, Zenon DEF r
<1> QED
  BY <1>3, <1>4, Zenon

----------------------------------------------------------------------------
(* The invariant is inductive. *)

LEMMA QueueBecomes ==
  ASSUME NEW q, QueueIs(q), QueueOK(q)
  PROVE  Q' = q /\ blocks' = q.blocks /\ QueueOK(Q')
<1>1. blocks' = q.blocks /\ requested_hashes' = q.requested /\ have_blocks' = q.have
  BY Zenon DEF QueueIs
<1>2. Q' = q
  BY <1>1, Zenon DEF Q, QueueOK
<1> QED
  BY <1>1, <1>2, Zenon

\* A change of what one connection waits for.
LEMMA AskedChanges ==
  ASSUME IInv, NEW c, NEW v, asked' = [asked EXCEPT ![c] = v], AskedOK(v)
  PROVE  /\ asked' = [d \in Conns |-> asked'[d]]
         /\ \A d \in Conns : asked'[d] = IF d = c THEN v ELSE asked[d]
         /\ \A d \in Conns : AskedOK(asked'[d])
  BY Zenon DEF IInv

\* Erasing spans keeps the invariant while every scheduled span that stays is still waited for.
LEMMA Erased ==
  ASSUME IInv, NEW S, QueueIs(erase_blocks(Q, S))
  PROVE  /\ QueueOK(Q')
         /\ blocks' = erase_blocks(Q, S).blocks
         /\ DOMAIN blocks' = DOMAIN blocks \ S
         /\ \A s \in DOMAIN blocks' : blocks'[s] = blocks[s]
<1>1. QueueOK(Q) /\ Q.blocks = blocks
  BY Zenon DEF IInv, Q
<1> QED
  BY <1>1, Erase, QueueBecomes, SMTT(30)

LEMMA RequestKeeps == ASSUME IInv, NEW c \in Conns, NEW lo \in DOMAIN chain_of[c], Request(c, lo) PROVE IInv'
<1> DEFINE S == { s \in DOMAIN Q.blocks : ~ Filled(Q.blocks[s]) /\ Q.blocks[s].conn \notin live }
           q == flush_stale_spans(Q, live)
           r == reserve_span(q, c, Min(Needed(c, lo, q)), Len(chain_of[c]))
           v == [start |-> r.start, hashes |-> r.hashes]
<1>1. /\ c \in live /\ asked[c] = Nothing
      /\ r.hashes # <<>>
      /\ QueueIs(r.q)
      /\ asked' = [asked EXCEPT ![c] = v]
      /\ live' = live /\ chain_of' = chain_of
      /\ Needed(c, lo, q) # {}
  BY Zenon DEF Request, setting
<1>2. /\ QueueOK(q)
      /\ \A s \in DOMAIN q.blocks : s \in DOMAIN blocks /\ q.blocks[s] = blocks[s]
  <2>1. QueueOK(Q) /\ Q.blocks = blocks
    BY Zenon DEF IInv, Q
  <2>2. q = erase_blocks(Q, S)
    BY Zenon DEF flush_stale_spans
  <2> HIDE DEF q, S
  <2> QED
    BY <2>1, <2>2, Erase
<1> HIDE DEF q
<1>3. /\ QueueOK(r.q)
      /\ \A s \in DOMAIN r.q.blocks :
           \/ s \in DOMAIN q.blocks /\ r.q.blocks[s] = q.blocks[s]
           \/ s = r.start /\ r.q.blocks[s].conn = c /\ r.q.blocks[s].hashes = r.hashes
  BY <1>1, <1>2, Reserve
<1>3a. r.start \in Nat
  <2>1. Len(chain_of[c]) \in Nat /\ lo \in Nat
    BY QueueAssumption DEF IInv
  <2>2. Needed(c, lo, q) \subseteq Nat
    BY <2>1 DEF Needed
  <2>3. Min(Needed(c, lo, q)) \in Nat
    BY <1>1, <2>2, MinIsIn, Zenon
  <2> DEFINE first == Min(Needed(c, lo, q))
             free == { i \in first .. Len(chain_of[c]) : chain_of[c][i] \notin q.requested }
  <2>4. free # {} /\ r.start = Min(free)
    BY <1>1, Zenon DEF reserve_span
  <2>5. free \subseteq Nat
    BY <2>1, <2>3
  <2> HIDE DEF free, r
  <2> QED
    BY <2>4, <2>5, MinIsIn, Zenon
<1> HIDE DEF r
<1>4. blocks' = r.q.blocks /\ QueueOK(Q')
  BY <1>1, <1>3, QueueBecomes, Zenon
<1>5. v # Nothing /\ AskedOK(v) /\ v.start = r.start
  BY <1>1, <1>3a, Zenon DEF Nothing, AskedOK
<1> HIDE DEF v
<1>6. /\ asked' = [d \in Conns |-> asked'[d]]
      /\ \A d \in Conns : asked'[d] = IF d = c THEN v ELSE asked[d]
      /\ \A d \in Conns : AskedOK(asked'[d])
  BY <1>1, <1>5, AskedChanges, Zenon
<1>7. ASSUME NEW s \in DOMAIN blocks' PROVE Awaited(blocks', s, live', asked')
  <2>1. CASE s \in DOMAIN q.blocks /\ r.q.blocks[s] = q.blocks[s]
    <3>1. blocks'[s] = blocks[s] /\ Awaited(blocks, s, live, asked) /\ live \subseteq Conns
      BY <2>1, <1>2, <1>4, Zenon DEF IInv
    <3> QED
      BY <3>1, <1>1, <1>6, Zenon DEF Awaited
  <2>2. CASE s = r.start /\ r.q.blocks[s].conn = c /\ r.q.blocks[s].hashes = r.hashes
    BY <2>2, <1>1, <1>4, <1>5, <1>6, Zenon DEF Awaited
  <2> QED
    BY <2>1, <2>2, <1>3, <1>4, Zenon
<1>8. DOMAIN blocks' \subseteq Nat
  BY <1>2, <1>3, <1>3a, <1>4, Zenon DEF IInv
<1> QED
  BY <1>1, <1>4, <1>6, <1>7, <1>8, Zenon DEF IInv

LEMMA RequestNextKeeps == ASSUME IInv, NEW c \in Conns, RequestNext(c) PROVE IInv'
<1> DEFINE S == { s \in DOMAIN Q.blocks : ~ Filled(Q.blocks[s]) /\ Q.blocks[s].conn \notin live }
           q == erase_blocks(Q, S)
           f == first_span(q)
           v == [start |-> f, hashes |-> q.blocks[f].hashes]
<1>1. /\ c \in live /\ asked[c] = Nothing
      /\ QueueIs(q)
      /\ DOMAIN q.blocks # {} /\ ~ Filled(q.blocks[f])
      /\ asked' = [asked EXCEPT ![c] = v]
      /\ live' = live /\ chain_of' = chain_of
  BY Zenon DEF RequestNext, flush_stale_spans, setting
<1> HIDE DEF S
<1>2. /\ QueueOK(Q')
      /\ blocks' = q.blocks
      /\ DOMAIN blocks' = DOMAIN blocks \ S
      /\ \A s \in DOMAIN blocks' : blocks'[s] = blocks[s]
  BY <1>1, Erased, Zenon
<1>3. DOMAIN blocks' \subseteq Nat
  BY <1>2, Zenon DEF IInv
<1>4. f \in DOMAIN blocks' /\ f \in Nat
  <2> HIDE DEF q
  <2> QED
    BY <1>1, <1>2, <1>3, MinIsIn, Zenon DEF first_span
<1>5. AskedOK(v)
  <2>1. ~ Filled(blocks[f]) /\ Awaited(blocks, f, live, asked) /\ q.blocks[f] = blocks[f]
    BY <1>1, <1>2, <1>4, Zenon DEF IInv
  <2> HIDE DEF f, q
  <2> QED
    BY <2>1, <1>4, Zenon DEF Awaited, AskedOK
<1> HIDE DEF v, q
<1>6. /\ asked' = [d \in Conns |-> asked'[d]]
      /\ \A d \in Conns : asked'[d] = IF d = c THEN v ELSE asked[d]
      /\ \A d \in Conns : AskedOK(asked'[d])
  BY <1>1, <1>5, AskedChanges, Zenon
<1>7. ASSUME NEW s \in DOMAIN blocks' PROVE Awaited(blocks', s, live', asked')
  <2>1. blocks'[s] = blocks[s] /\ Awaited(blocks, s, live, asked) /\ live \subseteq Conns
    BY <1>2, Zenon DEF IInv
  <2> QED
    BY <2>1, <1>1, <1>6, Zenon DEF Awaited
<1> QED
  BY <1>1, <1>2, <1>3, <1>6, <1>7, Zenon DEF IInv

LEMMA ResponseKeeps == ASSUME IInv, NEW c \in Conns, Response(c) PROVE IInv'
<1> DEFINE start == asked[c].start
           bcel == asked[c].hashes
           r == add_filled(Q, start, bcel, c)
<1>1. /\ asked[c] # Nothing
      /\ QueueIs(r)
      /\ asked' = [asked EXCEPT ![c] = Nothing]
      /\ live' = live /\ chain_of' = chain_of
  BY Zenon DEF Response, CanAnswer, setting
<1>2. QueueOK(Q) /\ Q.blocks = blocks /\ bcel # <<>> /\ start \in Nat
  BY <1>1, Zenon DEF IInv, Q, AskedOK
<1> HIDE DEF bcel, start
<1>3. /\ QueueOK(r)
      /\ \A s \in DOMAIN r.blocks \ {start} : s \in DOMAIN Q.blocks /\ r.blocks[s] = Q.blocks[s]
      /\ Filled(r.blocks[start])
  BY <1>2, AddFilled, Zenon
<1> HIDE DEF r
<1>4. blocks' = r.blocks /\ QueueOK(Q')
  BY <1>1, <1>3, QueueBecomes, Zenon
<1>5. AskedOK(Nothing)
  BY Zenon DEF AskedOK, Nothing
<1>6. /\ asked' = [d \in Conns |-> asked'[d]]
      /\ \A d \in Conns : asked'[d] = IF d = c THEN Nothing ELSE asked[d]
      /\ \A d \in Conns : AskedOK(asked'[d])
  BY <1>1, <1>5, AskedChanges, Zenon
<1>7. ASSUME NEW s \in DOMAIN blocks' PROVE Awaited(blocks', s, live', asked')
  <2>1. CASE s = start
    BY <2>1, <1>3, <1>4, Zenon DEF Awaited
  <2>2. CASE s # start
    <3>1. blocks'[s] = blocks[s] /\ Awaited(blocks, s, live, asked) /\ live \subseteq Conns
      BY <2>2, <1>2, <1>3, <1>4, Zenon DEF IInv
    <3> QED
      BY <3>1, <2>2, <1>1, <1>6, Zenon DEF Awaited, start
  <2> QED
    BY <2>1, <2>2, Zenon
<1>8. DOMAIN blocks' \subseteq Nat
  BY <1>2, <1>3, <1>4, Zenon DEF IInv
<1> QED
  BY <1>1, <1>4, <1>6, <1>7, <1>8 DEF IInv

\* q is the queue with fewer spans.
Fewer(q) == QueueOK(q) /\ \A s \in DOMAIN q.blocks : s \in DOMAIN blocks /\ q.blocks[s] = blocks[s]

LEMMA FewerErased == ASSUME NEW q, NEW S, Fewer(q) PROVE Fewer(erase_blocks(q, S))
  BY Erase DEF Fewer

LEMMA FewerQueue == ASSUME IInv PROVE Fewer(Q)
  BY Zenon DEF Fewer, IInv, Q

\* Spans go, and the connections stay as they are.
LEMMA FewerKeeps ==
  ASSUME IInv, NEW q, Fewer(q), QueueIs(q), UNCHANGED <<chain_of, live, asked>>
  PROVE  IInv'
<1>1. blocks' = q.blocks /\ QueueOK(Q')
  BY QueueBecomes, Zenon DEF Fewer
<1>2. \A s \in DOMAIN blocks' : s \in DOMAIN blocks /\ blocks'[s] = blocks[s]
  BY <1>1, Zenon DEF Fewer
<1> QED
  BY <1>1, <1>2, Zenon DEF IInv, Awaited

\* A connection goes, with every span it is still to bring.
LEMMA LostKeeps ==
  ASSUME IInv, NEW c, NEW q, Fewer(q), QueueIs(q),
         \A s \in DOMAIN q.blocks : ~ Filled(q.blocks[s]) => q.blocks[s].conn # c,
         chain_of' = chain_of, live' = live \ {c}, asked' = [asked EXCEPT ![c] = Nothing]
  PROVE  IInv'
<1>1. blocks' = q.blocks /\ QueueOK(Q')
  BY QueueBecomes, Zenon DEF Fewer
<1>2. \A s \in DOMAIN blocks' : s \in DOMAIN blocks /\ blocks'[s] = blocks[s]
  BY <1>1, Zenon DEF Fewer
<1>3. AskedOK(Nothing)
  BY Zenon DEF AskedOK, Nothing
<1>4. /\ asked' = [d \in Conns |-> asked'[d]]
      /\ \A d \in Conns : asked'[d] = IF d = c THEN Nothing ELSE asked[d]
      /\ \A d \in Conns : AskedOK(asked'[d])
  BY <1>3, AskedChanges, Zenon
<1>5. ASSUME NEW s \in DOMAIN blocks' PROVE Awaited(blocks', s, live', asked')
  <2>1. Awaited(blocks, s, live, asked) /\ live \subseteq Conns /\ (~ Filled(blocks[s]) => blocks[s].conn # c)
    BY <1>1, <1>2, Zenon DEF IInv
  <2> QED
    BY <2>1, <1>2, <1>4, Zenon DEF Awaited
<1>6. DOMAIN blocks' \subseteq Nat /\ live' \subseteq Conns /\ chain_of' \in Networks
  BY <1>2, Zenon DEF IInv
<1> QED
  BY <1>1, <1>4, <1>5, <1>6, Zenon DEF IInv

LEMMA DropKeeps == ASSUME IInv, NEW c \in Conns, Drop(c) PROVE IInv'
<1> DEFINE S == { s \in DOMAIN Q.blocks : Q.blocks[s].conn = c /\ (FALSE \/ ~ Filled(Q.blocks[s])) }
           q == erase_blocks(Q, S)
<1>1. /\ QueueIs(q)
      /\ chain_of' = chain_of /\ live' = live \ {c} /\ asked' = [asked EXCEPT ![c] = Nothing]
  BY Zenon DEF Drop, flush_spans, setting
<1>2. Fewer(q)
  BY FewerQueue, FewerErased, Zenon
<1>3. \A s \in DOMAIN q.blocks : ~ Filled(q.blocks[s]) => q.blocks[s].conn # c
  <2>1. DOMAIN q.blocks = DOMAIN Q.blocks \ S /\ \A s \in DOMAIN q.blocks : q.blocks[s] = Q.blocks[s]
    <3> HIDE DEF S
    <3> QED
      BY FewerQueue, Erase, Zenon DEF Fewer
  <2> HIDE DEF q
  <2> QED
    BY <2>1, Zenon
<1> HIDE DEF q
<1> QED
  BY <1>1, <1>2, <1>3, LostKeeps, Zenon

\* OldSpan and Orphan.
LEMMA RemoveKeeps ==
  ASSUME IInv, NEW c, NEW start, QueueIs(remove_spans(Q, c, start)), UNCHANGED <<chain_of, live, asked>>
  PROVE  IInv'
<1>1. Fewer(remove_spans(Q, c, start))
  BY FewerQueue, FewerErased, Zenon DEF remove_spans
<1> QED
  BY <1>1, FewerKeeps, Zenon

LEMMA FinishAddingKeeps == ASSUME IInv, FinishAdding PROVE IInv'
<1> DEFINE c == adding.span.conn
           bad == { i \in DOMAIN adding.span.blocks : adding.span.blocks[i] \in Bad }
           S == { s \in DOMAIN Q.blocks : Q.blocks[s].conn = c /\ (TRUE \/ ~ Filled(Q.blocks[s])) }
           q == IF bad # {} /\ c \in live THEN erase_blocks(Q, S) ELSE Q
           T == { s \in DOMAIN q.blocks : q.blocks[s].conn = c /\ s <= adding.start }
           r == erase_blocks(q, T)
<1>1. /\ QueueIs(r)
      /\ IF bad = {} THEN UNCHANGED <<live, asked>>
         ELSE live' = live \ {c} /\ asked' = [asked EXCEPT ![c] = Nothing]
      /\ chain_of' = chain_of
  BY Zenon DEF FinishAdding, flush_spans, remove_spans, setting
<1> HIDE DEF c, bad, T
<1>2. Fewer(q)
  <2> HIDE DEF S
  <2> QED
    BY FewerQueue, FewerErased, Zenon
<1>3. bad # {} => \A s \in DOMAIN q.blocks : ~ Filled(q.blocks[s]) => q.blocks[s].conn # c
  <2>1. CASE bad # {} /\ c \in live
    <3>1. /\ DOMAIN q.blocks = DOMAIN Q.blocks \ S
          /\ \A s \in DOMAIN q.blocks : q.blocks[s] = Q.blocks[s]
      <4>1. q = erase_blocks(Q, S)
        BY <2>1, Zenon
      <4> HIDE DEF S, q
      <4> QED
        BY <4>1, FewerQueue, Erase DEF Fewer
    <3> HIDE DEF q
    <3> QED
      BY <3>1, Zenon
  <2>2. CASE c \notin live
    <3>1. q.blocks = blocks
      BY <2>2, Zenon DEF Q
    <3> HIDE DEF q
    <3> QED
      BY <3>1, <2>2, Zenon DEF IInv, Awaited
  <2> QED
    BY <2>1, <2>2, Zenon
<1> HIDE DEF q
<1>4. /\ Fewer(r)
      /\ \A s \in DOMAIN r.blocks : s \in DOMAIN q.blocks /\ r.blocks[s] = q.blocks[s]
  BY <1>2, FewerErased, Erase DEF Fewer
<1> HIDE DEF r
<1>5. CASE bad = {}
  BY <1>1, <1>4, <1>5, FewerKeeps, Zenon
<1>6. CASE bad # {}
  <2>1. \A s \in DOMAIN r.blocks : ~ Filled(r.blocks[s]) => r.blocks[s].conn # c
    BY <1>3, <1>4, <1>6, Zenon
  <2> QED
    BY <1>1, <1>4, <1>6, <2>1, LostKeeps, Zenon
<1> QED
  BY <1>5, <1>6, Zenon

LEMMA InitHolds == Init => IInv
<1> SUFFICES ASSUME Init PROVE IInv
  BY Zenon
<1>1. Q = [blocks |-> <<>>, requested |-> {}, have |-> <<>>] /\ DOMAIN blocks = {}
  BY DEF Init, Q
<1>2. QueueOK(Q)
  BY <1>1 DEF QueueOK
<1>3. AskedOK(Nothing)
  BY Zenon DEF AskedOK, Nothing
<1> QED
  BY <1>1, <1>2, <1>3, Zenon DEF Init, IInv

LEMMA StepHolds == IInv /\ [Next]_vars => IInv'
<1> SUFFICES ASSUME IInv, [Next]_vars PROVE IInv'
  BY Zenon
<1>1. ASSUME NEW c \in Conns, NEW lo \in DOMAIN chain_of[c], Request(c, lo) PROVE IInv'
  BY <1>1, RequestKeeps, Zenon
<1>2. ASSUME NEW c \in Conns, RequestNext(c) PROVE IInv'
  BY <1>2, RequestNextKeeps, Zenon
<1>3. ASSUME NEW c \in Conns, Response(c) PROVE IInv'
  BY <1>3, ResponseKeeps, Zenon
<1>4. ASSUME NEW c \in Conns, Drop(c) PROVE IInv'
  BY <1>4, DropKeeps, Zenon
<1>5. CASE OldSpan
  BY <1>5, RemoveKeeps, Zenon DEF OldSpan, setting
<1>6. CASE StartAdding
  BY <1>6, Zenon DEF StartAdding, setting, queue, IInv, Q, Awaited
<1>7. CASE Orphan
  BY <1>7, RemoveKeeps, Zenon DEF Orphan, setting
<1>8. CASE FinishAdding
  BY <1>8, FinishAddingKeeps, Zenon
<1>9. CASE UNCHANGED vars
  BY <1>9, Zenon DEF vars, IInv, Q, Awaited
<1> QED
  BY <1>1, <1>2, <1>3, <1>4, <1>5, <1>6, <1>7, <1>8, <1>9, SMTT(30) DEF Next, Adding

----------------------------------------------------------------------------
\* In every run of the queue, a hash that is marked as requested is one that a span stands for
\* (erase_block and set_span_hashes of block_queue): no block is lost to the download for good.
THEOREM RequestedAlwaysHasSpan == Spec => []RequestedHasSpan
<1>1. IInv => RequestedHasSpan
  BY Zenon DEF IInv, QueueOK, Covered, Q, RequestedHasSpan
<1> QED
  BY InitHolds, StepHolds, <1>1, PTL DEF Spec

\* In every run, the connection a scheduled span is reserved for is open and waits for an answer about
\* that span: reserve_span, add_blocks and the flushes leave no span that nobody is to bring.
THEOREM ScheduledAlwaysAsked == Spec => []ScheduledIsAsked
<1>1. IInv => ScheduledIsAsked
  BY Zenon DEF IInv, Awaited, ScheduledIsAsked
<1> QED
  BY InitHolds, StepHolds, <1>1, PTL DEF Spec

----------------------------------------------------------------------------
(* What was downloaded, while the peers are on one chain ch.  The hashes of a request then depend   *)
(* on its height alone, so a span filled for another connection's request holds what it stands for. *)

SpanAt(ch, n, s) == SubSeq(ch, s, Min({Len(ch), s + n - 1}))

Slice(ch, n, s, seq) == seq = <<>> \/ seq = SpanAt(ch, n, s)

SpanOK(ch, n, s, sp) == s \in DOMAIN ch /\ Slice(ch, n, s, sp.hashes) /\ Slice(ch, n, s, sp.blocks)

\* A filled span stands for h.
Brought(q, h) == \E s \in DOMAIN q.blocks : Filled(q.blocks[s]) /\ h \in ToSet(q.blocks[s].hashes)

HaveOK(ch, n, q) ==
  /\ \A s \in DOMAIN q.blocks : SpanOK(ch, n, s, q.blocks[s])
  /\ \A h \in DOMAIN q.have : /\ Brought(q, h)
                              /\ q.have[h] \in DOMAIN ch /\ ch[q.have[h]] = h

WaitOK(ch, n, v) == v # Nothing => v.start \in DOMAIN ch /\ v.hashes = SpanAt(ch, n, v.start)

\* Without connections nothing is ever downloaded.
PeerChains == IF Conns = {} THEN {<<>>} ELSE { chain_of[c] : c \in Conns }

\* The inductive invariant, beside IInv.
HaveInv ==
  /\ max_blocks \in Sizes
  /\ OneChain => \A ch \in PeerChains : /\ HaveOK(ch, max_blocks, Q)
                                        /\ \A d \in Conns : WaitOK(ch, max_blocks, asked[d])

LEMMA MinIsLeast == ASSUME NEW T, T \subseteq Nat, T # {} PROVE \A y \in T : Min(T) <= y
<1>1. PICK x \in T : \A y \in T : ~ (<<y, x>> \in OpToRel(<, Nat))
  BY NatLessThanWellFounded, WFMin, Zenon
<1>2. \A y \in T : x <= y
  <2> SUFFICES ASSUME NEW y \in T, ~ (x <= y) PROVE FALSE
    BY Zenon
  <2>1. y < x /\ y \in Nat /\ x \in Nat
    OBVIOUS
  <2>2. <<y, x>> \in OpToRel(<, Nat)
    BY <2>1, Zenon DEF OpToRel
  <2> QED
    BY <1>1, <2>2, Zenon
<1> QED
  BY <1>2, Zenon DEF Min

LEMMA EraseHave ==
  ASSUME NEW ch, NEW n, NEW q, NEW S, HaveOK(ch, n, q)
  PROVE  HaveOK(ch, n, erase_blocks(q, S))
<1> DEFINE gone == UNION { ToSet(q.blocks[s].hashes) : s \in S }
           e == erase_blocks(q, S)
<1>1. e.blocks = Without(q.blocks, S) /\ e.have = Without(q.have, gone)
  BY Zenon DEF erase_blocks
<1>2. /\ DOMAIN e.blocks = DOMAIN q.blocks \ S
      /\ \A s \in DOMAIN e.blocks : e.blocks[s] = q.blocks[s]
      /\ DOMAIN e.have = DOMAIN q.have \ gone
      /\ \A h \in DOMAIN e.have : e.have[h] = q.have[h]
  BY <1>1, Zenon DEF Without
<1>3. ASSUME NEW h \in DOMAIN e.have PROVE Brought(e, h)
  <2>1. PICK s \in DOMAIN q.blocks : Filled(q.blocks[s]) /\ h \in ToSet(q.blocks[s].hashes)
    BY <1>2, Zenon DEF HaveOK, Brought
  <2>2. s \notin S
    BY <1>2, <2>1, Zenon
  <2> QED
    BY <1>2, <2>1, <2>2, Zenon DEF Brought
<1>4. HaveOK(ch, n, e)
  <2> HIDE DEF e
  <2> QED
    BY <1>2, <1>3, Zenon DEF HaveOK
<1> QED
  BY <1>4, Zenon

\* As HaveOK, but some of the hashes may still have to be given to the filled span at start.
HaveBut(ch, n, q, start, hashes) ==
  /\ \A s \in DOMAIN q.blocks : SpanOK(ch, n, s, q.blocks[s])
  /\ \A h \in DOMAIN q.have : /\ Brought(q, h) \/ (Filled(q.blocks[start]) /\ h \in ToSet(hashes))
                              /\ q.have[h] \in DOMAIN ch /\ ch[q.have[h]] = h

LEMMA SetHashesHave ==
  ASSUME NEW ch, NEW n, NEW q, NEW start, NEW c, NEW hashes, Lacks(q, start, c, hashes),
         HaveBut(ch, n, q, start, hashes), Slice(ch, n, start, hashes)
  PROVE  HaveOK(ch, n, set_span_hashes(q, start, c, hashes))
<1> DEFINE gone == UNION { ToSet(q.blocks[s].hashes) : s \in {start} }
           e == erase_blocks(q, {start})
           sp == [q.blocks[start] EXCEPT !.hashes = hashes]
           r == set_span_hashes(q, start, c, hashes)
<1>1. e = [blocks |-> Without(q.blocks, {start}), requested |-> q.requested \ gone, have |-> Without(q.have, gone)]
  BY Zenon DEF erase_blocks
<1>2. r = [blocks    |-> Put(Without(q.blocks, {start}), start, sp),
           requested |-> (q.requested \ gone) \cup ToSet(hashes),
           have      |-> Without(q.have, gone)]
  <2>1. r = [e EXCEPT !.requested = @ \cup ToSet(hashes), !.blocks = Put(@, start, sp)]
    BY Zenon DEF set_span_hashes, Lacks
  <2> HIDE DEF e, sp, r, gone
  <2> QED
    BY <2>1, <1>1, Zenon
<1>3. /\ DOMAIN r.blocks = DOMAIN q.blocks
      /\ \A s \in DOMAIN q.blocks \ {start} : r.blocks[s] = q.blocks[s]
      /\ r.blocks[start] = sp
      /\ DOMAIN r.have = DOMAIN q.have \ gone
      /\ \A h \in DOMAIN r.have : r.have[h] = q.have[h]
  <2> HIDE DEF sp, r, gone
  <2> QED
    BY <1>2, Zenon DEF Put, Without, Lacks
<1>4. sp.hashes = hashes /\ sp.blocks = q.blocks[start].blocks
  <2>1. IsSpan(q.blocks[start])
    BY Zenon DEF Lacks
  <2> QED
    BY <2>1, Zenon DEF IsSpan, Span
<1>5. start \in DOMAIN q.blocks
  BY Zenon DEF Lacks
<1>6. ASSUME NEW h \in DOMAIN r.have PROVE Brought(r, h)
  <2>1. CASE Filled(q.blocks[start]) /\ h \in ToSet(hashes)
    <3> HIDE DEF sp, r
    <3> QED
      BY <2>1, <1>3, <1>4, <1>5, Zenon DEF Brought, Filled
  <2>2. CASE Brought(q, h)
    <3>1. PICK s \in DOMAIN q.blocks : Filled(q.blocks[s]) /\ h \in ToSet(q.blocks[s].hashes)
      BY <2>2, Zenon DEF Brought
    <3>2. s # start
      BY <1>3, <3>1, Zenon
    <3> HIDE DEF sp, r
    <3> QED
      BY <1>3, <3>1, <3>2, Zenon DEF Brought
  <2> QED
    BY <1>3, <2>1, <2>2, Zenon DEF HaveBut
<1>7. \A s \in DOMAIN r.blocks : SpanOK(ch, n, s, r.blocks[s])
  <2> HIDE DEF sp, r
  <2> QED
    BY <1>3, <1>4, <1>5, Zenon DEF HaveBut, SpanOK
<1>8. \A h \in DOMAIN r.have : r.have[h] \in DOMAIN ch /\ ch[r.have[h]] = h
  <2> HIDE DEF r, gone
  <2> QED
    BY <1>3, Zenon DEF HaveBut
<1> QED
  BY <1>6, <1>7, <1>8, Zenon DEF HaveOK

LEMMA SliceRange ==
  ASSUME NEW s \in Nat, NEW m \in Nat, NEW l \in Nat, NEW k, 1 <= s, m <= l,
         k = IF s <= m THEN m - s + 1 ELSE 0
  PROVE  \A i \in 1 .. k : i \in Nat /\ i \in 1 .. m - s + 1 /\ s + i - 1 \in 1 .. l
<1>1. CASE s <= m
  BY <1>1
<1>2. CASE ~ (s <= m)
  BY <1>2
<1> QED
  BY <1>1, <1>2, Zenon

\* The hashes of a request, one by one.
LEMMA SliceElements ==
  ASSUME NEW T, NEW ch \in Seq(T), NEW n \in Nat \ {0}, NEW s \in DOMAIN ch
  PROVE  /\ DOMAIN SpanAt(ch, n, s) \subseteq Nat
         /\ \A i \in DOMAIN SpanAt(ch, n, s) :
              s + i - 1 \in DOMAIN ch /\ ch[s + i - 1] = SpanAt(ch, n, s)[i]
<1> DEFINE m == Min({Len(ch), s + n - 1})
<1>1. /\ Len(ch) \in Nat /\ s \in Nat /\ 1 <= s /\ s <= Len(ch)
      /\ DOMAIN ch = 1 .. Len(ch)
  OBVIOUS
<1>2. m <= Len(ch) /\ m \in Nat
  <2>1. {Len(ch), s + n - 1} \subseteq Nat
    BY <1>1
  <2>2. m \in {Len(ch), s + n - 1}
    BY <2>1, MinIsIn, Zenon
  <2>3. \A y \in {Len(ch), s + n - 1} : m <= y
    BY <2>1, MinIsLeast, Zenon
  <2> HIDE DEF m
  <2> QED
    BY <1>1, <2>1, <2>2, <2>3, Zenon
<1> HIDE DEF m
<1>3. SpanAt(ch, n, s) = SubSeq(ch, s, m)
  BY Zenon DEF SpanAt, m
<1>4. /\ Len(SubSeq(ch, s, m)) = IF s <= m THEN m - s + 1 ELSE 0
      /\ \A i \in 1 .. m - s + 1 : SubSeq(ch, s, m)[i] = ch[s + i - 1]
      /\ SubSeq(ch, s, m) \in Seq(T)
  <2>1. \A i \in s .. m : ch[i] \in T
    BY <1>1, <1>2
  <2>2. s \in Int /\ m \in Int
    BY <1>1, <1>2, SMTT(30)
  <2> QED
    BY <2>1, <2>2, SubSeqProperties, SMTT(30)
<1>5. DOMAIN SubSeq(ch, s, m) = 1 .. Len(SubSeq(ch, s, m))
  BY <1>4
<1>6. \A i \in 1 .. Len(SubSeq(ch, s, m)) : i \in Nat /\ i \in 1 .. m - s + 1 /\ s + i - 1 \in 1 .. Len(ch)
  BY <1>1, <1>2, <1>4, SliceRange, Zenon
<1> QED
  BY <1>1, <1>3, <1>4, <1>5, <1>6, SMTT(30)

\* add_blocks of what was asked for: what the queue then has is in a filled span.
LEMMA AddFilledHave ==
  ASSUME NEW T, NEW ch \in Seq(T), NEW n \in Nat \ {0}, NEW q, NEW start \in DOMAIN ch, NEW c,
         QueueOK(q), HaveOK(ch, n, q), SpanAt(ch, n, start) # <<>>
  PROVE  HaveOK(ch, n, add_filled(q, start, SpanAt(ch, n, start), c))
<1> DEFINE bcel == SpanAt(ch, n, start)
           new == Span(c, <<>>, bcel, Len(bcel))
           r == add_filled(q, start, bcel, c)
<1>1. Filled(new) /\ SpanOK(ch, n, start, new) /\ new.hashes = <<>>
  BY Zenon DEF Filled, SpanOK, Slice, Span
<1>2. CASE start \notin DOMAIN q.blocks
  <2> DEFINE f == [blocks |-> Put(q.blocks, start, new), requested |-> q.requested, have |-> q.have]
  <2>1. r = f
    BY <1>2, Zenon DEF add_filled, QueueOK
  <2>2. /\ DOMAIN f.blocks = DOMAIN q.blocks \cup {start}
        /\ \A s \in DOMAIN q.blocks : f.blocks[s] = q.blocks[s]
        /\ f.blocks[start] = new
        /\ f.have = q.have
    BY <1>2, Zenon DEF Put
  <2> HIDE DEF f, new, r
  <2>3. HaveOK(ch, n, f)
    BY <1>1, <2>2, Zenon DEF HaveOK, Brought
  <2> QED
    BY <2>1, <2>3, Zenon DEF r
<1>3. CASE start \in DOMAIN q.blocks
  <2> DEFINE hashes == q.blocks[start].hashes
             e == erase_blocks(q, {start})
  <2>1. PICK g : Replaced(q, start, bcel, c, g) /\ r = set_span_hashes(g, start, c, hashes)
    BY <1>3, AddReplaces, Zenon
  <2>2. Slice(ch, n, start, hashes)
    BY <1>3, Zenon DEF HaveOK, SpanOK
  <2>3. /\ DOMAIN e.blocks = DOMAIN q.blocks \ {start}
        /\ \A s \in DOMAIN e.blocks : e.blocks[s] = q.blocks[s]
        /\ HaveOK(ch, n, e)
    BY Erase, EraseHave, Zenon
  <2> HIDE DEF hashes, e, bcel, r, new
  <2>4. /\ Lacks(g, start, c, hashes)
        /\ DOMAIN g.blocks = DOMAIN q.blocks
        /\ \A s \in DOMAIN q.blocks \ {start} : g.blocks[s] = q.blocks[s]
        /\ g.blocks[start] = new
        /\ g.have = HaveWith(e.have, start, hashes)
    BY <2>1, Zenon DEF Replaced, hashes, e, new
  <2>5. /\ DOMAIN g.have = DOMAIN e.have \cup ToSet(hashes)
        /\ \A h \in DOMAIN e.have : g.have[h] = e.have[h]
        /\ \A h \in ToSet(hashes) \ DOMAIN e.have :
             g.have[h] = start + (CHOOSE i \in DOMAIN hashes : hashes[i] = h) - 1
    BY <2>4, Zenon DEF HaveWith
  <2>6. ASSUME NEW h \in DOMAIN g.have
        PROVE  Brought(g, h) \/ (Filled(g.blocks[start]) /\ h \in ToSet(hashes))
    <3>1. CASE h \in DOMAIN e.have
      <4>1. PICK s \in DOMAIN e.blocks : Filled(e.blocks[s]) /\ h \in ToSet(e.blocks[s].hashes)
        BY <2>3, <3>1, Zenon DEF HaveOK, Brought
      <4>2. s \in DOMAIN g.blocks /\ g.blocks[s] = e.blocks[s]
        BY <2>3, <2>4, <4>1, Zenon
      <4> QED
        BY <4>1, <4>2, Zenon DEF Brought
    <3>2. CASE h \in ToSet(hashes)
      BY <1>1, <2>4, <3>2, Zenon
    <3> QED
      BY <2>5, <3>1, <3>2, Zenon
  <2>7. ASSUME NEW h \in DOMAIN g.have PROVE g.have[h] \in DOMAIN ch /\ ch[g.have[h]] = h
    <3>1. CASE h \in DOMAIN e.have
      BY <2>3, <2>5, <3>1, Zenon DEF HaveOK
    <3>2. CASE h \in ToSet(hashes) \ DOMAIN e.have
      <4> DEFINE i == CHOOSE i \in DOMAIN hashes : hashes[i] = h
      <4>1. i \in DOMAIN hashes /\ hashes[i] = h
        BY <3>2, Zenon DEF ToSet
      <4> HIDE DEF i
      <4>2. hashes = SpanAt(ch, n, start)
        <5>1. hashes # <<>>
          BY <4>1
        <5> QED
          BY <2>2, <5>1, Zenon DEF Slice
      <4>3. start + i - 1 \in DOMAIN ch /\ ch[start + i - 1] = hashes[i]
        BY <4>1, <4>2, SliceElements, ZenonT(30)
      <4>4. g.have[h] = start + i - 1
        BY <2>5, <3>2, Zenon DEF i
      <4> QED
        BY <4>1, <4>3, <4>4, Zenon
    <3> QED
      BY <2>5, <3>1, <3>2, Zenon
  <2>8. \A s \in DOMAIN g.blocks : SpanOK(ch, n, s, g.blocks[s])
    BY <1>1, <2>4, Zenon DEF HaveOK
  <2>9. HaveBut(ch, n, g, start, hashes)
    BY <2>6, <2>7, <2>8, Zenon DEF HaveBut
  <2>10. HaveOK(ch, n, r)
    BY <2>1, <2>2, <2>4, <2>9, SetHashesHave, Zenon
  <2> QED
    BY <2>10, Zenon DEF r, bcel
<1> QED
  BY <1>2, <1>3, Zenon

\* reserve_span up to the end of the chain.
LEMMA ReserveHave ==
  ASSUME NEW c, NEW first, NEW q, QueueOK(q), HaveOK(chain_of[c], max_blocks, q),
         reserve_span(q, c, first, Len(chain_of[c])).hashes # <<>>,
         reserve_span(q, c, first, Len(chain_of[c])).start \in DOMAIN chain_of[c]
  PROVE  LET r == reserve_span(q, c, first, Len(chain_of[c])) IN
         /\ HaveOK(chain_of[c], max_blocks, r.q)
         /\ r.hashes = SpanAt(chain_of[c], max_blocks, r.start)
<1> DEFINE ch == chain_of[c]
           r == reserve_span(q, c, first, Len(ch))
           a == add_scheduled(q, r.start, Len(r.hashes), c)
           new == Span(c, <<>>, <<>>, Len(r.hashes))
<1>1. /\ r.q = set_span_hashes(a, r.start, c, r.hashes)
      /\ r.hashes = SpanAt(ch, max_blocks, r.start)
  BY Zenon DEF reserve_span, SpanAt
<1>2. r.start \in DOMAIN ch
  BY Zenon
<1> HIDE DEF r, ch
<1>3. /\ HaveOK(ch, max_blocks, a) /\ QueueOK(a)
      /\ r.start \in DOMAIN a.blocks
  <2>1. CASE r.start \in DOMAIN q.blocks
    BY <2>1, Zenon DEF add_scheduled, ch
  <2>2. CASE r.start \notin DOMAIN q.blocks
    <3>1. a = [blocks |-> Put(q.blocks, r.start, new), requested |-> q.requested, have |-> q.have]
      BY <2>2, Zenon DEF add_scheduled, QueueOK
    <3>2. IsSpan(new) /\ SpanOK(ch, max_blocks, r.start, new)
      BY <1>2, Zenon DEF IsSpan, Span, SpanOK, Slice
    <3> HIDE DEF a, new
    <3>3. /\ DOMAIN a.blocks = DOMAIN q.blocks \cup {r.start}
          /\ \A s \in DOMAIN q.blocks : a.blocks[s] = q.blocks[s]
          /\ a.blocks[r.start] = new
          /\ a.requested = q.requested
          /\ a.have = q.have
          /\ a = [blocks |-> a.blocks, requested |-> a.requested, have |-> a.have]
      BY <3>1, <2>2, Zenon DEF Put
    <3>4. QueueOK(a)
      BY <3>2, <3>3, Zenon DEF QueueOK, Covered
    <3>5. HaveOK(ch, max_blocks, a)
      BY <3>2, <3>3, Zenon DEF HaveOK, Brought, ch
    <3> QED
      BY <3>3, <3>4, <3>5, Zenon
  <2> QED
    BY <2>1, <2>2, Zenon
<1> HIDE DEF a
<1>4. CASE a.blocks[r.start].conn = c
  <2>1. Lacks(a, r.start, c, r.hashes)
    BY <1>3, <1>4, Zenon DEF QueueOK, Lacks
  <2>2. HaveBut(ch, max_blocks, a, r.start, r.hashes)
    BY <1>3, Zenon DEF HaveOK, HaveBut
  <2>3. Slice(ch, max_blocks, r.start, r.hashes)
    BY <1>1, Zenon DEF Slice
  <2> QED
    BY <1>1, <2>1, <2>2, <2>3, SetHashesHave, SMTT(30) DEF ch, r
<1>5. CASE a.blocks[r.start].conn # c
  <2>1. r.q = a
    BY <1>1, <1>5, Zenon DEF set_span_hashes
  <2> QED
    BY <1>1, <1>3, <2>1, Zenon DEF ch, r
<1> QED
  BY <1>4, <1>5, Zenon

----------------------------------------------------------------------------
(* HaveInv is inductive. *)

\* What a step has to show, when the setting stays.
LEMMA HaveStep ==
  ASSUME HaveInv, UNCHANGED setting,
         ASSUME OneChain, NEW ch \in PeerChains
         PROVE  /\ HaveOK(ch, max_blocks, Q')
                /\ \A d \in Conns : WaitOK(ch, max_blocks, asked'[d])
  PROVE  HaveInv'
<1>1. /\ max_blocks' \in Sizes /\ max_blocks' = max_blocks /\ (OneChain' <=> OneChain)
      /\ PeerChains' = PeerChains
  BY Zenon DEF HaveInv, setting, OneChain, PeerChains
<1>2. ASSUME OneChain', NEW ch \in PeerChains'
      PROVE  /\ HaveOK(ch, max_blocks', Q')
             /\ \A d \in Conns : WaitOK(ch, max_blocks', asked'[d])
  BY <1>1, <1>2, Zenon
<1> QED
  BY <1>1, <1>2, Zenon DEF HaveInv

\* The same for a step of a connection.
LEMMA HaveConnStep ==
  ASSUME HaveInv, UNCHANGED setting, NEW c \in Conns,
         ASSUME OneChain, NEW d \in Conns
         PROVE  /\ HaveOK(chain_of[d], max_blocks, Q')
                /\ \A x \in Conns : WaitOK(chain_of[d], max_blocks, asked'[x])
  PROVE  HaveInv'
<1>1. ASSUME NEW ch \in PeerChains PROVE \E d \in Conns : ch = chain_of[d]
  BY Zenon DEF PeerChains
<1> QED
  BY <1>1, HaveStep, Zenon

\* What HaveInv says of the chain of a connection.
LEMMA HaveConn ==
  ASSUME HaveInv, OneChain, NEW d \in Conns
  PROVE  /\ HaveOK(chain_of[d], max_blocks, Q)
         /\ \A x \in Conns : WaitOK(chain_of[d], max_blocks, asked[x])
<1>1. chain_of[d] \in PeerChains
  BY Zenon DEF PeerChains
<1> QED
  BY <1>1, Zenon DEF HaveInv

LEMMA NothingWaits == ASSUME NEW ch, NEW n PROVE WaitOK(ch, n, Nothing)
BY Zenon DEF WaitOK

\* Fewer spans.
LEMMA FewerHave ==
  ASSUME IInv, HaveInv, UNCHANGED setting, NEW q, QueueIs(q), QueueOK(q),
         \A ch, n : HaveOK(ch, n, Q) => HaveOK(ch, n, q),
         \A d \in Conns : asked'[d] = asked[d] \/ asked'[d] = Nothing
  PROVE  HaveInv'
<1>1. Q' = q
  BY QueueBecomes, Zenon
<1> QED
  BY <1>1, HaveStep, NothingWaits, Zenon DEF HaveInv

LEMMA SameAsked ==
  ASSUME IInv, NEW c, asked' = [asked EXCEPT ![c] = Nothing]
  PROVE  \A d \in Conns : asked'[d] = asked[d] \/ asked'[d] = Nothing
BY Zenon DEF IInv

LEMMA RequestHave ==
  ASSUME IInv, HaveInv, NEW c \in Conns, NEW lo \in DOMAIN chain_of[c], Request(c, lo)
  PROVE  HaveInv'
<1> DEFINE S == { s \in DOMAIN Q.blocks : ~ Filled(Q.blocks[s]) /\ Q.blocks[s].conn \notin live }
           q == flush_stale_spans(Q, live)
           first == Min(Needed(c, lo, q))
           r == reserve_span(q, c, first, Len(chain_of[c]))
           v == [start |-> r.start, hashes |-> r.hashes]
<1>1. /\ r.hashes # <<>>
      /\ QueueIs(r.q)
      /\ asked' = [asked EXCEPT ![c] = v]
      /\ UNCHANGED setting
      /\ Needed(c, lo, q) # {}
  BY Zenon DEF Request
<1>2. QueueOK(q) /\ \A ch, n : HaveOK(ch, n, Q) => HaveOK(ch, n, q)
  <2>1. QueueOK(Q)
    BY Zenon DEF IInv
  <2>2. q = erase_blocks(Q, S)
    BY Zenon DEF flush_stale_spans
  <2> HIDE DEF q, S
  <2> QED
    BY <2>1, <2>2, Erase, EraseHave, Zenon
<1> HIDE DEF q
<1>3. QueueOK(r.q)
  BY <1>1, <1>2, Reserve, Zenon
<1>4. r.start \in DOMAIN chain_of[c]
  <2>1. Len(chain_of[c]) \in Nat /\ lo \in Nat /\ lo >= 1 /\ DOMAIN chain_of[c] = 1 .. Len(chain_of[c])
    BY QueueAssumption DEF IInv
  <2>2. Needed(c, lo, q) \subseteq Nat /\ \A i \in Needed(c, lo, q) : i >= 1
    BY <2>1 DEF Needed
  <2>3. first \in Nat /\ first >= 1
    BY <1>1, <2>2, MinIsIn, Zenon
  <2> DEFINE free == { i \in first .. Len(chain_of[c]) : chain_of[c][i] \notin q.requested }
  <2>4. free # {} /\ r.start = Min(free)
    BY <1>1, Zenon DEF reserve_span
  <2> HIDE DEF first
  <2>5. free \subseteq Nat /\ free \subseteq 1 .. Len(chain_of[c])
    BY <2>1, <2>3, SMTT(30)
  <2> HIDE DEF free, r
  <2>6. r.start \in free
    BY <2>4, <2>5, MinIsIn, Zenon
  <2> QED
    BY <2>1, <2>5, <2>6, Zenon
<1> HIDE DEF first
<1>5. Q' = r.q
  BY <1>1, <1>3, QueueBecomes, Zenon
<1>6. ASSUME OneChain, NEW d \in Conns
      PROVE  /\ HaveOK(chain_of[d], max_blocks, Q')
             /\ \A x \in Conns : WaitOK(chain_of[d], max_blocks, asked'[x])
  <2>1. chain_of[d] = chain_of[c]
    BY <1>6, Zenon DEF OneChain
  <2>2. HaveOK(chain_of[c], max_blocks, q)
    BY <1>2, <1>6, HaveConn, Zenon
  <2>3. /\ HaveOK(chain_of[c], max_blocks, r.q)
        /\ r.hashes = SpanAt(chain_of[c], max_blocks, r.start)
    BY <1>1, <1>2, <1>4, <2>2, ReserveHave, ZenonT(30)
  <2> HIDE DEF r
  <2>4. WaitOK(chain_of[c], max_blocks, v)
    BY <1>4, <2>3, Zenon DEF WaitOK
  <2> HIDE DEF v
  <2>5. \A x \in Conns : asked'[x] = v \/ asked'[x] = asked[x]
    BY <1>1, Zenon DEF IInv
  <2>6. \A x \in Conns : WaitOK(chain_of[c], max_blocks, asked[x])
    BY <1>6, HaveConn, Zenon
  <2> QED
    BY <1>5, <2>1, <2>3, <2>4, <2>5, <2>6, SMTT(30)
<1> QED
  BY <1>1, <1>6, HaveConnStep, Zenon

LEMMA RequestNextHave ==
  ASSUME IInv, HaveInv, NEW c \in Conns, RequestNext(c)
  PROVE  HaveInv'
<1> DEFINE S == { s \in DOMAIN Q.blocks : ~ Filled(Q.blocks[s]) /\ Q.blocks[s].conn \notin live }
           q == erase_blocks(Q, S)
           f == first_span(q)
           v == [start |-> f, hashes |-> q.blocks[f].hashes]
<1>1. /\ QueueIs(q)
      /\ DOMAIN q.blocks # {} /\ ~ Filled(q.blocks[f])
      /\ asked' = [asked EXCEPT ![c] = v]
      /\ UNCHANGED setting
  BY Zenon DEF RequestNext, flush_stale_spans
<1> HIDE DEF S
<1>2. /\ QueueOK(q) /\ \A ch, n : HaveOK(ch, n, Q) => HaveOK(ch, n, q)
      /\ \A s \in DOMAIN q.blocks : s \in DOMAIN blocks /\ q.blocks[s] = blocks[s]
  <2>1. QueueOK(Q) /\ Q.blocks = blocks
    BY Zenon DEF IInv, Q
  <2> QED
    BY <2>1, Erase, EraseHave, SMTT(30)
<1> HIDE DEF q
<1>3. Q' = q
  BY <1>1, <1>2, QueueBecomes, Zenon
<1>4. f \in DOMAIN q.blocks
  <2>1. DOMAIN q.blocks \subseteq Nat
    BY <1>2, Zenon DEF IInv
  <2> QED
    BY <1>1, <2>1, MinIsIn, Zenon DEF first_span
<1>5. q.blocks[f].hashes # <<>>
  <2>1. ~ Filled(blocks[f]) /\ Awaited(blocks, f, live, asked) /\ q.blocks[f] = blocks[f]
    BY <1>1, <1>2, <1>4, Zenon DEF IInv
  <2> QED
    BY <2>1, Zenon DEF Awaited
<1> HIDE DEF f
<1>6. ASSUME OneChain, NEW d \in Conns
      PROVE  /\ HaveOK(chain_of[d], max_blocks, Q')
             /\ \A x \in Conns : WaitOK(chain_of[d], max_blocks, asked'[x])
  <2>1. HaveOK(chain_of[d], max_blocks, q)
    BY <1>2, <1>6, HaveConn, Zenon
  <2>2. WaitOK(chain_of[d], max_blocks, v)
    <3>1. SpanOK(chain_of[d], max_blocks, f, q.blocks[f])
      BY <1>4, <2>1, Zenon DEF HaveOK
    <3> QED
      BY <1>5, <3>1, Zenon DEF SpanOK, Slice, WaitOK
  <2> HIDE DEF v
  <2>3. \A x \in Conns : asked'[x] = v \/ asked'[x] = asked[x]
    BY <1>1, Zenon DEF IInv
  <2>4. \A x \in Conns : WaitOK(chain_of[d], max_blocks, asked[x])
    BY <1>6, HaveConn, Zenon
  <2> QED
    BY <1>3, <2>1, <2>2, <2>3, <2>4, Zenon
<1> QED
  BY <1>1, <1>6, HaveConnStep, Zenon

LEMMA ResponseHave ==
  ASSUME IInv, HaveInv, NEW c \in Conns, Response(c)
  PROVE  HaveInv'
<1> DEFINE start == asked[c].start
           bcel == asked[c].hashes
           r == add_filled(Q, start, bcel, c)
<1>1. /\ asked[c] # Nothing
      /\ QueueIs(r)
      /\ asked' = [asked EXCEPT ![c] = Nothing]
      /\ UNCHANGED setting
  BY Zenon DEF Response, CanAnswer
<1>2. QueueOK(Q) /\ bcel # <<>>
  BY <1>1, Zenon DEF IInv, AskedOK
<1> HIDE DEF bcel, start
<1>3. QueueOK(r)
  BY <1>2, AddFilled, Zenon
<1>4. Q' = r
  BY <1>1, <1>3, QueueBecomes, Zenon
<1>5. ASSUME OneChain, NEW d \in Conns
      PROVE  /\ HaveOK(chain_of[d], max_blocks, Q')
             /\ \A x \in Conns : WaitOK(chain_of[d], max_blocks, asked'[x])
  <2>1. chain_of[d] \in Seq(ToSet(chain_of[d])) /\ max_blocks \in Nat \ {0}
    BY QueueAssumption, Zenon DEF IInv, HaveInv
  <2>2. start \in DOMAIN chain_of[d] /\ bcel = SpanAt(chain_of[d], max_blocks, start)
    BY <1>1, <1>5, HaveConn, Zenon DEF WaitOK, start, bcel
  <2>3. HaveOK(chain_of[d], max_blocks, Q)
    BY <1>5, HaveConn, Zenon
  <2>4. HaveOK(chain_of[d], max_blocks, r)
    BY <1>2, <2>1, <2>2, <2>3, AddFilledHave, SMTT(30)
  <2>5. \A x \in Conns : asked'[x] = asked[x] \/ asked'[x] = Nothing
    BY <1>1, SameAsked, Zenon
  <2>6. \A x \in Conns : WaitOK(chain_of[d], max_blocks, asked[x])
    BY <1>5, HaveConn, Zenon
  <2> HIDE DEF r
  <2> QED
    BY <1>4, <2>4, <2>5, <2>6, NothingWaits, SMTT(30)
<1> QED
  BY <1>1, <1>5, HaveConnStep, Zenon

LEMMA FinishHave ==
  ASSUME IInv, HaveInv, FinishAdding
  PROVE  HaveInv'
<1> DEFINE c == adding.span.conn
           bad == { i \in DOMAIN adding.span.blocks : adding.span.blocks[i] \in Bad }
           S == { s \in DOMAIN Q.blocks : Q.blocks[s].conn = c /\ (TRUE \/ ~ Filled(Q.blocks[s])) }
           q == IF bad # {} /\ c \in live THEN erase_blocks(Q, S) ELSE Q
           T == { s \in DOMAIN q.blocks : q.blocks[s].conn = c /\ s <= adding.start }
           r == erase_blocks(q, T)
<1>1. /\ QueueIs(r)
      /\ asked' = asked \/ asked' = [asked EXCEPT ![c] = Nothing]
      /\ UNCHANGED setting
  BY Zenon DEF FinishAdding, flush_spans, remove_spans
<1> HIDE DEF c, bad, S, T
<1>2. QueueOK(q) /\ \A ch, n : HaveOK(ch, n, Q) => HaveOK(ch, n, q)
  <2>1. QueueOK(Q)
    BY Zenon DEF IInv
  <2> QED
    BY <2>1, Erase, EraseHave, Zenon
<1> HIDE DEF q
<1>3. QueueOK(r) /\ \A ch, n : HaveOK(ch, n, Q) => HaveOK(ch, n, r)
  BY <1>2, Erase, EraseHave, Zenon
<1> HIDE DEF r
<1>4. \A d \in Conns : asked'[d] = asked[d] \/ asked'[d] = Nothing
  BY <1>1, SameAsked, Zenon
<1> QED
  BY <1>1, <1>3, <1>4, FewerHave, SMTT(30)

\* Spans are erased and nothing else happens to the queue.
LEMMA EraseStepHave ==
  ASSUME IInv, HaveInv, UNCHANGED setting, NEW S, QueueIs(erase_blocks(Q, S)),
         \A d \in Conns : asked'[d] = asked[d] \/ asked'[d] = Nothing
  PROVE  HaveInv'
<1>1. QueueOK(Q)
  BY Zenon DEF IInv
<1>2. QueueOK(erase_blocks(Q, S)) /\ \A ch, n : HaveOK(ch, n, Q) => HaveOK(ch, n, erase_blocks(Q, S))
  BY <1>1, Erase, EraseHave, Zenon
<1> QED
  BY <1>2, FewerHave, Zenon

LEMMA StepHave ==
  ASSUME IInv, HaveInv, [Next]_vars
  PROVE  HaveInv'
<1>1. ASSUME NEW c \in Conns, Drop(c) PROVE HaveInv'
  <2>1. \A d \in Conns : asked'[d] = asked[d] \/ asked'[d] = Nothing
    BY <1>1, SameAsked, Zenon DEF Drop
  <2> QED
    BY <1>1, <2>1, EraseStepHave, Zenon DEF Drop, flush_spans
<1>2. CASE OldSpan \/ Orphan
  <2>1. \A d \in Conns : asked'[d] = asked[d] \/ asked'[d] = Nothing
    BY <1>2, Zenon DEF OldSpan, Orphan
  <2> QED
    BY <1>2, <2>1, EraseStepHave, Zenon DEF OldSpan, Orphan, remove_spans
<1>3. CASE StartAdding \/ UNCHANGED vars
  <2>1. UNCHANGED <<setting, asked>> /\ Q' = Q
    BY <1>3, Zenon DEF StartAdding, queue, vars, setting, Q
  <2> QED
    BY <2>1, HaveStep, Zenon DEF HaveInv
<1> QED
  BY <1>1, <1>2, <1>3, RequestHave, RequestNextHave, ResponseHave, FinishHave, Zenon DEF Next, Adding

\* A block's height is the place it has in the chain all peers are on.
LEMMA HeightIs ==
  ASSUME chain_of \in Networks, OneChain, NEW c \in Conns, NEW i \in DOMAIN chain_of[c]
  PROVE  height(chain_of[c][i]) = i
<1> DEFINE h == chain_of[c][i]
           d == CHOOSE x \in Holders(h) : TRUE
<1>1. c \in Holders(h)
  BY Zenon DEF Holders, ToSet
<1>2. d \in Holders(h)
  BY <1>1, Zenon
<1>3. d \in Conns
  BY <1>2, Zenon DEF Holders
<1>4. chain_of[d] = chain_of[c]
  BY <1>3, Zenon DEF OneChain
<1>5. \A j \in DOMAIN chain_of[c] : chain_of[c][j] = h => j = i
  <2>1. ShareHistory(chain_of[c], chain_of[c])
    BY QueueAssumption, Zenon
  <2> QED
    BY <2>1, Zenon DEF ShareHistory
<1>6. HeightIn(d, h) = i
  <2> HIDE DEF h, d
  <2> QED
    BY <1>4, <1>5, Zenon DEF HeightIn, h
<1> QED
  BY <1>6, Zenon DEF height

\* While the peers are on one chain, a hash that have and have_height of block_queue answer for is one
\* of the blocks that wait in a filled span, at its height in the chain: handle_response_chain_entry
\* trusts it.  add_blocks, set_span_hashes and erase_block keep it so however requests overlap.
THEOREM HaveAlwaysDownloaded == Spec => []HaveIsDownloaded
<1>1. Init => HaveInv
  <2> SUFFICES ASSUME Init PROVE HaveInv
    BY Zenon
  <2>1. Q.blocks = <<>> /\ Q.have = <<>> /\ DOMAIN Q.blocks = {} /\ DOMAIN Q.have = {}
    BY DEF Init, Q
  <2>2. \A ch, n : HaveOK(ch, n, Q)
    BY <2>1, Zenon DEF HaveOK
  <2> QED
    BY <2>2, NothingWaits, Zenon DEF Init, HaveInv
<1>2. IInv /\ HaveInv /\ [Next]_vars => HaveInv'
  BY StepHave, Zenon
<1>3. IInv /\ HaveInv => HaveIsDownloaded
  <2> SUFFICES ASSUME IInv, HaveInv, OneChain, NEW h \in DOMAIN have_blocks
               PROVE  \E s \in DOMAIN blocks : h \in ToSet(blocks[s].blocks) /\ have_blocks[h] = height(h)
    BY Zenon DEF HaveIsDownloaded
  <2>1. CASE Conns = {}
    <3>1. Q.have = have_blocks /\ <<>> \in PeerChains
      BY <2>1, Zenon DEF Q, PeerChains
    <3>2. have_blocks[h] \in DOMAIN <<>>
      BY <3>1, Zenon DEF HaveInv, HaveOK
    <3> QED
      BY <3>2
  <2>2. CASE Conns # {}
    <3>1. PICK c \in Conns : TRUE
      BY <2>2, Zenon
    <3>2. HaveOK(chain_of[c], max_blocks, Q) /\ Q.blocks = blocks /\ Q.have = have_blocks
      BY HaveConn, Zenon DEF Q
    <3>3. have_blocks[h] \in DOMAIN chain_of[c] /\ chain_of[c][have_blocks[h]] = h
      BY <3>2, Zenon DEF HaveOK
    <3>4. have_blocks[h] = height(h)
      BY <3>3, HeightIs, Zenon DEF IInv
    <3>5. PICK s \in DOMAIN blocks : Filled(blocks[s]) /\ h \in ToSet(blocks[s].hashes)
      BY <3>2, Zenon DEF HaveOK, Brought
    <3>6. blocks[s].hashes # <<>>
      BY <3>5 DEF ToSet
    <3>7. blocks[s].hashes = blocks[s].blocks
      BY <3>2, <3>5, <3>6, Zenon DEF HaveOK, SpanOK, Slice, Filled
    <3> QED
      BY <3>4, <3>5, <3>7, Zenon
  <2> QED
    BY <2>1, <2>2, Zenon
<1> QED
  BY <1>1, <1>2, <1>3, InitHolds, StepHolds, PTL DEF Spec
====
