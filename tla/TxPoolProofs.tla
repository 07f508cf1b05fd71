---------------------------- MODULE TxPoolProofs ----------------------------
(***************************************************************************)
(* The transaction pool's memory and its table stay in step, for every     *)
(* set of transactions, every limit and every schedule of forks.           *)
(***************************************************************************)
EXTENDS TxPool, TLAPS

RelayMethods == {"none", "local", "forward", "stem", "fluff", "block"}

\* A well formed entry of the table.
IsMeta(r) ==
  /\ r = [relay |-> r.relay, double_spend_seen |-> r.double_spend_seen, last_failed_id |-> r.last_failed_id]
  /\ r.relay \in RelayMethods

IsTable(table) ==
  /\ table = [t \in DOMAIN table |-> table[t]]
  /\ DOMAIN table \subseteq Txs
  /\ \A t \in DOMAIN table : IsMeta(table[t])

Indexes(index, table) == index = [k \in KeyImages |-> { t \in DOMAIN table : k \in images[t] }]

\* What every single operation on the pool keeps.
PoolInv ==
  /\ IsTable(pool)
  /\ Indexes(m_spent_key_images, pool)
  /\ InitAccepts(pool)
  /\ m_txs_by_fee = DOMAIN pool

JobFields == {"kind", "todo", "block", "extra", "pooled", "before", "current", "restore", "metas"}

IsJob(j) == j = [f \in JobFields |-> j[f]]

\* While validate runs, its snapshot covers what it still has to do: the transaction it
\* holds is not in the pool, and the one it just put back has its old relay method.
ValidateInv ==
  /\ IsJob(job)
  /\ IsTable(job.metas)
  /\ job.current \subseteq DOMAIN job.metas
  /\ job.restore \subseteq DOMAIN job.metas
  /\ job.kind = "validate" => job.todo \subseteq DOMAIN job.metas
  /\ job.kind # "validate" => job.current = {} /\ job.restore = {}
  /\ job.current \cap DOMAIN pool = {}
  /\ \A t \in job.restore \cap DOMAIN pool : pool[t].relay = job.metas[t].relay

\* The inductive invariant.
IInv == PoolInv /\ ValidateInv /\ TimedOutOnlyByBlock

----------------------------------------------------------------------------
(* Relay methods. *)

LEMMA RelayRanks ==
  /\ RelayRank("none") = 1 /\ RelayRank("local") = 2 /\ RelayRank("forward") = 3
  /\ RelayRank("stem") = 4 /\ RelayRank("fluff") = 5 /\ RelayRank("block") = 6
<1>1. DOMAIN RelayOrder = 1..6
  BY DEF RelayOrder
<1>2. \A i \in 1..6 : RelayOrder[i] = "none" <=> i = 1
  BY DEF RelayOrder
<1>3. \A i \in 1..6 : RelayOrder[i] = "local" <=> i = 2
  BY DEF RelayOrder
<1>4. \A i \in 1..6 : RelayOrder[i] = "forward" <=> i = 3
  BY DEF RelayOrder
<1>5. \A i \in 1..6 : RelayOrder[i] = "stem" <=> i = 4
  BY DEF RelayOrder
<1>6. \A i \in 1..6 : RelayOrder[i] = "fluff" <=> i = 5
  BY DEF RelayOrder
<1>7. \A i \in 1..6 : RelayOrder[i] = "block" <=> i = 6
  BY DEF RelayOrder
<1> QED
  BY <1>1, <1>2, <1>3, <1>4, <1>5, <1>6, <1>7 DEF RelayRank

\* Nothing is above "block": an upgrade never changes one that a block had.
LEMMA BlockIsTop ==
  ASSUME NEW r \in RelayMethods, NEW q \in RelayMethods, RelayRank(q) > RelayRank(r)
  PROVE  r # "block"
BY RelayRanks DEF RelayMethods

----------------------------------------------------------------------------
(* Removing entries. *)

\* Taking a set of transactions out of the table, of the index and of the container.
LEMMA RemoveKeeps ==
  ASSUME NEW table, NEW index, NEW S,
         IsTable(table), Indexes(index, table), InitAccepts(table)
  PROVE  /\ IsTable(Without(table, S))
         /\ Indexes(IndexWithout(index, S), Without(table, S))
         /\ InitAccepts(Without(table, S))
         /\ DOMAIN Without(table, S) = DOMAIN table \ S
<1>1. DOMAIN Without(table, S) = DOMAIN table \ S
  BY Zenon DEF Without
<1>2. \A t \in DOMAIN table \ S : Without(table, S)[t] = table[t]
  BY Zenon DEF Without
<1>3. IsTable(Without(table, S))
  BY <1>1, <1>2, Zenon DEF IsTable, Without
<1>4. InitAccepts(Without(table, S))
  BY <1>1, <1>2, Zenon DEF InitAccepts
<1>5. Indexes(IndexWithout(index, S), Without(table, S))
  <2>1. ASSUME NEW k \in KeyImages
        PROVE  index[k] \ S = { t \in DOMAIN table \ S : k \in images[t] }
    BY Zenon DEF Indexes
  <2> QED
    BY <2>1, <1>1, Zenon DEF Indexes, IndexWithout
<1> QED
  BY <1>1, <1>3, <1>4, <1>5, Zenon

----------------------------------------------------------------------------
(* Entering and updating entries. *)

\* An entry whose key images no other transaction has, or one that a block had, goes in.
LEMMA EnterKeeps ==
  ASSUME NEW t \in Txs, NEW r, IsMeta(r), PoolInv,
         r.relay # "block" => \A k \in images[t] : m_spent_key_images[k] \subseteq {t}
  PROVE  /\ IsTable(With(pool, t, r))
         /\ Indexes(IndexWith(t), With(pool, t, r))
         /\ InitAccepts(With(pool, t, r))
         /\ DOMAIN With(pool, t, r) = DOMAIN pool \cup {t}
<1> DEFINE table == With(pool, t, r)
<1>1. DOMAIN table = DOMAIN pool \cup {t}
  BY Zenon DEF With
<1>2. /\ table[t] = r
      /\ \A u \in DOMAIN pool : u # t => table[u] = pool[u]
  BY Zenon DEF With
<1>3. IsTable(table)
  BY <1>1, <1>2, Zenon DEF With, IsTable, PoolInv
<1>4. images[t] \subseteq KeyImages
  BY TxAssumption, Zenon DEF TxAssumption
<1>5. Indexes(IndexWith(t), table)
  <2>1. ASSUME NEW k \in KeyImages
        PROVE  m_spent_key_images[k] \cup (IF k \in images[t] THEN {t} ELSE {})
                 = { u \in DOMAIN table : k \in images[u] }
    BY <1>1, Zenon DEF PoolInv, Indexes
  <2> HIDE DEF table
  <2> QED
    BY <2>1, Zenon DEF Indexes, IndexWith
<1>6. ASSUME r.relay # "block", NEW u \in DOMAIN pool, u # t
      PROVE  images[t] \cap images[u] = {}
  <2>1. ASSUME NEW k \in images[t], k \in images[u]
        PROVE  FALSE
    <3>1. u \in m_spent_key_images[k]
      BY <1>4, <2>1, Zenon DEF PoolInv, Indexes
    <3> QED
      BY <1>6, <3>1, Zenon
  <2> QED
    BY <2>1, Zenon
<1>7. InitAccepts(table)
  <2> HIDE DEF table
  <2> SUFFICES ASSUME NEW a \in DOMAIN table, NEW b \in DOMAIN table,
                      table[a].relay # "block", table[b].relay # "block", b # a
               PROVE  images[a] \cap images[b] = {}
    BY Zenon DEF InitAccepts
  <2>1. CASE a = t
    BY <1>1, <1>2, <1>6, <2>1, Zenon
  <2>2. CASE b = t
    BY <1>1, <1>2, <1>6, <2>2, Zenon
  <2>3. CASE a # t /\ b # t
    BY <1>1, <1>2, <2>3, Zenon DEF PoolInv, InitAccepts
  <2> QED
    BY <2>1, <2>2, <2>3, Zenon
<1> QED
  BY <1>1, <1>3, <1>5, <1>7, Zenon

\* A change of meta data that keeps which entries a block had keeps the invariant.
LEMMA UpdateKeeps ==
  ASSUME NEW table, IsTable(table), DOMAIN table = DOMAIN pool, PoolInv,
         \A t \in DOMAIN pool : pool[t].relay = "block" => table[t].relay = "block"
  PROVE  /\ Indexes(m_spent_key_images, table)
         /\ InitAccepts(table)
<1>1. Indexes(m_spent_key_images, table)
  BY Zenon DEF PoolInv, Indexes
<1>2. InitAccepts(table)
  BY Zenon DEF PoolInv, InitAccepts
<1> QED
  BY <1>1, <1>2, Zenon

\* The end of a successful add_tx: prune removes a set from all three.
LEMMA AccountKeeps ==
  ASSUME NEW t \in Txs, NEW table, NEW index, NEW sorted,
         IsTable(table), Indexes(index, table), InitAccepts(table), sorted = DOMAIN table,
         Account(t, table, index, sorted)
  PROVE  /\ PoolInv'
         /\ DOMAIN pool' \subseteq DOMAIN table
         /\ \A u \in DOMAIN pool' : pool'[u] = table[u]
<1> DEFINE out == PruneSet(table, sorted, m_txpool_weight + weight[t])
<1>1. /\ pool' = Without(table, out)
      /\ m_spent_key_images' = IndexWithout(index, out)
      /\ m_txs_by_fee' = sorted \ out
  BY Zenon DEF Account
<1> HIDE DEF out
<1>2. /\ IsTable(Without(table, out))
      /\ Indexes(IndexWithout(index, out), Without(table, out))
      /\ InitAccepts(Without(table, out))
      /\ DOMAIN Without(table, out) = DOMAIN table \ out
  BY RemoveKeeps, Zenon
<1>3. IsTable(pool') /\ Indexes(m_spent_key_images', pool') /\ InitAccepts(pool')
      /\ DOMAIN pool' = DOMAIN table \ out
  BY <1>1, <1>2, Zenon
<1>4. PoolInv'
  BY <1>1, <1>3, Zenon DEF PoolInv, Indexes, IsTable, InitAccepts, IsMeta
<1>5. \A u \in DOMAIN pool' : pool'[u] = table[u]
  BY <1>1, <1>3, Zenon DEF Without
<1> QED
  BY <1>3, <1>4, <1>5, Zenon

\* What a step of add_tx may do to the other entries, and to the entry of t.
AddEffect(t, relay) ==
  /\ DOMAIN pool' \subseteq DOMAIN pool \cup {t}
  /\ \A u \in DOMAIN pool \cap DOMAIN pool' : RelayRank(pool'[u].relay) >= RelayRank(pool[u].relay)
  /\ \A u \in DOMAIN pool \cap DOMAIN pool' : u # t => pool'[u].relay = pool[u].relay
  /\ t \in DOMAIN pool' /\ t \notin DOMAIN pool => pool'[t].relay = relay

LEMMA RankInt ==
  ASSUME NEW r \in RelayMethods
  PROVE  RelayRank(r) \in 1..6
BY RelayRanks DEF RelayMethods

LEMMA SameRelays ==
  ASSUME NEW t, NEW relay, PoolInv, DOMAIN pool' \subseteq DOMAIN pool,
         \A u \in DOMAIN pool' : pool'[u].relay = pool[u].relay
  PROVE  AddEffect(t, relay)
<1>1. \A u \in DOMAIN pool : RelayRank(pool[u].relay) \in 1..6
  BY RankInt, Zenon DEF PoolInv, IsTable, IsMeta
<1>2. \A u \in DOMAIN pool \cap DOMAIN pool' : RelayRank(pool'[u].relay) >= RelayRank(pool[u].relay)
  BY <1>1
<1> QED
  BY <1>2, Zenon DEF AddEffect

LEMMA PoolSame ==
  ASSUME PoolInv, UNCHANGED <<pool, m_spent_key_images, m_txs_by_fee>>
  PROVE  PoolInv'
BY Zenon DEF PoolInv, IsTable, IsMeta, Indexes, InitAccepts

LEMMA MarkKeeps ==
  ASSUME NEW t \in Txs, NEW relay, PoolInv, mark_double_spend(t), UNCHANGED <<m_spent_key_images, m_txs_by_fee>>
  PROVE  PoolInv' /\ AddEffect(t, relay)
<1>1. PICK marked : pool' = [u \in DOMAIN pool |-> IF u \in marked THEN [pool[u] EXCEPT !.double_spend_seen = TRUE]
                                                   ELSE pool[u]]
  BY Zenon DEF mark_double_spend
<1>2. ASSUME NEW u \in DOMAIN pool
      PROVE  IsMeta(pool'[u]) /\ pool'[u].relay = pool[u].relay
  <2>1. IsMeta(pool[u])
    BY Zenon DEF PoolInv, IsTable
  <2>2. CASE u \in marked
    <3>1. pool'[u] = [pool[u] EXCEPT !.double_spend_seen = TRUE]
      BY <1>1, <2>2, Zenon
    <3>2. pool'[u] = [relay |-> pool[u].relay, double_spend_seen |-> TRUE, last_failed_id |-> pool[u].last_failed_id]
      BY <2>1, <3>1, Zenon DEF IsMeta
    <3> QED
      BY <2>1, <3>2 DEF IsMeta
  <2>3. CASE u \notin marked
    BY <1>1, <2>1, <2>3, Zenon
  <2> QED
    BY <2>2, <2>3, Zenon
<1>3. DOMAIN pool' = DOMAIN pool
  BY <1>1, Zenon
<1>4. IsTable(pool')
  BY <1>1, <1>2, <1>3, Zenon DEF IsTable, PoolInv
<1>5. Indexes(m_spent_key_images, pool') /\ InitAccepts(pool')
  BY <1>2, <1>3, <1>4, UpdateKeeps, Zenon
<1>6. m_spent_key_images' = m_spent_key_images /\ m_txs_by_fee' = DOMAIN pool'
  BY <1>3, Zenon DEF PoolInv
<1>7. PoolInv'
  BY <1>4, <1>5, <1>6, Zenon DEF PoolInv, Indexes, IsTable, InitAccepts, IsMeta
<1>8. AddEffect(t, relay)
  BY <1>2, <1>3, SameRelays, Zenon
<1> QED
  BY <1>7, <1>8, Zenon

LEMMA EnteredMeta ==
  ASSUME NEW t \in Txs, NEW relay \in RelayMethods
  PROVE  /\ IsMeta(MetaEntered(t, relay))
         /\ relay = "block" => MetaEntered(t, relay).relay = "block"
         /\ t \notin DOMAIN pool => MetaEntered(t, relay).relay = relay
         /\ check_tx_inputs(t, relay = "block") => MetaEntered(t, relay).relay = EffectiveRelay(t, relay)
<1>1. EffectiveRelay(t, relay) \in RelayMethods
  BY Zenon DEF EffectiveRelay, RelayMethods
<1>2. relay = "block" => EffectiveRelay(t, relay) = "block"
  BY Zenon DEF EffectiveRelay
<1>3. t \notin DOMAIN pool => EffectiveRelay(t, relay) = relay
  BY Zenon DEF EffectiveRelay
<1>4. CASE check_tx_inputs(t, relay = "block")
  BY <1>1, <1>2, <1>3, <1>4, Zenon DEF MetaEntered, NewMeta, IsMeta
<1>5. CASE ~check_tx_inputs(t, relay = "block")
  BY <1>5, Zenon DEF MetaEntered, NewMeta, IsMeta
<1> QED
  BY <1>4, <1>5, Zenon

\* add_tx, whatever its arguments and its result.
LEMMA AddKeeps ==
  ASSUME PoolInv, NEW t \in Txs, NEW relay \in RelayMethods,
         NEW version, NEW nic, NEW fee_good, NEW added,
         add_tx(t, relay, version, nic, fee_good, added)
  PROVE  PoolInv' /\ AddEffect(t, relay)
<1>1. CASE UNCHANGED <<pool, m_spent_key_images, m_txs_by_fee>>
  BY <1>1, PoolSame, SameRelays, Zenon
<1>2. CASE mark_double_spend(t) /\ UNCHANGED <<m_spent_key_images, m_txs_by_fee>>
  BY <1>2, MarkKeeps, Zenon
<1>3. CASE /\ Enters(t, relay)
           /\ Account(t, With(pool, t, MetaEntered(t, relay)), IndexWith(t), m_txs_by_fee \cup {t})
  <2> DEFINE r == MetaEntered(t, relay)
             table == With(pool, t, r)
  <2>1. IsMeta(r) /\ (relay = "block" => r.relay = "block")
    BY EnteredMeta, Zenon
  <2>2. r.relay # "block" => \A k \in images[t] : m_spent_key_images[k] \subseteq {t}
    BY <1>3, <2>1, Zenon DEF Enters, insert_key_images_ok
  <2>3. /\ IsTable(table) /\ Indexes(IndexWith(t), table) /\ InitAccepts(table)
        /\ DOMAIN table = DOMAIN pool \cup {t}
    <3> HIDE DEF r
    <3> QED BY <2>1, <2>2, EnterKeeps, Zenon
  <2>4. m_txs_by_fee \cup {t} = DOMAIN table
    BY <2>3, Zenon DEF PoolInv
  <2>5. /\ table[t] = r
        /\ \A u \in DOMAIN pool : u # t => table[u] = pool[u]
    BY Zenon DEF With
  <2>6. t \in DOMAIN pool => RelayRank(r.relay) > RelayRank(pool[t].relay)
    BY <1>3, EnteredMeta, Zenon DEF Enters
  <2>7. t \notin DOMAIN pool => r.relay = relay
    BY EnteredMeta, Zenon
  <2>8. \A u \in DOMAIN pool : RelayRank(pool[u].relay) \in 1..6
    BY RankInt, Zenon DEF PoolInv, IsTable, IsMeta
  <2>9. RelayRank(r.relay) \in 1..6
    BY <2>1, RankInt, Zenon DEF IsMeta
  <2>10. Account(t, table, IndexWith(t), m_txs_by_fee \cup {t})
    BY <1>3, Zenon
  <2> HIDE DEF r, table
  <2>11. /\ PoolInv'
         /\ DOMAIN pool' \subseteq DOMAIN table
         /\ \A u \in DOMAIN pool' : pool'[u] = table[u]
    BY <2>3, <2>4, <2>10, AccountKeeps, Zenon
  <2>12. AddEffect(t, relay)
    BY <2>3, <2>5, <2>6, <2>7, <2>8, <2>9, <2>11 DEF AddEffect
  <2> QED
    BY <2>11, <2>12, Zenon
<1>4. CASE Account(t, pool, m_spent_key_images, m_txs_by_fee)
  <2>1. /\ PoolInv'
        /\ DOMAIN pool' \subseteq DOMAIN pool
        /\ \A u \in DOMAIN pool' : pool'[u] = pool[u]
    BY <1>4, AccountKeeps, Zenon DEF PoolInv
  <2> QED
    BY <2>1, SameRelays, Zenon
<1> QED
  BY <1>1, <1>2, <1>3, <1>4, Zenon DEF add_tx

\* A transaction that timed out is only entered for a block.
LEMMA AddTimedOut ==
  ASSUME NEW t \in Txs, NEW relay \in RelayMethods,
         NEW version, NEW nic, NEW fee_good, NEW added,
         add_tx(t, relay, version, nic, fee_good, added),
         t \in m_timed_out_transactions, relay # "block"
  PROVE  pool' = pool
BY Zenon DEF add_tx, RefusedAtOnce

LEMMA TimedOutKept ==
  ASSUME PoolInv, TimedOutOnlyByBlock, PoolInv',
         NEW t \in Txs, NEW relay \in RelayMethods, AddEffect(t, relay),
         relay # "block" /\ t \in m_timed_out_transactions => pool' = pool,
         UNCHANGED m_timed_out_transactions
  PROVE  TimedOutOnlyByBlock'
<1> SUFFICES ASSUME NEW u \in m_timed_out_transactions, u \in DOMAIN pool'
             PROVE  pool'[u].relay = "block"
  BY Zenon DEF TimedOutOnlyByBlock, kept_by_block
<1>1. u \in DOMAIN pool => pool[u].relay = "block"
  BY Zenon DEF TimedOutOnlyByBlock, kept_by_block
<1>2. CASE u \in DOMAIN pool
  <2>1. RelayRank(pool'[u].relay) >= 6
    BY <1>1, <1>2, RelayRanks, Zenon DEF AddEffect
  <2>2. pool'[u].relay \in RelayMethods
    BY Zenon DEF PoolInv, IsTable, IsMeta
  <2> QED
    BY <2>1, <2>2, RelayRanks DEF RelayMethods
<1>3. CASE u \notin DOMAIN pool
  BY <1>3, Zenon DEF AddEffect
<1> QED
  BY <1>2, <1>3, Zenon

\* add_tx as a step of a job whose record keeps its snapshot and has no transaction in hand.
LEMMA AddStep ==
  ASSUME IInv, NEW t \in Txs, NEW relay \in RelayMethods,
         NEW version, NEW nic, NEW fee_good, NEW added,
         add_tx(t, relay, version, nic, fee_good, added),
         UNCHANGED m_timed_out_transactions
  PROVE  PoolInv' /\ AddEffect(t, relay) /\ TimedOutOnlyByBlock'
<1>1. PoolInv' /\ AddEffect(t, relay)
  BY AddKeeps, Zenon DEF IInv
<1>2. relay # "block" /\ t \in m_timed_out_transactions => pool' = pool
  BY AddTimedOut, Zenon
<1>3. TimedOutOnlyByBlock'
  BY <1>1, <1>2, TimedOutKept, Zenon DEF IInv
<1> QED
  BY <1>1, <1>3, Zenon

\* Removing a set of transactions everywhere.
LEMMA RemoveStep ==
  ASSUME IInv, NEW S,
         pool' = Without(pool, S),
         m_spent_key_images' = IndexWithout(m_spent_key_images, S),
         m_txs_by_fee' = m_txs_by_fee \ S,
         m_timed_out_transactions' \subseteq m_timed_out_transactions \cup S
  PROVE  /\ PoolInv' /\ TimedOutOnlyByBlock'
         /\ DOMAIN pool' = DOMAIN pool \ S
         /\ \A u \in DOMAIN pool' : pool'[u] = pool[u]
<1>1. /\ IsTable(pool') /\ Indexes(m_spent_key_images', pool') /\ InitAccepts(pool')
      /\ DOMAIN pool' = DOMAIN pool \ S
  BY RemoveKeeps, Zenon DEF IInv, PoolInv
<1>2. PoolInv'
  BY <1>1, Zenon DEF IInv, PoolInv, Indexes, IsTable, InitAccepts, IsMeta
<1>3. \A u \in DOMAIN pool' : pool'[u] = pool[u]
  BY <1>1, Zenon DEF Without
<1>4. TimedOutOnlyByBlock'
  BY <1>1, <1>3, Zenon DEF IInv, TimedOutOnlyByBlock, kept_by_block
<1> QED
  BY <1>1, <1>2, <1>3, <1>4, Zenon

\* Jobs that hold no snapshot.
LEMMA PlainJob ==
  ASSUME NEW kind, NEW todo
  PROVE  /\ IsJob(Job(kind, todo))
         /\ Job(kind, todo).kind = kind
         /\ Job(kind, todo).current = {} /\ Job(kind, todo).restore = {}
         /\ IsTable(Job(kind, todo).metas)
<1>1. IsTable(NoMetas)
  BY Zenon DEF NoMetas, IsTable
<1> QED
  BY <1>1, Zenon DEF Job, IsJob, JobFields

\* What matters of a job: it is no validation and has nothing in hand.
Plain(j) == IsJob(j) /\ j.kind # "validate" /\ j.current = {} /\ j.restore = {} /\ IsTable(j.metas)

LEMMA PlainInv ==
  ASSUME Plain(job')
  PROVE  ValidateInv'
BY Zenon DEF Plain, ValidateInv, IsTable, IsJob, IsMeta

LEMMA IdlePlain == Plain(Idle)
BY PlainJob DEF Plain, Idle

\* Outside of validate nothing is in hand.
LEMMA IdleJob ==
  ASSUME job = Idle, UNCHANGED job
  PROVE  ValidateInv'
BY IdlePlain, PlainInv, Zenon

\* The snapshot that a validation starts with.
LEMMA ValidateStarts ==
  ASSUME IInv, UNCHANGED pool, job' = [Job("validate", DOMAIN pool) EXCEPT !.metas = pool]
  PROVE  ValidateInv'
<1>1. /\ IsJob(job') /\ job'.current = {} /\ job'.restore = {} /\ job'.metas = pool
      /\ job'.todo = DOMAIN pool
  BY Zenon DEF Job, IsJob, JobFields
<1>2. IsTable(job'.metas)
  BY <1>1, Zenon DEF IInv, PoolInv
<1> QED
  BY <1>1, <1>2, Zenon DEF ValidateInv, IsTable, IsJob, IsMeta

\* A job other than a validation is plain and stays so when its list gets shorter.
LEMMA ShorterList ==
  ASSUME IInv, job.current = {}, job.restore = {}, job.kind # "validate", NEW todo,
         \/ job' = [job EXCEPT !.todo = todo]
         \/ \E pooled : job' = [job EXCEPT !.todo = todo, !.pooled = pooled]
  PROVE  Plain(job')
<1>1. /\ IsJob(job) /\ IsTable(job.metas)
  BY Zenon DEF IInv, ValidateInv
<1>2. /\ IsJob(job') /\ job'.kind = job.kind /\ job'.current = {} /\ job'.restore = {}
      /\ job'.metas = job.metas
  BY <1>1, Zenon DEF IsJob, JobFields
<1> QED
  BY <1>1, <1>2, Zenon DEF Plain

LEMMA RefusePlain ==
  ASSUME NEW pooled, Refuse(pooled)
  PROVE  Plain(job')
<1>1. /\ IsJob(job') /\ job'.kind = "return" /\ job'.current = {} /\ job'.restore = {}
      /\ job'.metas = NoMetas
  BY Zenon DEF Refuse, Job, IsJob, JobFields
<1>2. IsTable(NoMetas)
  BY Zenon DEF NoMetas, IsTable
<1> QED
  BY <1>1, <1>2, Zenon DEF Plain

----------------------------------------------------------------------------
(* The actions. *)

\* No entry that stays gets a lower relay method.
RelaysUp == \A u \in DOMAIN pool \cap DOMAIN pool' : RelayRank(pool'[u].relay) >= RelayRank(pool[u].relay)

Kept == IInv' /\ RelaysUp

LEMMA SameUp ==
  ASSUME PoolInv, \A u \in DOMAIN pool \cap DOMAIN pool' : pool'[u].relay = pool[u].relay
  PROVE  RelaysUp
<1>1. \A u \in DOMAIN pool : RelayRank(pool[u].relay) \in 1..6
  BY RankInt, Zenon DEF PoolInv, IsTable, IsMeta
<1> QED
  BY <1>1 DEF RelaysUp

LEMMA PoolUnchangedKeeps ==
  ASSUME IInv, UNCHANGED <<pool, m_spent_key_images, m_txs_by_fee, m_timed_out_transactions>>
  PROVE  PoolInv' /\ TimedOutOnlyByBlock' /\ RelaysUp
<1>1. PoolInv'
  BY PoolSame, Zenon DEF IInv
<1>2. TimedOutOnlyByBlock'
  BY Zenon DEF IInv, TimedOutOnlyByBlock, kept_by_block
<1>3. RelaysUp
  BY SameUp, Zenon DEF IInv
<1> QED
  BY <1>1, <1>2, <1>3, Zenon

LEMMA RelayTxKeeps ==
  ASSUME IInv, NEW t \in Txs, NEW relay \in Relays, RelayTx(t, relay)
  PROVE  Kept
<1>1. relay \in RelayMethods
  BY PoolAssumption, Zenon DEF PoolAssumption, RelayMethods
<1>2. PICK fee_good, added \in BOOLEAN : add_tx(t, relay, Version(chain), 0, fee_good, added)
  BY Zenon DEF RelayTx
<1>3. UNCHANGED <<m_timed_out_transactions, job>> /\ job = Idle
  BY Zenon DEF RelayTx, Locked
<1>4. PoolInv' /\ AddEffect(t, relay) /\ TimedOutOnlyByBlock'
  BY <1>1, <1>2, <1>3, AddStep, Zenon
<1>5. ValidateInv'
  BY <1>3, IdleJob, Zenon
<1> QED
  BY <1>4, <1>5, Zenon DEF Kept, IInv, RelaysUp, AddEffect

LEMMA SupplementTxKeeps ==
  ASSUME IInv, NEW t \in Txs, SupplementTx(t)
  PROVE  Kept
<1>1. PICK v \in {1, 2}, added \in BOOLEAN : add_tx(t, "block", v, v, TRUE, added)
  BY Zenon DEF SupplementTx
<1>2. UNCHANGED <<m_timed_out_transactions, job>> /\ job = Idle
  BY Zenon DEF SupplementTx, Locked
<1>3. PoolInv' /\ AddEffect(t, "block") /\ TimedOutOnlyByBlock'
  BY <1>1, <1>2, AddStep, Zenon DEF RelayMethods
<1>4. ValidateInv'
  BY <1>2, IdleJob, Zenon
<1> QED
  BY <1>3, <1>4, Zenon DEF Kept, IInv, RelaysUp, AddEffect

\* An update of meta data that does not lower a relay method.
LEMMA UpdateStep ==
  ASSUME IInv, IsTable(pool'), DOMAIN pool' = DOMAIN pool,
         RelaysUp,
         UNCHANGED <<m_spent_key_images, m_timed_out_transactions>>, m_txs_by_fee' = DOMAIN pool
  PROVE  PoolInv' /\ TimedOutOnlyByBlock'
<1>1. ASSUME NEW u \in DOMAIN pool, pool[u].relay = "block"
      PROVE  pool'[u].relay = "block"
  <2>1. RelayRank(pool'[u].relay) >= 6
    BY <1>1, RelayRanks, Zenon DEF RelaysUp
  <2>2. pool'[u].relay \in RelayMethods
    BY Zenon DEF IsTable, IsMeta
  <2> QED
    BY <2>1, <2>2, RelayRanks DEF RelayMethods
<1>2. Indexes(m_spent_key_images, pool') /\ InitAccepts(pool')
  BY <1>1, UpdateKeeps, Zenon DEF IInv
<1>3. PoolInv'
  BY <1>2, Zenon DEF PoolInv, Indexes, IsTable, InitAccepts, IsMeta
<1>4. TimedOutOnlyByBlock'
  BY <1>1, Zenon DEF IInv, TimedOutOnlyByBlock, kept_by_block
<1> QED
  BY <1>3, <1>4, Zenon

LEMMA SetRelayedKeeps ==
  ASSUME IInv, NEW t \in Txs, NEW relay \in Relays, SetRelayed(t, relay)
  PROVE  Kept
<1>1. relay \in RelayMethods
  BY PoolAssumption, Zenon DEF PoolAssumption, RelayMethods
<1>2. t \in DOMAIN pool /\ RelayRank(relay) > RelayRank(pool[t].relay) /\ pool' = [pool EXCEPT ![t].relay = relay]
  BY Zenon DEF SetRelayed
<1>3. IsTable(pool) /\ m_txs_by_fee = DOMAIN pool
  BY Zenon DEF IInv, PoolInv
<1>4. DOMAIN pool' = DOMAIN pool /\ \A u \in DOMAIN pool : u # t => pool'[u] = pool[u]
  BY <1>2, <1>3, Zenon DEF IsTable
<1>5. pool'[t] = [relay |-> relay, double_spend_seen |-> pool[t].double_spend_seen, last_failed_id |-> pool[t].last_failed_id]
  <2>1. pool'[t] = [pool[t] EXCEPT !.relay = relay]
    BY <1>2, <1>3, Zenon DEF IsTable
  <2> QED
    BY <2>1, <1>2, <1>3 DEF IsTable, IsMeta
<1>6. IsMeta(pool'[t])
  BY <1>1, <1>5 DEF IsMeta
<1>7. IsTable(pool')
  BY <1>2, <1>3, <1>4, <1>6, Zenon DEF IsTable
<1>8. RelaysUp
  <2>1. \A u \in DOMAIN pool : RelayRank(pool[u].relay) \in 1..6
    BY RankInt, Zenon DEF IInv, PoolInv, IsTable, IsMeta
  <2>2. RelayRank(relay) \in 1..6
    BY <1>1, RankInt, Zenon
  <2>3. pool'[t].relay = relay
    BY <1>5
  <2> QED
    BY <1>2, <1>4, <2>1, <2>2, <2>3 DEF RelaysUp
<1>9. m_txs_by_fee' = DOMAIN pool
  BY <1>2, <1>3, Zenon DEF SetRelayed
<1>10. PoolInv' /\ TimedOutOnlyByBlock'
  BY <1>4, <1>7, <1>8, <1>9, UpdateStep, Zenon DEF SetRelayed
<1>11. ValidateInv'
  BY IdleJob, Zenon DEF SetRelayed, Locked
<1> QED
  BY <1>8, <1>10, <1>11, Zenon DEF Kept, IInv

LEMMA RemoveStuckKeeps ==
  ASSUME IInv, NEW stuck \in SUBSET Txs, RemoveStuck(stuck)
  PROVE  Kept
<1>1. /\ PoolInv' /\ TimedOutOnlyByBlock'
      /\ DOMAIN pool' = DOMAIN pool \ stuck
      /\ \A u \in DOMAIN pool' : pool'[u] = pool[u]
  BY RemoveStep, Zenon DEF RemoveStuck
<1>2. RelaysUp
  BY <1>1, SameUp, Zenon DEF IInv
<1>3. ValidateInv'
  BY IdleJob, Zenon DEF RemoveStuck, Locked
<1> QED
  BY <1>1, <1>2, <1>3, Zenon DEF Kept, IInv

LEMMA TakeStep ==
  ASSUME IInv, NEW t \in Txs, take_tx(t), UNCHANGED m_timed_out_transactions
  PROVE  /\ PoolInv' /\ TimedOutOnlyByBlock' /\ RelaysUp
         /\ DOMAIN pool' = DOMAIN pool \ {t}
<1>1. /\ PoolInv' /\ TimedOutOnlyByBlock'
      /\ DOMAIN pool' = DOMAIN pool \ {t}
      /\ \A u \in DOMAIN pool' : pool'[u] = pool[u]
  BY RemoveStep, Zenon DEF take_tx
<1>2. RelaysUp
  BY <1>1, SameUp, Zenon DEF IInv
<1> QED
  BY <1>1, <1>2, Zenon

LEMMA FlushTxKeeps ==
  ASSUME IInv, NEW t \in Txs, FlushTx(t)
  PROVE  Kept
<1>1. PoolInv' /\ TimedOutOnlyByBlock' /\ RelaysUp
  BY TakeStep, Zenon DEF FlushTx
<1>2. ValidateInv'
  BY IdleJob, Zenon DEF FlushTx, Locked
<1> QED
  BY <1>1, <1>2, Zenon DEF Kept, IInv

LEMMA CreateBlockTemplateKeeps ==
  ASSUME IInv, CreateBlockTemplate
  PROVE  Kept
<1>1. PICK failed : pool' = [t \in DOMAIN pool |-> IF t \in failed THEN [pool[t] EXCEPT !.last_failed_id = chain]
                                                   ELSE pool[t]]
  BY Zenon DEF CreateBlockTemplate
<1>2. UNCHANGED <<m_spent_key_images, m_txs_by_fee, m_timed_out_transactions, job>> /\ job = Idle
  BY Zenon DEF CreateBlockTemplate, Locked
<1>3. IsTable(pool) /\ m_txs_by_fee = DOMAIN pool
  BY Zenon DEF IInv, PoolInv
<1>4. DOMAIN pool' = DOMAIN pool
  BY <1>1, Zenon
<1>5. ASSUME NEW u \in DOMAIN pool
      PROVE  IsMeta(pool'[u]) /\ pool'[u].relay = pool[u].relay
  <2>1. IsMeta(pool[u])
    BY <1>3, Zenon DEF IsTable
  <2>2. CASE u \in failed
    <3>1. pool'[u] = [pool[u] EXCEPT !.last_failed_id = chain]
      BY <1>1, <2>2, Zenon
    <3>2. pool'[u] = [relay |-> pool[u].relay, double_spend_seen |-> pool[u].double_spend_seen, last_failed_id |-> chain]
      BY <2>1, <3>1, Zenon DEF IsMeta
    <3> QED
      BY <2>1, <3>2 DEF IsMeta
  <2>3. CASE u \notin failed
    BY <1>1, <2>1, <2>3, Zenon
  <2> QED
    BY <2>2, <2>3, Zenon
<1>6. IsTable(pool')
  BY <1>1, <1>3, <1>4, <1>5, Zenon DEF IsTable
<1>7. RelaysUp
  BY <1>5, SameUp, Zenon DEF IInv
<1>8. PoolInv' /\ TimedOutOnlyByBlock'
  BY <1>2, <1>3, <1>4, <1>6, <1>7, UpdateStep, Zenon
<1>9. ValidateInv'
  BY <1>2, IdleJob, Zenon
<1> QED
  BY <1>7, <1>8, <1>9, Zenon DEF Kept, IInv

LEMMA RestartKeeps ==
  ASSUME IInv, Restart
  PROVE  Kept
<1>1. UNCHANGED <<pool, job>> /\ job = Idle
  BY Zenon DEF Restart, Locked
<1>2. PoolInv'
  BY <1>1, Zenon DEF IInv, PoolInv, Restart, Indexes, IsTable, InitAccepts, IsMeta
<1>3. TimedOutOnlyByBlock'
  BY Zenon DEF Restart, TimedOutOnlyByBlock
<1>4. RelaysUp
  BY <1>1, SameUp, Zenon DEF IInv
<1>5. ValidateInv'
  BY <1>1, IdleJob, Zenon
<1> QED
  BY <1>2, <1>3, <1>4, <1>5, Zenon DEF Kept, IInv

\* Steps that leave the pool alone and end in a plain job.
LEMMA PlainStep ==
  ASSUME IInv, UNCHANGED <<pool, m_spent_key_images, m_txs_by_fee, m_timed_out_transactions>>, Plain(job')
  PROVE  Kept
BY PoolUnchangedKeeps, PlainInv, Zenon DEF Kept, IInv

LEMMA BlockBeginKeeps ==
  ASSUME IInv, NEW b, NEW extra, BlockBegin(b, extra)
  PROVE  Kept
<1>1. Plain(job')
  <2>1. IsTable(NoMetas)
    BY Zenon DEF NoMetas, IsTable
  <2> QED
    BY <2>1, Zenon DEF BlockBegin, Job, Plain, IsJob, JobFields
<1> QED
  BY <1>1, PlainStep, Zenon DEF BlockBegin, PoolUnchanged

LEMMA PopBeginKeeps ==
  ASSUME IInv, PopBegin
  PROVE  Kept
<1>1. Plain(job')
  <2>1. IsTable(NoMetas)
    BY Zenon DEF NoMetas, IsTable
  <2> QED
    BY <2>1, Zenon DEF PopBegin, Job, Plain, IsJob, JobFields
<1> QED
  BY <1>1, PlainStep, Zenon DEF PopBegin, PoolUnchanged

LEMMA BlockTxKeeps ==
  ASSUME IInv, NEW t \in Txs, BlockTx(t)
  PROVE  Kept
<1>1. job.kind = "block" /\ job.current = {} /\ job.restore = {}
  BY Zenon DEF BlockTx, IInv, ValidateInv
<1>2. Plain(job')
  BY <1>1, RefusePlain, ShorterList, Zenon DEF BlockTx
<1>3. UNCHANGED m_timed_out_transactions
  BY Zenon DEF BlockTx
<1>4. CASE PoolUnchanged
  BY <1>2, <1>3, <1>4, PlainStep, Zenon DEF PoolUnchanged
<1>5. CASE take_tx(t)
  BY <1>2, <1>3, <1>5, TakeStep, PlainInv, Zenon DEF Kept, IInv
<1> QED
  BY <1>4, <1>5, Zenon DEF BlockTx

\* After a change of the chain: either nothing is left to do or validate starts.
LEMMA ChainChangeKeeps ==
  ASSUME IInv, UNCHANGED <<pool, m_spent_key_images, m_txs_by_fee, m_timed_out_transactions>>,
         job' = Idle \/ job' = [Job("validate", DOMAIN pool) EXCEPT !.metas = pool]
  PROVE  Kept
<1>1. PoolInv' /\ TimedOutOnlyByBlock' /\ RelaysUp
  BY PoolUnchangedKeeps, Zenon
<1>2. ValidateInv'
  <2>1. CASE job' = Idle
    BY <2>1, IdlePlain, PlainInv, Zenon
  <2>2. CASE job' = [Job("validate", DOMAIN pool) EXCEPT !.metas = pool]
    BY <2>2, ValidateStarts, Zenon
  <2> QED
    BY <2>1, <2>2, Zenon
<1> QED
  BY <1>1, <1>2, Zenon DEF Kept, IInv

LEMMA BlockEndKeeps ==
  ASSUME IInv, BlockRefused \/ BlockConnected \/ ReturnDone \/ PopDone
  PROVE  Kept
<1>1. CASE BlockRefused
  <2>1. Plain(job')
    BY <1>1, RefusePlain, Zenon DEF BlockRefused
  <2> QED
    BY <1>1, <2>1, PlainStep, Zenon DEF BlockRefused, PoolUnchanged
<1>2. CASE BlockConnected
  BY <1>2, ChainChangeKeeps, Zenon DEF BlockConnected, AfterChainChange
<1>3. CASE ReturnDone
  BY <1>3, ChainChangeKeeps, Zenon DEF ReturnDone, PoolUnchanged
<1>4. CASE PopDone
  BY <1>4, ChainChangeKeeps, Zenon DEF PopDone
<1> QED
  BY <1>1, <1>2, <1>3, <1>4, Zenon

\* A step of a job that adds t for a block and shortens the list.
LEMMA BlockAddKeeps ==
  ASSUME IInv, NEW t \in Txs, ReturnTx(t) \/ PopTx(t)
  PROVE  Kept
<1>1. PICK added \in BOOLEAN : add_tx(t, "block", Version(chain), Version(chain), TRUE, added)
  BY Zenon DEF ReturnTx, PopTx
<1>2. /\ job.kind # "validate" /\ job' = [job EXCEPT !.todo = job.todo \ {t}]
      /\ UNCHANGED m_timed_out_transactions
  BY Zenon DEF ReturnTx, PopTx
<1>3. job.current = {} /\ job.restore = {}
  BY <1>2, Zenon DEF IInv, ValidateInv
<1>4. ValidateInv'
  BY <1>2, <1>3, ShorterList, PlainInv, Zenon
<1>5. PoolInv' /\ AddEffect(t, "block") /\ TimedOutOnlyByBlock'
  BY <1>1, <1>2, AddStep, Zenon DEF RelayMethods
<1> QED
  BY <1>4, <1>5, Zenon DEF Kept, IInv, RelaysUp, AddEffect

LEMMA ValidateTakeKeeps ==
  ASSUME IInv, NEW t \in Txs, ValidateTake(t)
  PROVE  Kept
<1>1. /\ job.kind = "validate" /\ job.current = {} /\ job.restore = {} /\ t \in job.todo
      /\ UNCHANGED m_timed_out_transactions
  BY Zenon DEF ValidateTake
<1>2. /\ IsJob(job) /\ IsTable(job.metas) /\ job.todo \subseteq DOMAIN job.metas
  BY <1>1, Zenon DEF IInv, ValidateInv
<1>3. CASE t \in DOMAIN pool
  <2>1. take_tx(t) /\ job' = [job EXCEPT !.todo = job.todo \ {t}, !.current = {t}]
    BY <1>3, Zenon DEF ValidateTake
  <2>2. /\ PoolInv' /\ TimedOutOnlyByBlock' /\ RelaysUp
        /\ DOMAIN pool' = DOMAIN pool \ {t}
    BY <1>1, <2>1, TakeStep, Zenon
  <2>3. /\ IsJob(job') /\ job'.kind = "validate" /\ job'.todo = job.todo \ {t} /\ job'.current = {t}
        /\ job'.restore = {} /\ job'.metas = job.metas
    BY <1>1, <1>2, <2>1, Zenon DEF IsJob, JobFields
  <2>4. ValidateInv'
    BY <1>1, <1>2, <2>2, <2>3, Zenon DEF ValidateInv, IsTable, IsJob, IsMeta
  <2> QED
    BY <2>2, <2>4, Zenon DEF Kept, IInv
<1>4. CASE t \notin DOMAIN pool
  <2>1. PoolUnchanged /\ job' = [job EXCEPT !.todo = job.todo \ {t}]
    BY <1>4, Zenon DEF ValidateTake
  <2>2. PoolInv' /\ TimedOutOnlyByBlock' /\ RelaysUp
    BY <1>1, <2>1, PoolUnchangedKeeps, Zenon DEF PoolUnchanged
  <2>3. /\ IsJob(job') /\ job'.kind = "validate" /\ job'.todo = job.todo \ {t} /\ job'.current = {}
        /\ job'.restore = {} /\ job'.metas = job.metas
    BY <1>1, <1>2, <2>1, Zenon DEF IsJob, JobFields
  <2>4. ValidateInv'
    BY <1>1, <1>2, <2>3, Zenon DEF ValidateInv, IsTable, IsJob, IsMeta
  <2> QED
    BY <2>2, <2>4, Zenon DEF Kept, IInv
<1> QED
  BY <1>3, <1>4, Zenon

LEMMA ValidateAddKeeps ==
  ASSUME IInv, NEW t \in Txs, ValidateAdd(t)
  PROVE  Kept
<1> DEFINE relay == job.metas[t].relay
<1>1. /\ job.kind = "validate" /\ job.current = {t} /\ UNCHANGED m_timed_out_transactions
  BY Zenon DEF ValidateAdd
<1>2. /\ IsJob(job) /\ IsTable(job.metas) /\ job.todo \subseteq DOMAIN job.metas
      /\ t \in DOMAIN job.metas /\ t \notin DOMAIN pool
  BY <1>1, Zenon DEF IInv, ValidateInv
<1>3. relay \in RelayMethods
  BY <1>2, Zenon DEF IsTable, IsMeta
<1>4. PICK fee_good, added \in BOOLEAN :
        /\ add_tx(t, relay, Version(chain), 0, fee_good, added)
        /\ job' = [job EXCEPT !.current = {}, !.restore = IF added THEN {t} ELSE {}]
  BY Zenon DEF ValidateAdd
<1>5. PoolInv' /\ AddEffect(t, relay) /\ TimedOutOnlyByBlock'
  <2> HIDE DEF relay
  <2> QED BY <1>1, <1>3, <1>4, AddStep, Zenon
<1>6. /\ IsJob(job') /\ job'.kind = "validate" /\ job'.todo = job.todo /\ job'.current = {}
      /\ job'.restore \subseteq {t} /\ job'.metas = job.metas
  BY <1>1, <1>2, <1>4, Zenon DEF IsJob, JobFields
<1>7. \A u \in job'.restore \cap DOMAIN pool' : pool'[u].relay = job'.metas[u].relay
  BY <1>2, <1>5, <1>6, Zenon DEF AddEffect
<1>8. ValidateInv'
  BY <1>2, <1>6, <1>7, Zenon DEF ValidateInv, IsTable, IsJob, IsMeta
<1> QED
  BY <1>5, <1>8, Zenon DEF Kept, IInv, RelaysUp, AddEffect

LEMMA ValidateRestoreKeeps ==
  ASSUME IInv, NEW t \in Txs, ValidateRestore(t)
  PROVE  Kept
<1>1. /\ job.kind = "validate" /\ job.restore = {t}
      /\ pool' = IF t \in DOMAIN pool THEN [pool EXCEPT ![t] = job.metas[t]] ELSE pool
      /\ job' = [job EXCEPT !.restore = {}]
      /\ UNCHANGED <<m_spent_key_images, m_txs_by_fee, m_timed_out_transactions>>
  BY Zenon DEF ValidateRestore
<1>2. /\ IsJob(job) /\ IsTable(job.metas) /\ job.todo \subseteq DOMAIN job.metas
      /\ t \in DOMAIN job.metas /\ job.current \subseteq DOMAIN job.metas /\ job.current \cap DOMAIN pool = {}
      /\ t \in DOMAIN pool => pool[t].relay = job.metas[t].relay
  BY <1>1, Zenon DEF IInv, ValidateInv
<1>3. IsTable(pool) /\ m_txs_by_fee = DOMAIN pool
  BY Zenon DEF IInv, PoolInv
<1>4. DOMAIN pool' = DOMAIN pool
  BY <1>1, <1>3, Zenon DEF IsTable
<1>5. \A u \in DOMAIN pool : IsMeta(pool'[u]) /\ pool'[u].relay = pool[u].relay
  BY <1>1, <1>2, <1>3, Zenon DEF IsTable
<1>6. IsTable(pool')
  BY <1>1, <1>3, <1>4, <1>5, Zenon DEF IsTable
<1>7. RelaysUp
  BY <1>5, SameUp, Zenon DEF IInv
<1>8. PoolInv' /\ TimedOutOnlyByBlock'
  BY <1>1, <1>3, <1>4, <1>6, <1>7, UpdateStep, Zenon
<1>9. /\ IsJob(job') /\ job'.kind = "validate" /\ job'.todo = job.todo /\ job'.current = job.current
      /\ job'.restore = {} /\ job'.metas = job.metas
  BY <1>1, <1>2, Zenon DEF IsJob, JobFields
<1>10. ValidateInv'
  BY <1>2, <1>4, <1>9, Zenon DEF ValidateInv, IsTable, IsJob, IsMeta
<1> QED
  BY <1>7, <1>8, <1>10, Zenon DEF Kept, IInv

LEMMA ValidateDoneKeeps ==
  ASSUME IInv, ValidateDone
  PROVE  Kept
BY ChainChangeKeeps, Zenon DEF ValidateDone

----------------------------------------------------------------------------
(* The theorems. *)

LEMMA InitInv == Init => IInv
<1> SUFFICES ASSUME Init PROVE IInv
  BY Zenon
<1>1. IsTable(pool) /\ DOMAIN pool = {}
  BY Zenon DEF Init, NoMetas, IsTable
<1>2. PoolInv
  BY <1>1, Zenon DEF Init, PoolInv, Indexes, InitAccepts
<1>3. ValidateInv
  BY IdlePlain, Zenon DEF Init, Plain, ValidateInv
<1>4. TimedOutOnlyByBlock
  BY Zenon DEF Init, TimedOutOnlyByBlock
<1> QED
  BY <1>2, <1>3, <1>4, Zenon DEF IInv

LEMMA JobStepKeeps ==
  ASSUME IInv, JobStep
  PROVE  Kept
<1>1. ASSUME NEW t \in Txs, BlockTx(t) PROVE Kept
  BY <1>1, BlockTxKeeps, Zenon
<1>2. ASSUME NEW t \in Txs, ReturnTx(t) \/ PopTx(t) PROVE Kept
  BY <1>2, BlockAddKeeps, Zenon
<1>3. ASSUME NEW t \in Txs, ValidateTake(t) PROVE Kept
  BY <1>3, ValidateTakeKeeps, Zenon
<1>4. ASSUME NEW t \in Txs, ValidateAdd(t) PROVE Kept
  BY <1>4, ValidateAddKeeps, Zenon
<1>5. ASSUME NEW t \in Txs, ValidateRestore(t) PROVE Kept
  BY <1>5, ValidateRestoreKeeps, Zenon
<1> QED
  BY <1>1, <1>2, <1>3, <1>4, <1>5, BlockEndKeeps, ValidateDoneKeeps, Zenon DEF JobStep

LEMMA NextKeeps ==
  ASSUME IInv, Next
  PROVE  Kept
<1>1. ASSUME NEW t \in Txs, NEW relay \in Relays, RelayTx(t, relay) PROVE Kept
  BY <1>1, RelayTxKeeps, Zenon
<1>2. ASSUME NEW t \in Txs, NEW relay \in Relays, SetRelayed(t, relay) PROVE Kept
  BY <1>2, SetRelayedKeeps, Zenon
<1>3. ASSUME NEW t \in Txs, SupplementTx(t) PROVE Kept
  BY <1>3, SupplementTxKeeps, Zenon
<1>4. ASSUME NEW t \in Txs, FlushTx(t) PROVE Kept
  BY <1>4, FlushTxKeeps, Zenon
<1>5. ASSUME NEW stuck \in SUBSET Txs, RemoveStuck(stuck) PROVE Kept
  BY <1>5, RemoveStuckKeeps, Zenon
<1>6. ASSUME NEW b \in Blocks, NEW extra \in SUBSET b, BlockBegin(b, extra) PROVE Kept
  BY <1>6, BlockBeginKeeps, Zenon
<1> QED
  BY <1>1, <1>2, <1>3, <1>4, <1>5, <1>6, CreateBlockTemplateKeeps, PopBeginKeeps, RestartKeeps, JobStepKeeps, Zenon DEF Next

LEMMA StutterKeeps ==
  ASSUME IInv, UNCHANGED vars
  PROVE  IInv'
<1>1. PoolInv' /\ TimedOutOnlyByBlock'
  BY PoolUnchangedKeeps, Zenon DEF vars
<1>2. ValidateInv'
  BY Zenon DEF vars, IInv, ValidateInv, IsTable, IsJob, IsMeta
<1> QED
  BY <1>1, <1>2, Zenon DEF IInv

\* The inductive invariant holds in every reachable state of the pool, for every set of
\* transactions, fork height and size limit.
THEOREM PoolInvariant == Spec => []IInv
<1>1. Init => IInv
  BY InitInv, Zenon
<1>2. IInv /\ [Next]_vars => IInv'
  BY NextKeeps, StutterKeeps, Zenon DEF Kept
<1> QED
  BY <1>1, <1>2, PTL DEF Spec

\* The index of spent key images is exactly that of the pool's transactions, through
\* add_tx, take_tx, prune, validate, time-outs, pops, refused blocks and restarts.
THEOREM KeyImages_Indexed == Spec => []KeyImageIndex
<1>1. IInv => KeyImageIndex
  BY Zenon DEF IInv, PoolInv, Indexes, KeyImageIndex
<1> QED
  BY <1>1, PoolInvariant, PTL

\* No two relayed transactions of the pool spend one key image, so tx_memory_pool::init
\* never refuses the table that an earlier run of the node left.
THEOREM RestartAccepted == Spec => []OneRelayedSpender
<1>1. IInv => OneRelayedSpender
  BY Zenon DEF IInv, PoolInv, OneRelayedSpender
<1> QED
  BY <1>1, PoolInvariant, PTL

\* The container that mining and pruning walk holds the transactions of the table.
THEOREM SortedIsPool == Spec => []SortedMatchesPool
<1>1. IInv => SortedMatchesPool
  BY Zenon DEF IInv, PoolInv, SortedMatchesPool
<1> QED
  BY <1>1, PoolInvariant, PTL

\* A transaction that timed out is only in the pool because a block had it.
THEOREM TimedOut == Spec => []TimedOutOnlyByBlock
<1>1. IInv => TimedOutOnlyByBlock
  BY Zenon DEF IInv
<1> QED
  BY <1>1, PoolInvariant, PTL

\* No step gives an entry that stays in the pool a lower relay method: what is public
\* stays public, whatever order its copies arrive in.
THEOREM RelayMonotone == Spec => RelayNeverDowngraded
<1>1. IInv /\ [Next]_vars =>
        [\A t \in DOMAIN pool \cap DOMAIN pool' : RelayRank(pool'[t].relay) >= RelayRank(pool[t].relay)]_vars
  BY NextKeeps, Zenon DEF Kept, RelaysUp
<1> QED
  BY <1>1, PoolInvariant, PTL DEF Spec, RelayNeverDowngraded

----------------------------------------------------------------------------
(* The cache of input checks. *)

\* What a step may do to the cache while the chain stays: add results, or forget them.
CacheStep ==
  /\ chain' = chain
  /\ \A t \in DOMAIN m_input_cache' :
       \/ t \in DOMAIN m_input_cache /\ m_input_cache'[t] = m_input_cache[t]
       \/ m_input_cache'[t] = InputsOK(t)

LEMMA CacheStepKeeps ==
  ASSUME InputCacheCoherent, job.kind # "pop", CacheStep
  PROVE  InputCacheCoherent'
<1>1. \A t : InputsOK(t)' <=> InputsOK(t)
  BY DEF CacheStep, InputsOK, Mined, Spent, Version
<1>2. \A t \in DOMAIN m_input_cache' : m_input_cache'[t] = InputsOK(t)
  BY Zenon DEF InputCacheCoherent, CacheStep
<1> QED
  BY <1>1, <1>2, Zenon DEF InputCacheCoherent

LEMMA SameCache ==
  ASSUME UNCHANGED <<chain, m_input_cache>>
  PROVE  CacheStep
BY Zenon DEF CacheStep

\* check_tx_inputs stores what it finds out.
LEMMA AddCache ==
  ASSUME NEW t, NEW relay, NEW version, NEW nic, NEW fee_good, NEW added,
         add_tx(t, relay, version, nic, fee_good, added), chain' = chain
  PROVE  CacheStep
<1>1. CASE m_input_cache' = m_input_cache
  BY <1>1, SameCache, Zenon
<1>2. CASE m_input_cache' = With(m_input_cache, t, InputsOK(t))
  <2>1. /\ DOMAIN m_input_cache' = DOMAIN m_input_cache \cup {t}
        /\ m_input_cache'[t] = InputsOK(t)
        /\ \A u \in DOMAIN m_input_cache : u # t => m_input_cache'[u] = m_input_cache[u]
    BY <1>2, Zenon DEF With
  <2> QED
    BY <2>1, Zenon DEF CacheStep
<1>3. m_input_cache' = m_input_cache \/ m_input_cache' = With(m_input_cache, t, InputsOK(t))
  BY Zenon DEF add_tx, CacheWith
<1> QED
  BY <1>1, <1>2, <1>3, Zenon

\* A cache without entries is right whatever the chain.
LEMMA EmptyCache ==
  ASSUME m_input_cache' = NoMetas
  PROVE  InputCacheCoherent'
BY Zenon DEF NoMetas, InputCacheCoherent

LEMMA TemplateCache ==
  ASSUME InputCacheCoherent, CreateBlockTemplate
  PROVE  CacheStep
<1>1. PICK fresh : m_input_cache' = [t \in DOMAIN m_input_cache \cup fresh |-> check_tx_inputs(t, FALSE)]
  BY Zenon DEF CreateBlockTemplate
<1>2. chain' = chain
  BY Zenon DEF CreateBlockTemplate
<1>3. \A t \in DOMAIN m_input_cache' : m_input_cache'[t] = IF t \in DOMAIN m_input_cache THEN m_input_cache[t] ELSE InputsOK(t)
  BY <1>1, Zenon DEF check_tx_inputs
<1> QED
  BY <1>2, <1>3, Zenon DEF CacheStep

\* Nothing but the end of a pop leaves the kind "pop".
LEMMA NextCache ==
  ASSUME IInv, InputCacheCoherent, [Next]_vars
  PROVE  InputCacheCoherent'
<1>1. IsJob(job)
  BY Zenon DEF IInv, ValidateInv
<1>2. ASSUME job.kind = "pop", job'.kind = "pop" PROVE InputCacheCoherent'
  BY <1>2, Zenon DEF InputCacheCoherent
<1>3. Idle.kind = "idle"
  BY Zenon DEF Idle, Job
<1>4. ASSUME ~Locked, CacheStep PROVE InputCacheCoherent'
  BY <1>3, <1>4, CacheStepKeeps, Zenon DEF Locked
<1>5. ASSUME NEW t \in Txs, NEW relay \in Relays, RelayTx(t, relay) PROVE InputCacheCoherent'
  BY <1>4, <1>5, AddCache, Zenon DEF RelayTx
<1>6. ASSUME NEW t \in Txs, NEW relay \in Relays, SetRelayed(t, relay) PROVE InputCacheCoherent'
  BY <1>4, <1>6, SameCache, Zenon DEF SetRelayed
<1>7. ASSUME NEW t \in Txs, SupplementTx(t) PROVE InputCacheCoherent'
  BY <1>4, <1>7, AddCache, Zenon DEF SupplementTx
<1>8. ASSUME NEW t \in Txs, FlushTx(t) PROVE InputCacheCoherent'
  BY <1>4, <1>8, SameCache, Zenon DEF FlushTx
<1>9. ASSUME NEW stuck \in SUBSET Txs, RemoveStuck(stuck) PROVE InputCacheCoherent'
  BY <1>4, <1>9, SameCache, Zenon DEF RemoveStuck
<1>10. CASE CreateBlockTemplate
  BY <1>4, <1>10, TemplateCache, Zenon DEF CreateBlockTemplate
<1>11. ASSUME NEW b \in Blocks, NEW extra \in SUBSET b, BlockBegin(b, extra) PROVE InputCacheCoherent'
  BY <1>4, <1>11, SameCache, Zenon DEF BlockBegin
<1>12. CASE PopBegin
  <2>1. job'.kind = "pop"
    BY <1>12, Zenon DEF PopBegin, Job
  <2> QED
    BY <2>1, Zenon DEF InputCacheCoherent
<1>13. CASE Restart \/ BlockConnected \/ PopDone
  BY <1>13, EmptyCache, Zenon DEF Restart, BlockConnected, PopDone
<1>14. ASSUME NEW t \in Txs, BlockTx(t) PROVE InputCacheCoherent'
  BY <1>14, CacheStepKeeps, SameCache, Zenon DEF BlockTx
<1>15. ASSUME NEW t \in Txs, ReturnTx(t) PROVE InputCacheCoherent'
  BY <1>15, CacheStepKeeps, AddCache, Zenon DEF ReturnTx
<1>16. ASSUME NEW t \in Txs, PopTx(t) PROVE InputCacheCoherent'
  <2>1. job.kind = "pop" /\ job' = [job EXCEPT !.todo = @ \ {t}]
    BY <1>16, Zenon DEF PopTx
  <2>2. job'.kind = "pop"
    BY <1>1, <2>1, Zenon DEF IsJob, JobFields
  <2> QED
    BY <1>2, <2>1, <2>2, Zenon
<1>17. ASSUME NEW t \in Txs, ValidateTake(t) \/ ValidateRestore(t) PROVE InputCacheCoherent'
  BY <1>17, CacheStepKeeps, SameCache, Zenon DEF ValidateTake, ValidateRestore
<1>18. ASSUME NEW t \in Txs, ValidateAdd(t) PROVE InputCacheCoherent'
  <2>1. job.kind = "validate" /\ CacheStep
    BY <1>18, AddCache, Zenon DEF ValidateAdd
  <2> QED
    BY <2>1, CacheStepKeeps, Zenon
<1>19. CASE BlockRefused \/ ReturnDone \/ ValidateDone
  BY <1>19, CacheStepKeeps, SameCache, Zenon DEF BlockRefused, ReturnDone, ValidateDone
<1>20. CASE UNCHANGED vars
  <2>1. job' = job /\ CacheStep
    BY <1>20, SameCache, Zenon DEF vars
  <2> QED
    BY <1>2, <2>1, CacheStepKeeps, Zenon
<1>21. CASE JobStep
  BY <1>13, <1>14, <1>15, <1>16, <1>17, <1>18, <1>19, <1>21, Zenon DEF JobStep
<1> QED
  BY <1>5, <1>6, <1>7, <1>8, <1>9, <1>10, <1>11, <1>12, <1>13, <1>20, <1>21, Zenon DEF Next

\* What check_tx_inputs finds in its cache is what it would find out on the chain as it is now: the two
\* changes of the chain, on_blockchain_inc and on_blockchain_dec, empty the cache, and nothing reads it
\* between the pop of a block and the second of them.
THEOREM CacheIsCoherent == Spec => []InputCacheCoherent
<1>1. Init => InputCacheCoherent
  BY Zenon DEF Init, NoMetas, InputCacheCoherent
<1>2. IInv /\ InputCacheCoherent /\ [Next]_vars => InputCacheCoherent'
  BY NextCache, Zenon
<1> QED
  BY <1>1, <1>2, PoolInvariant, PTL DEF Spec

----------------------------------------------------------------------------
(* The version whose rules the pool meets. *)

\* While a block is popped, that of the chain with the block.
Due == IF job.kind = "pop" THEN Version(Append(chain, job.block)) ELSE Version(chain)

\* What validate still has to look at.
Late == IF job.kind = "validate" THEN job.todo ELSE {}

MeetsDue(t) == kept_by_block(t) \/ t \in accepted[Due]

VersionInv ==
  /\ chain \in Seq(Blocks)
  /\ job.kind = "block" => job.block \in Blocks
  /\ \A t \in DOMAIN pool \ Late : MeetsDue(t)

\* What a step has to show: who is new in the pool, or no longer late, meets the rules.
LEMMA MeetsKept ==
  ASSUME IInv, Kept, VersionInv, Due' = Due,
         \A t \in DOMAIN pool' \ Late' :
           t \in DOMAIN pool \ Late \/ pool'[t].relay = "block" \/ t \in accepted[Due]
  PROVE  \A t \in DOMAIN pool' \ Late' : MeetsDue(t)'
<1> SUFFICES ASSUME NEW t \in DOMAIN pool' \ Late', t \in DOMAIN pool \ Late, t \notin accepted[Due]
             PROVE  pool'[t].relay = "block"
  BY Zenon DEF MeetsDue, kept_by_block
<1>1. pool[t].relay = "block"
  BY Zenon DEF VersionInv, MeetsDue, kept_by_block
<1>2. RelayRank(pool'[t].relay) >= RelayRank(pool[t].relay)
  BY Zenon DEF Kept, RelaysUp
<1>3. pool'[t].relay \in RelayMethods
  BY Zenon DEF Kept, IInv, PoolInv, IsTable, IsMeta
<1> QED
  BY <1>1, <1>2, <1>3, RelayRanks DEF RelayMethods

LEMMA Versions ==
  ASSUME NEW c
  PROVE  Version(c) \in {1, 2}
BY Zenon DEF Version

\* add_tx lets nothing new in that the version's rules refuse, unless it is told that the rules were
\* checked already.
LEMMA AddAccepted ==
  ASSUME NEW t, NEW relay, NEW version, NEW nic, NEW fee_good, NEW added, version # nic,
         add_tx(t, relay, version, nic, fee_good, added), t \notin DOMAIN pool, t \in DOMAIN pool'
  PROVE  t \in accepted[version]
<1>1. CASE RefusedAtOnce(t, relay = "block", version, nic, fee_good)
  BY <1>1, Zenon DEF add_tx
<1>2. CASE ~RefusedAtOnce(t, relay = "block", version, nic, fee_good)
  BY <1>2, Zenon DEF RefusedAtOnce
<1> QED
  BY <1>1, <1>2, Zenon

\* A step that leaves the chain and the kind of job, outside validate, and lets in only what it may.
LEMMA PlainVersion ==
  ASSUME IInv, Kept, VersionInv, UNCHANGED <<chain, job>>, job.kind # "validate",
         \A t \in DOMAIN pool' : t \in DOMAIN pool \/ pool'[t].relay = "block" \/ t \in accepted[Due]
  PROVE  VersionInv'
<1>1. Due' = Due /\ Late' = {} /\ Late = {}
  BY Zenon DEF Due, Late
<1>2. \A t \in DOMAIN pool' \ Late' : MeetsDue(t)'
  BY <1>1, MeetsKept, Zenon
<1> QED
  BY <1>2, Zenon DEF VersionInv

\* The same for a step of a job that goes on, or ends, on the same chain.
LEMMA JobVersion ==
  ASSUME IInv, Kept, VersionInv, chain' = chain, job.kind # "validate", job'.kind # "validate",
         job.kind = "pop" => job'.kind = "pop" /\ job'.block = job.block,
         job'.kind = "pop" => job.kind = "pop",
         job'.kind = "block" => job'.block \in Blocks,
         \A t \in DOMAIN pool' : t \in DOMAIN pool \/ pool'[t].relay = "block"
  PROVE  VersionInv'
<1>1. Due' = Due /\ Late' = {} /\ Late = {}
  BY Zenon DEF Due, Late, Version
<1>2. \A t \in DOMAIN pool' \ Late' : MeetsDue(t)'
  BY <1>1, MeetsKept, Zenon
<1> QED
  BY <1>2, Zenon DEF VersionInv

\* A validation that begins has everything still to do.
LEMMA ValidateBegins ==
  ASSUME VersionInv, chain' \in Seq(Blocks), pool' = pool,
         job' = [Job("validate", DOMAIN pool) EXCEPT !.metas = pool]
  PROVE  VersionInv'
<1>1. job'.kind = "validate" /\ job'.todo = DOMAIN pool
  BY Zenon DEF Job
<1>2. Late' = DOMAIN pool'
  BY <1>1, Zenon DEF Late
<1> QED
  BY <1>1, <1>2, Zenon DEF VersionInv

\* The end of a change of the chain: without validation the version is the one the pool meets.
LEMMA ChangeVersion ==
  ASSUME IInv, Kept, VersionInv, chain' \in Seq(Blocks), pool' = pool, job' = Idle, job.kind # "validate",
         Version(chain') = Due
  PROVE  VersionInv'
<1>1. job'.kind = "idle"
  BY Zenon DEF Idle, Job
<1>2. Due' = Due /\ Late = {} /\ Late' = {}
  BY <1>1, Zenon DEF Due, Late, Version
<1>3. \A t \in DOMAIN pool' \ Late' : MeetsDue(t)'
  BY <1>2, MeetsKept, Zenon
<1> QED
  BY <1>1, <1>3, Zenon DEF VersionInv

LEMMA BlockConnectedVersion ==
  ASSUME IInv, Kept, VersionInv, BlockConnected
  PROVE  VersionInv'
<1>1. job.kind = "block" /\ pool' = pool /\ chain' = Append(chain, job.block)
  BY Zenon DEF BlockConnected
<1>2. chain' \in Seq(Blocks)
  BY <1>1 DEF VersionInv
<1>3. Due = Version(chain)
  BY <1>1, Zenon DEF Due
<1>4. CASE Version(chain') # Version(chain)
  BY <1>1, <1>2, <1>4, ValidateBegins, Zenon DEF BlockConnected, AfterChainChange
<1>5. CASE Version(chain') = Version(chain)
  BY <1>1, <1>2, <1>3, <1>5, ChangeVersion, Zenon DEF BlockConnected, AfterChainChange
<1> QED
  BY <1>4, <1>5, Zenon

LEMMA PopDoneVersion ==
  ASSUME IInv, Kept, VersionInv, PopDone
  PROVE  VersionInv'
<1>1. job.kind = "pop" /\ pool' = pool /\ chain' = chain
  BY Zenon DEF PopDone
<1>2. chain' \in Seq(Blocks)
  BY <1>1, Zenon DEF VersionInv
<1>3. Due = Version(Append(chain, job.block))
  BY <1>1, Zenon DEF Due
<1>4. CASE Version(Append(chain, job.block)) # Version(chain)
  BY <1>2, <1>1, <1>4, ValidateBegins, Zenon DEF PopDone
<1>5. CASE Version(Append(chain, job.block)) = Version(chain)
  <2>1. job' = Idle
    BY <1>5, Zenon DEF PopDone
  <2>2. Version(chain') = Due
    BY <1>1, <1>3, <1>5, Zenon
  <2> QED
    BY <1>1, <1>2, <2>1, <2>2, ChangeVersion, Zenon
<1> QED
  BY <1>4, <1>5, Zenon

\* A popped block put back gives a chain of the same length.
LEMMA PopLength ==
  ASSUME NEW S, NEW c \in Seq(S), c # <<>>, NEW b
  PROVE  /\ SubSeq(c, 1, Len(c) - 1) \in Seq(S)
         /\ Len(Append(SubSeq(c, 1, Len(c) - 1), b)) = Len(c)
<1>1. Len(c) \in Nat /\ Len(c) >= 1
  OBVIOUS
<1>2. SubSeq(c, 1, Len(c) - 1) \in Seq(S) /\ Len(SubSeq(c, 1, Len(c) - 1)) = Len(c) - 1
  <2> DEFINE n == Len(c) - 1
  <2>1. n \in Nat /\ n <= Len(c)
    BY <1>1
  <2> HIDE DEF n
  <2>2. \A i \in 1..n : c[i] \in S
    BY <2>1, <1>1
  <2>3. SubSeq(c, 1, n) = [i \in 1..n |-> c[i]]
    BY <2>1
  <2>4. [i \in 1..n |-> c[i]] \in Seq(S) /\ Len([i \in 1..n |-> c[i]]) = n
    BY <2>1, <2>2
  <2> QED
    BY <2>3, <2>4, Zenon DEF n
<1>3. SubSeq(c, 1, Len(c) - 1) \in Seq(S \cup {b})
  BY <1>2
<1> QED
  BY <1>1, <1>2, <1>3

LEMMA PopBeginVersion ==
  ASSUME IInv, Kept, VersionInv, PopBegin
  PROVE  VersionInv'
<1>1. job.kind = "idle"
  BY DEF PopBegin, Locked, Idle, Job
<1>2. job'.kind = "pop" /\ job'.block = chain[Len(chain)] /\ pool' = pool
  BY Zenon DEF PopBegin, Job, PoolUnchanged
<1>3. /\ chain \in Seq(Blocks) /\ chain # <<>>
      /\ chain' = SubSeq(chain, 1, Len(chain) - 1)
  BY Zenon DEF PopBegin, VersionInv
<1>4. chain' \in Seq(Blocks) /\ Len(Append(chain', job'.block)) = Len(chain)
  BY <1>3, PopLength, Zenon
<1>5. Due' = Version(Append(chain', job'.block)) /\ Due = Version(chain)
  BY <1>1, <1>2, Zenon DEF Due, Version
<1>6. Due' = Due
  BY <1>4, <1>5, Zenon DEF Version
<1>7. Late = {} /\ Late' = {}
  BY <1>1, <1>2, Zenon DEF Late
<1>8. \A t \in DOMAIN pool' \ Late' : MeetsDue(t)'
  BY <1>2, <1>6, <1>7, MeetsKept, Zenon
<1> QED
  BY <1>2, <1>4, <1>8, Zenon DEF VersionInv

\* A step of validate on the same chain.
LEMMA ValidateVersion ==
  ASSUME IInv, Kept, VersionInv, chain' = chain, job.kind = "validate", job'.kind = "validate",
         \A t \in DOMAIN pool' : t \notin job'.todo =>
           (t \in DOMAIN pool /\ t \notin job.todo) \/ t \in accepted[Version(chain)]
  PROVE  VersionInv'
<1>1. Due' = Due /\ Due = Version(chain) /\ Late' = job'.todo /\ Late = job.todo
  BY Zenon DEF Due, Late, Version
<1>2. \A t \in DOMAIN pool' \ Late' : MeetsDue(t)'
  BY <1>1, MeetsKept, Zenon
<1> QED
  BY <1>2, Zenon DEF VersionInv

LEMMA ValidateTakeVersion ==
  ASSUME IInv, Kept, VersionInv, NEW t, ValidateTake(t)
  PROVE  VersionInv'
<1>1. IsJob(job) /\ job.kind = "validate" /\ chain' = chain
  BY Zenon DEF ValidateTake, IInv, ValidateInv
<1>2. job'.kind = "validate" /\ job'.todo = job.todo \ {t}
  BY <1>1, Zenon DEF ValidateTake, IsJob, JobFields
<1>3. DOMAIN pool' = DOMAIN pool \ {t}
  BY Zenon DEF ValidateTake, take_tx, Without, PoolUnchanged
<1> QED
  BY <1>1, <1>2, <1>3, ValidateVersion, Zenon

LEMMA ValidateAddVersion ==
  ASSUME IInv, Kept, VersionInv, NEW t \in Txs, ValidateAdd(t)
  PROVE  VersionInv'
<1>1. IsJob(job) /\ job.kind = "validate" /\ chain' = chain /\ t \in DOMAIN job.metas
  BY Zenon DEF ValidateAdd, IInv, ValidateInv
<1>2. job'.kind = "validate" /\ job'.todo = job.todo
  BY <1>1, Zenon DEF ValidateAdd, IsJob, JobFields
<1>3. PICK fee_good, added \in BOOLEAN : add_tx(t, job.metas[t].relay, Version(chain), 0, fee_good, added)
  BY Zenon DEF ValidateAdd
<1>4. job.metas[t].relay \in RelayMethods
  BY <1>1, Zenon DEF IInv, ValidateInv, IsTable, IsMeta
<1>5. DOMAIN pool' \subseteq DOMAIN pool \cup {t}
  BY <1>3, <1>4, AddKeeps, Zenon DEF IInv, AddEffect
<1>6. t \in DOMAIN pool' /\ t \notin DOMAIN pool => t \in accepted[Version(chain)]
  <2>1. Version(chain) # 0
    BY Versions
  <2> QED
    BY <1>3, <2>1, AddAccepted, Zenon
<1>7. t \notin DOMAIN pool
  BY Zenon DEF ValidateAdd, IInv, ValidateInv
<1> QED
  BY <1>1, <1>2, <1>5, <1>6, <1>7, ValidateVersion, Zenon

LEMMA ValidateRestoreVersion ==
  ASSUME IInv, Kept, VersionInv, NEW t, ValidateRestore(t)
  PROVE  VersionInv'
<1>1. IsJob(job) /\ job.kind = "validate" /\ chain' = chain
  BY Zenon DEF ValidateRestore, IInv, ValidateInv
<1>2. job'.kind = "validate" /\ job'.todo = job.todo
  BY <1>1, Zenon DEF ValidateRestore, IsJob, JobFields
<1>3. DOMAIN pool' = DOMAIN pool
  BY Zenon DEF ValidateRestore
<1> QED
  BY <1>1, <1>2, <1>3, ValidateVersion, Zenon

LEMMA ValidateDoneVersion ==
  ASSUME IInv, Kept, VersionInv, ValidateDone
  PROVE  VersionInv'
<1>1. job.kind = "validate" /\ job.todo = {} /\ chain' = chain /\ pool' = pool
  BY Zenon DEF ValidateDone
<1>2. job'.kind = "idle"
  BY Zenon DEF ValidateDone, Idle, Job
<1>3. Due' = Due /\ Late = {} /\ Late' = {}
  BY <1>1, <1>2, Zenon DEF Due, Late, Version
<1>4. \A t \in DOMAIN pool' \ Late' : MeetsDue(t)'
  BY <1>1, <1>3, MeetsKept, Zenon
<1> QED
  BY <1>1, <1>2, <1>4, Zenon DEF VersionInv

LEMMA BlockTxVersion ==
  ASSUME IInv, Kept, VersionInv, NEW t, BlockTx(t) \/ BlockRefused
  PROVE  VersionInv'
<1>1. IsJob(job) /\ job.kind = "block" /\ chain' = chain
  BY Zenon DEF BlockTx, BlockRefused, IInv, ValidateInv
<1>2. \/ job'.kind = "return"
      \/ job'.kind = "block" /\ job'.block = job.block
  BY <1>1, Zenon DEF BlockTx, BlockRefused, Refuse, Job, IsJob, JobFields
<1>3. DOMAIN pool' \subseteq DOMAIN pool
  BY Zenon DEF BlockTx, BlockRefused, take_tx, Without, PoolUnchanged
<1>4. job.block \in Blocks
  BY <1>1, Zenon DEF VersionInv
<1> QED
  BY <1>1, <1>2, <1>3, <1>4, JobVersion, Zenon

\* The transactions a refused block, or a popped one, gives back are kept by it.
LEMMA GiveBackVersion ==
  ASSUME IInv, Kept, VersionInv, NEW t \in Txs, ReturnTx(t) \/ PopTx(t)
  PROVE  VersionInv'
<1>1. IsJob(job) /\ job.kind \in {"return", "pop"} /\ chain' = chain /\ job' = [job EXCEPT !.todo = @ \ {t}]
  BY Zenon DEF ReturnTx, PopTx, IInv, ValidateInv
<1>2. job'.kind = job.kind /\ job'.block = job.block
  BY <1>1, Zenon DEF IsJob, JobFields
<1>3. PICK added \in BOOLEAN : add_tx(t, "block", Version(chain), Version(chain), TRUE, added)
  BY Zenon DEF ReturnTx, PopTx
<1>4. AddEffect(t, "block")
  BY <1>3, AddKeeps, Zenon DEF IInv, RelayMethods
<1>5. \A u \in DOMAIN pool' : u \in DOMAIN pool \/ pool'[u].relay = "block"
  BY <1>4, Zenon DEF AddEffect
<1> QED
  BY <1>1, <1>2, <1>5, JobVersion, Zenon

LEMMA UnlockedVersion ==
  ASSUME IInv, Kept, VersionInv, ~Locked, UNCHANGED <<chain, job>>,
         \A t \in DOMAIN pool' : t \in DOMAIN pool \/ pool'[t].relay = "block" \/ t \in accepted[Version(chain)]
  PROVE  VersionInv'
<1>1. job.kind = "idle"
  <2>1. job = Idle
    BY Zenon DEF Locked
  <2>2. Idle.kind = "idle"
    BY Zenon DEF Idle, Job
  <2> QED
    BY <2>1, <2>2, Zenon
<1>2. Due = Version(chain)
  BY <1>1, Zenon DEF Due
<1> QED
  BY <1>1, <1>2, PlainVersion, Zenon

LEMMA ArrivalVersion ==
  ASSUME IInv, Kept, VersionInv, NEW t \in Txs, NEW relay,
         \/ relay \in Relays /\ RelayTx(t, relay)
         \/ SupplementTx(t)
  PROVE  VersionInv'
<1>1. ~Locked /\ UNCHANGED <<chain, job>>
  BY Zenon DEF RelayTx, SupplementTx
<1>2. CASE relay \in Relays /\ RelayTx(t, relay)
  <2>1. PICK fee_good, added \in BOOLEAN : add_tx(t, relay, Version(chain), 0, fee_good, added)
    BY <1>2, Zenon DEF RelayTx
  <2>2. AddEffect(t, relay)
    BY <1>2, <2>1, AddKeeps, PoolAssumption, Zenon DEF IInv, RelayMethods
  <2>3. Version(chain) # 0
    BY Versions
  <2>4. t \in DOMAIN pool' /\ t \notin DOMAIN pool => t \in accepted[Version(chain)]
    BY <2>1, <2>3, AddAccepted, Zenon
  <2> QED
    BY <1>1, <2>2, <2>4, UnlockedVersion, Zenon DEF AddEffect
<1>3. CASE SupplementTx(t)
  <2>1. PICK v \in {1, 2}, added \in BOOLEAN : add_tx(t, "block", v, v, TRUE, added)
    BY <1>3, Zenon DEF SupplementTx
  <2>2. AddEffect(t, "block")
    BY <2>1, AddKeeps, Zenon DEF IInv, RelayMethods
  <2> QED
    BY <1>1, <2>2, UnlockedVersion, Zenon DEF AddEffect
<1> QED
  BY <1>2, <1>3, Zenon

LEMMA NextVersion ==
  ASSUME IInv, VersionInv, Next
  PROVE  VersionInv'
<1>0. Kept
  BY NextKeeps, Zenon
<1>1. ASSUME NEW t \in Txs, NEW relay \in Relays, RelayTx(t, relay) PROVE VersionInv'
  BY <1>0, <1>1, ArrivalVersion, Zenon
<1>2. ASSUME NEW t \in Txs, SupplementTx(t) PROVE VersionInv'
  BY <1>0, <1>2, ArrivalVersion, Zenon
<1>3. ASSUME NEW t \in Txs, NEW relay \in Relays, SetRelayed(t, relay) PROVE VersionInv'
  BY <1>0, <1>3, UnlockedVersion, Zenon DEF SetRelayed
<1>4. ASSUME NEW t \in Txs, FlushTx(t) PROVE VersionInv'
  BY <1>0, <1>4, UnlockedVersion, Zenon DEF FlushTx, take_tx, Without
<1>5. ASSUME NEW stuck \in SUBSET Txs, RemoveStuck(stuck) PROVE VersionInv'
  BY <1>0, <1>5, UnlockedVersion, Zenon DEF RemoveStuck, Without
<1>6. CASE CreateBlockTemplate
  <2>1. DOMAIN pool' = DOMAIN pool
    BY <1>6, Zenon DEF CreateBlockTemplate
  <2>2. ~Locked /\ UNCHANGED <<chain, job>>
    BY <1>6, Zenon DEF CreateBlockTemplate
  <2> QED
    BY <1>0, <2>1, <2>2, UnlockedVersion, Zenon
<1>7. CASE Restart
  BY <1>0, <1>7, UnlockedVersion, Zenon DEF Restart
<1>8. ASSUME NEW b \in Blocks, NEW extra \in SUBSET b, BlockBegin(b, extra) PROVE VersionInv'
  <2>1. job.kind = "idle" /\ chain' = chain /\ pool' = pool
    BY <1>8 DEF BlockBegin, Locked, Idle, Job, PoolUnchanged
  <2>2. job'.kind = "block" /\ job'.block = b
    BY <1>8, Zenon DEF BlockBegin, Job
  <2> QED
    BY <1>0, <2>1, <2>2, JobVersion, Zenon
<1>9. CASE ReturnDone
  <2>1. job.kind = "return" /\ chain' = chain /\ pool' = pool /\ job'.kind = "idle"
    BY <1>9, Zenon DEF ReturnDone, PoolUnchanged, Idle, Job
  <2> QED
    BY <1>0, <2>1, JobVersion, Zenon
<1>10. CASE JobStep
  BY <1>0, <1>9, <1>10, BlockTxVersion, GiveBackVersion, ValidateTakeVersion, ValidateAddVersion,
     ValidateRestoreVersion, ValidateDoneVersion, BlockConnectedVersion, PopDoneVersion, Zenon DEF JobStep
<1> QED
  BY <1>0, <1>1, <1>2, <1>3, <1>4, <1>5, <1>6, <1>7, <1>8, <1>10, PopBeginVersion, Zenon DEF Next

\* Between two jobs no relayed transaction of the pool breaks the rules of the version in force:
\* add_tx checks them for what comes in, and when a block connected or popped changes the version,
\* validate goes through everything that was there, with the lock held.
THEOREM VersionMet == Spec => []PoolMeetsVersion
<1>1. Init => VersionInv
  BY DEF Init, VersionInv, NoMetas, Idle, Job
<1>2. IInv /\ VersionInv /\ [Next]_vars => VersionInv'
  <2>1. CASE UNCHANGED vars
    BY <2>1, Zenon DEF vars, VersionInv, MeetsDue, Due, Late, kept_by_block, Version
  <2> QED
    BY <2>1, NextVersion, Zenon
<1>3. VersionInv => PoolMeetsVersion
  <2> SUFFICES ASSUME VersionInv, job = Idle PROVE \A t \in DOMAIN pool : kept_by_block(t) \/ t \in accepted[Version(chain)]
    BY Zenon DEF PoolMeetsVersion, Locked
  <2>1. job.kind = "idle"
    BY Zenon DEF Idle, Job
  <2>2. Due = Version(chain) /\ Late = {}
    BY <2>1, Zenon DEF Due, Late
  <2> QED
    BY <2>2, Zenon DEF VersionInv, MeetsDue
<1> QED
  BY <1>1, <1>2, <1>3, PoolInvariant, PTL DEF Spec
====
