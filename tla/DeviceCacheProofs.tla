-------------------------- MODULE DeviceCacheProofs --------------------------
(***************************************************************************)
(* Whatever calls are made, captures recorded, abandoned, retained or      *)
(* given up included: the index is consistent, a block has one use at a    *)
(* time, and a read on the device or on the host finds the latest value.   *)
(* Three parts: the blocks (CacheInv), what an operation on the places     *)
(* does to the latest values (Latest, of usable views, pending views and   *)
(* blocks only), and the calls, each of which ends in such an operation    *)
(* (ValueInv).                                                             *)
(***************************************************************************)
EXTENDS DeviceCache, FiniteSetTheorems, TLAPS

(* A pool: blocks in the order they were freed, each once. *)
Pool(s) == s \in Seq(Blocks) /\ IsInjective(s)

LEMMA PoolAppend ==
  ASSUME NEW s, Pool(s), NEW b \in Blocks, b \notin ToSet(s)
  PROVE  Pool(Append(s, b)) /\ ToSet(Append(s, b)) = ToSet(s) \cup {b}
<1> DEFINE n == Len(s)
           r == Append(s, b)
<1>1. n \in Nat /\ DOMAIN s = 1..n /\ \A k \in 1..n : s[k] \in Blocks
  BY DEF Pool
<1>2. r \in Seq(Blocks) /\ DOMAIN r = 1..(n + 1) /\ r[n + 1] = b /\ \A k \in 1..n : r[k] = s[k]
  BY DEF Pool
<1>3. ASSUME NEW k \in 1..(n + 1), NEW l \in 1..(n + 1), r[k] = r[l] PROVE k = l
  BY <1>1, <1>2, <1>3 DEF Pool, IsInjective, ToSet
<1>4. ToSet(r) = ToSet(s) \cup {b}
  <2>1. ASSUME NEW x \in ToSet(r) PROVE x \in ToSet(s) \cup {b}
    BY <1>1, <1>2, <2>1 DEF ToSet
  <2>2. ASSUME NEW x \in ToSet(s) PROVE x \in ToSet(r)
    BY <1>1, <1>2, <2>2 DEF ToSet
  <2>3. b \in ToSet(r)
    <3>1. n + 1 \in DOMAIN r
      BY <1>1, <1>2
    <3> QED BY <1>2, <3>1 DEF ToSet
  <2> QED BY <2>1, <2>2, <2>3
<1> QED BY <1>2, <1>3, <1>4 DEF Pool, IsInjective

LEMMA PoolFront ==
  ASSUME NEW s, Pool(s), s # <<>>
  PROVE  /\ Pool(Front(s)) /\ Last(s) \in Blocks
         /\ ToSet(Front(s)) \subseteq ToSet(s) /\ Last(s) \in ToSet(s) /\ Last(s) \notin ToSet(Front(s))
<1> DEFINE n == Len(s)
           r == Front(s)
<1>1. n \in Nat \ {0} /\ DOMAIN s = 1..n /\ \A k \in 1..n : s[k] \in Blocks
  BY DEF Pool
<1>2. r \in Seq(Blocks) /\ DOMAIN r = 1..(n - 1) /\ \A k \in 1..(n - 1) : r[k] = s[k]
  BY <1>1 DEF Pool, Front
<1>3. IsInjective(r)
  BY <1>1, <1>2 DEF Pool, IsInjective
<1>4. ToSet(r) \subseteq ToSet(s)
  BY <1>1, <1>2 DEF ToSet
<1>5. Last(s) = s[n] /\ n \in DOMAIN s
  BY <1>1 DEF Last
<1>6. ASSUME NEW k \in DOMAIN r PROVE r[k] # s[n]
  BY <1>1, <1>2, <1>6 DEF Pool, IsInjective
<1> QED BY <1>1, <1>2, <1>3, <1>4, <1>5, <1>6 DEF Pool, ToSet

(* An enumeration of blocks is a pool. *)
LEMMA PoolOf ==
  ASSUME NEW S \in SUBSET Blocks, NEW r \in SetToSeqs(S)
  PROVE  Pool(r) /\ ToSet(r) \subseteq S
<1>1. IsFiniteSet(S)
  BY DeviceAssumption, FS_Subset
<1>2. PICK n \in Nat : n = Cardinality(S)
  BY <1>1, FS_CardinalityType
<1>3. r \in [1..n -> S] /\ IsInjective(r)
  <2>1. r \in [1..n -> S] /\ \A k, l \in 1..n : k # l => r[k] # r[l]
    BY <1>2 DEF SetToSeqs
  <2> QED BY <2>1 DEF IsInjective
<1>4. r \in Seq(Blocks) /\ DOMAIN r = 1..n
  BY <1>3
<1> QED BY <1>3, <1>4 DEF Pool, ToSet

(* Two pools without a common block, one after the other. *)
LEMMA JoinedPools ==
  ASSUME NEW m \in Nat, NEW n \in Nat, NEW s, NEW r, NEW q,
         \A k, l \in 1..m : s[k] = s[l] => k = l,
         \A k, l \in 1..n : r[k] = r[l] => k = l,
         \A k \in 1..m, l \in 1..n : s[k] # r[l],
         \A k \in 1..(m + n) : q[k] = IF k <= m THEN s[k] ELSE r[k - m],
         NEW k \in 1..(m + n), NEW l \in 1..(m + n), q[k] = q[l]
  PROVE  k = l
<1>1. CASE k <= m /\ l <= m
  BY <1>1
<1>2. CASE k <= m /\ l > m
  <2>1. k \in 1..m /\ l - m \in 1..n
    BY <1>2
  <2> QED BY <1>2, <2>1
<1>3. CASE k > m /\ l <= m
  <2>1. l \in 1..m /\ k - m \in 1..n
    BY <1>3
  <2> QED BY <1>3, <2>1
<1>4. CASE k > m /\ l > m
  <2>1. k - m \in 1..n /\ l - m \in 1..n /\ r[k - m] = r[l - m]
    BY <1>4
  <2>2. k - m = l - m
    BY <2>1
  <2> QED BY <2>2
<1> QED BY <1>1, <1>2, <1>3, <1>4

LEMMA PoolConcat ==
  ASSUME NEW s, Pool(s), NEW r, Pool(r), ToSet(s) \cap ToSet(r) = {}
  PROVE  Pool(s \o r) /\ ToSet(s \o r) \subseteq ToSet(s) \cup ToSet(r)
<1>1. PICK m \in Nat, n \in Nat : m = Len(s) /\ n = Len(r) /\ DOMAIN s = 1..m /\ DOMAIN r = 1..n
  BY DEF Pool
<1>2. PICK q \in Seq(Blocks) : q = s \o r
  <2>1. s \o r \in Seq(Blocks)
    BY DEF Pool
  <2> QED BY <2>1
<1>3. DOMAIN q = 1..(m + n)
  BY <1>1, <1>2 DEF Pool
<1>4. \A k \in 1..(m + n) : q[k] = IF k <= m THEN s[k] ELSE r[k - m]
  BY <1>1, <1>2 DEF Pool
<1>5. (\A k \in 1..m : s[k] \in ToSet(s)) /\ (\A k \in 1..n : r[k] \in ToSet(r))
  BY <1>1 DEF ToSet
<1>6. \A k \in 1..m, l \in 1..n : s[k] # r[l]
  BY <1>5
<1>7. /\ \A k, l \in 1..m : s[k] = s[l] => k = l
      /\ \A k, l \in 1..n : r[k] = r[l] => k = l
  BY <1>1 DEF Pool, IsInjective
<1>8. \A k, l \in 1..(m + n) : q[k] = q[l] => k = l
  BY <1>4, <1>6, <1>7, JoinedPools
<1>9. ASSUME NEW k \in 1..(m + n) PROVE q[k] \in ToSet(s) \cup ToSet(r)
  <2>1. CASE k <= m
    BY <1>4, <1>5, <2>1
  <2>2. CASE k > m
    <3>1. k - m \in 1..n
      BY <2>2
    <3> QED BY <1>4, <1>5, <2>2, <3>1
  <2> QED BY <2>1, <2>2
<1>10. ToSet(q) \subseteq ToSet(s) \cup ToSet(r)
  BY <1>3, <1>9 DEF ToSet
<1>11. Pool(q)
  BY <1>3, <1>8 DEF Pool, IsInjective
<1> QED BY <1>2, <1>10, <1>11

-------------------------------------------------------------------------------
(* The shape of a cache: a copy that is valid has a block, a handle that is bound has a
   replica, and every block in use is one of the context's. *)
Entry == [block : Blocks \cup {None}, device : BOOLEAN, host : BOOLEAN, current : BOOLEAN]
Replicas(handle, r) ==
  /\ r \in [DOMAIN r -> Entry]
  /\ \A v \in DOMAIN r : r[v].device => r[v].block # None
  /\ \A t \in handle : view[t] \in DOMAIN r
Shape(c) ==
  /\ DOMAIN c = {"handle", "keep", "replica", "free", "owned", "lent"}
  /\ Replicas(c.handle, c.replica)
  /\ Pool(c.free)
  /\ Held(c) \cup ToSet(c.free) \cup c.lent \subseteq c.owned
  /\ c.owned \subseteq Blocks
Apart(c) ==
  /\ ToSet(c.free) \cap (Held(c) \cup c.lent \cup exported \cup Pinned) = {}
  /\ c.lent \cap (Held(c) \cup exported) = {}
Fit(c) == Shape(c) /\ Apart(c)

(* Which blocks are whose depends on the replicas only through the blocks they hold. *)
LEMMA Reindexed ==
  ASSUME NEW c, Fit(c), NEW d, DOMAIN d = DOMAIN c, Replicas(d.handle, d.replica),
         d.free = c.free, d.lent = c.lent, d.owned = c.owned, Held(d) \subseteq Held(c)
  PROVE  Fit(d)
  BY DEF Fit, Shape, Apart

LEMMA BindFits ==
  ASSUME NEW c, Fit(c), NEW t
  PROVE  LET d == Bind(c, t) IN
         /\ Fit(d) /\ view[t] \in Present(d) /\ Present(c) \subseteq Present(d)
         /\ Held(d) = Held(c)
         /\ \A v \in Present(c) : d.replica[v] = c.replica[v]
         /\ d.free = c.free /\ d.lent = c.lent /\ d.owned = c.owned
<1>1. PICK d : d = Bind(c, t)
  OBVIOUS
<1>2. /\ DOMAIN d = DOMAIN c /\ d.handle = c.handle \cup {t}
      /\ d.free = c.free /\ d.lent = c.lent /\ d.owned = c.owned
      /\ d.replica = [v \in DOMAIN c.replica \cup {view[t]} |-> IF v \in DOMAIN c.replica THEN c.replica[v] ELSE Empty]
  BY <1>1 DEF Bind, Fit, Shape
<1>3. Empty \in Entry /\ Empty.block = None /\ ~Empty.device
  BY DEF Empty, Entry
<1>4. /\ DOMAIN d.replica = DOMAIN c.replica \cup {view[t]}
      /\ \A v \in DOMAIN c.replica : d.replica[v] = c.replica[v]
      /\ \A v \in DOMAIN d.replica \ DOMAIN c.replica : d.replica[v] = Empty
  BY <1>2
<1>5. c.replica \in [DOMAIN c.replica -> Entry] /\ Replicas(c.handle, c.replica)
  BY DEF Fit, Shape, Replicas
<1>6. Replicas(d.handle, d.replica)
  <2>1. d.replica \in [DOMAIN d.replica -> Entry]
    <3>1. \A v \in DOMAIN d.replica : d.replica[v] \in Entry
      BY <1>3, <1>4, <1>5
    <3> QED BY <1>2, <3>1
  <2>2. \A v \in DOMAIN d.replica : d.replica[v].device => d.replica[v].block # None
    BY <1>3, <1>4, <1>5 DEF Replicas
  <2>3. \A u \in d.handle : view[u] \in DOMAIN d.replica
    BY <1>2, <1>4, <1>5 DEF Replicas
  <2> QED BY <2>1, <2>2, <2>3 DEF Replicas
<1>7. Held(d) = Held(c)
  BY <1>3, <1>4 DEF Held, Block, Present
<1>8. Fit(d)
  BY <1>2, <1>6, <1>7, Reindexed
<1> QED BY <1>1, <1>2, <1>4, <1>7, <1>8 DEF Present

(* One replica changes its flags: Mark and Invalidate. *)
LEMMA FlagsFit ==
  ASSUME NEW c, Fit(c), NEW v \in Present(c), NEW e \in Entry,
         e.block = Block(c, v), e.device => e.block # None
  PROVE  LET d == [c EXCEPT !.replica[v] = e] IN
         Fit(d) /\ Present(d) = Present(c) /\ d.handle = c.handle
<1>1. PICK d : d = [c EXCEPT !.replica[v] = e]
  OBVIOUS
<1>2. /\ DOMAIN d = DOMAIN c /\ d.handle = c.handle /\ d.free = c.free /\ d.lent = c.lent /\ d.owned = c.owned
      /\ d.replica = [c.replica EXCEPT ![v] = e]
  BY <1>1 DEF Fit, Shape
<1>3. c.replica \in [DOMAIN c.replica -> Entry] /\ Replicas(c.handle, c.replica)
  BY DEF Fit, Shape, Replicas
<1>4. /\ DOMAIN d.replica = DOMAIN c.replica /\ d.replica[v] = e
      /\ \A w \in DOMAIN c.replica \ {v} : d.replica[w] = c.replica[w]
      /\ d.replica \in [DOMAIN d.replica -> Entry]
  BY <1>2, <1>3 DEF Present
<1>5. Replicas(d.handle, d.replica)
  BY <1>2, <1>3, <1>4 DEF Replicas
<1>6. Held(d) \subseteq Held(c)
  BY <1>4 DEF Held, Block, Present
<1>7. Fit(d)
  BY <1>2, <1>5, <1>6, Reindexed
<1> QED BY <1>1, <1>2, <1>4, <1>7 DEF Present

LEMMA MarkFits ==
  ASSUME NEW c, Fit(c), NEW v \in Present(c), Block(c, v) # None, NEW host \in BOOLEAN
  PROVE  LET d == Mark(c, v, host) IN
         /\ Fit(d) /\ Present(d) = Present(c) /\ d.handle = c.handle
         /\ \A w \in Present(c) : Block(d, w) = Block(c, w)
<1>1. PICK e : e = [block |-> Block(c, v), device |-> TRUE, host |-> host, current |-> TRUE]
  OBVIOUS
<1>2. e \in Entry /\ e.block = Block(c, v) /\ e.block # None
  BY <1>1 DEF Entry, Fit, Shape, Replicas, Block, Present
<1>3. Mark(c, v, host) = [c EXCEPT !.replica[v] = e]
  BY <1>1 DEF Mark, Block
<1>4. \A w \in Present(c) : Block(Mark(c, v, host), w) = Block(c, w)
  BY <1>2, <1>3 DEF Block, Present, Fit, Shape
<1> QED BY <1>2, <1>3, <1>4, FlagsFit

LEMMA InvalidateFits ==
  ASSUME NEW c, Fit(c), NEW v \in Present(c)
  PROVE  Fit(Invalidate(c, v))
<1>1. PICK e : e = [Empty EXCEPT !.block = Block(c, v)]
  OBVIOUS
<1>2. e \in Entry /\ e.block = Block(c, v) /\ ~e.device
  BY <1>1 DEF Entry, Fit, Shape, Replicas, Block, Present, Empty
<1>3. Invalidate(c, v) = [c EXCEPT !.replica[v] = e]
  BY <1>1 DEF Invalidate, Invalid, Block
<1> QED BY <1>2, <1>3, FlagsFit

(* Every replica may change its flags: Outdate and Refresh. *)
LEMMA AllFlagsFit ==
  ASSUME NEW c, Fit(c), NEW d, DOMAIN d = DOMAIN c, d.handle = c.handle,
         d.free = c.free, d.lent = c.lent, d.owned = c.owned,
         d.replica \in [Present(c) -> Entry],
         \A v \in Present(c) : d.replica[v].block = c.replica[v].block
                                /\ (d.replica[v].device => c.replica[v].device)
  PROVE  Fit(d) /\ Present(d) = Present(c)
<1>1. Replicas(c.handle, c.replica) /\ Present(d) = Present(c)
  BY DEF Fit, Shape, Present
<1>2. Replicas(d.handle, d.replica)
  BY <1>1 DEF Replicas, Present
<1>3. Held(d) \subseteq Held(c)
  BY <1>1 DEF Held, Block, Present
<1> QED BY <1>1, <1>2, <1>3, Reindexed

LEMMA OutdateFits ==
  ASSUME NEW c, Fit(c), NEW storage
  PROVE  Fit(Outdate(c, storage)) /\ Present(Outdate(c, storage)) = Present(c)
         /\ Outdate(c, storage).lent = c.lent
<1>1. PICK d : d = Outdate(c, storage)
  OBVIOUS
<1>2. /\ DOMAIN d = DOMAIN c /\ d.handle = c.handle /\ d.free = c.free /\ d.lent = c.lent /\ d.owned = c.owned
      /\ d.replica = [v \in Present(c) |-> IF v.storage = storage THEN [c.replica[v] EXCEPT !.current = FALSE]
                                           ELSE c.replica[v]]
  BY <1>1 DEF Outdate, Present, Fit, Shape
<1>3. \A v \in Present(c) : c.replica[v] \in Entry
  BY DEF Fit, Shape, Replicas, Present
<1>4. \A v \in Present(c) : /\ d.replica[v] \in Entry /\ d.replica[v].block = c.replica[v].block
                            /\ d.replica[v].device = c.replica[v].device
  <2>1. ASSUME NEW e \in Entry, NEW f, f = [e EXCEPT !.current = FALSE]
        PROVE  f \in Entry /\ f.block = e.block /\ f.device = e.device
    BY <2>1 DEF Entry
  <2> QED BY <1>2, <1>3, <2>1
<1>5. d.replica \in [Present(c) -> Entry]
  BY <1>2, <1>4
<1> QED BY <1>1, <1>2, <1>4, <1>5, AllFlagsFit

LEMMA RefreshFits ==
  ASSUME NEW c, Fit(c), NEW v
  PROVE  LET d == Refresh(c, v) IN
         Fit(d) /\ Present(d) = Present(c) /\ \A w \in Present(c) : Block(d, w) = Block(c, w)
<1>1. PICK d : d = Refresh(c, v)
  OBVIOUS
<1>2. /\ DOMAIN d = DOMAIN c /\ d.handle = c.handle /\ d.free = c.free /\ d.lent = c.lent /\ d.owned = c.owned
      /\ DOMAIN d.replica = Present(c)
      /\ d.replica = [w \in Present(c) |-> d.replica[w]]
      /\ \A w \in Present(c) : d.replica[w] = c.replica[w] \/ d.replica[w] = Invalid(c.replica[w])
  BY <1>1 DEF Refresh, Present, Fit, Shape
<1>3. \A w \in Present(c) : c.replica[w] \in Entry
  BY DEF Fit, Shape, Replicas, Present
<1>4. \A w \in Present(c) : /\ Invalid(c.replica[w]) \in Entry /\ ~Invalid(c.replica[w]).device
                            /\ Invalid(c.replica[w]).block = c.replica[w].block
  BY <1>3 DEF Entry, Invalid, Empty
<1>5. d.replica \in [Present(c) -> Entry]
  BY <1>2, <1>3, <1>4
<1>6. \A w \in Present(c) : /\ d.replica[w].block = c.replica[w].block
                            /\ (d.replica[w].device => c.replica[w].device)
  BY <1>2, <1>4
<1>7. Fit(d) /\ Present(d) = Present(c)
  BY <1>2, <1>5, <1>6, AllFlagsFit
<1> QED BY <1>1, <1>6, <1>7 DEF Block

LEMMA EraseHandleFits ==
  ASSUME NEW c, Fit(c), NEW t
  PROVE  LET d == EraseHandle(c, t) IN
         /\ Fit(d) /\ d.free = c.free /\ d.lent = c.lent /\ d.owned = c.owned /\ DOMAIN d = DOMAIN c
         /\ Held(d) \subseteq {Block(c, v) : v \in Present(c) \ (IF IsLast(c, t) THEN {view[t]} ELSE {})} \ {None}
<1>1. PICK d : d = EraseHandle(c, t)
  OBVIOUS
<1>2. PICK gone : gone = IF IsLast(c, t) THEN {view[t]} ELSE {}
  OBVIOUS
<1>3. /\ DOMAIN d = DOMAIN c /\ d.handle = c.handle \ {t}
      /\ d.free = c.free /\ d.lent = c.lent /\ d.owned = c.owned
      /\ d.replica = [v \in DOMAIN c.replica \ gone |-> c.replica[v]]
  BY <1>1, <1>2 DEF EraseHandle, Fit, Shape
<1>4. Replicas(c.handle, c.replica)
  BY DEF Fit, Shape
<1>5. \A u \in d.handle : view[u] \in DOMAIN c.replica \ gone
  BY <1>2, <1>3, <1>4 DEF Replicas, IsLast
<1>6. Replicas(d.handle, d.replica)
  BY <1>3, <1>4, <1>5 DEF Replicas
<1>7. Held(d) \subseteq {Block(c, v) : v \in Present(c) \ gone} \ {None}
  BY <1>3 DEF Held, Block, Present
<1>8. Held(d) \subseteq Held(c)
  BY <1>7 DEF Held, Present
<1> QED BY <1>1, <1>2, <1>3, <1>6, <1>7, <1>8, Reindexed

(* A block goes to the pool only when nothing has it any more. *)
LEMMA ReleaseBlockFits ==
  ASSUME NEW c, Fit(c), NEW v \in Present(c)
  PROVE  LET d == ReleaseBlock(c, v) IN
         /\ Fit(d) /\ Present(d) = Present(c) /\ d.handle = c.handle /\ d.lent = c.lent
         /\ \A w \in Present(c) \ {v} : d.replica[w] = c.replica[w]
<1>1. PICK d : d = ReleaseBlock(c, v)
  OBVIOUS
<1>2. PICK b : b = Block(c, v)
  OBVIOUS
<1>3. PICK e : e = Empty
  OBVIOUS
<1>4. e \in Entry /\ e.block = None /\ ~e.device
  BY <1>3 DEF Empty, Entry
<1>5. /\ DOMAIN d = DOMAIN c /\ d.handle = c.handle /\ d.lent = c.lent /\ d.owned = c.owned
      /\ d.replica = [c.replica EXCEPT ![v] = e]
      /\ d.free = IF b # None /\ Sharing(c, v) = {} /\ b \notin exported \cup Pinned THEN Append(c.free, b) ELSE c.free
  BY <1>1, <1>2, <1>3 DEF ReleaseBlock, Fit, Shape
<1>6. c.replica \in [DOMAIN c.replica -> Entry] /\ Replicas(c.handle, c.replica)
  BY DEF Fit, Shape, Replicas
<1>7. /\ DOMAIN d.replica = DOMAIN c.replica /\ d.replica[v] = e
      /\ \A w \in DOMAIN c.replica \ {v} : d.replica[w] = c.replica[w]
      /\ d.replica \in [DOMAIN d.replica -> Entry]
  BY <1>4, <1>5, <1>6 DEF Present
<1>8. Replicas(d.handle, d.replica)
  BY <1>4, <1>5, <1>6, <1>7 DEF Replicas
<1>9. Held(d) \subseteq Held(c)
  BY <1>4, <1>7 DEF Held, Block, Present
<1>10. CASE d.free = c.free
  BY <1>1, <1>5, <1>7, <1>8, <1>9, <1>10, Reindexed DEF Present
<1>11. CASE b # None /\ Sharing(c, v) = {} /\ b \notin exported \cup Pinned /\ d.free = Append(c.free, b)
  <2>1. b \in Held(c) /\ b \in c.owned /\ b \in Blocks /\ b \notin ToSet(c.free) /\ b \notin c.lent
    BY <1>2, <1>11 DEF Fit, Shape, Apart, Held
  <2>2. Pool(d.free) /\ ToSet(d.free) = ToSet(c.free) \cup {b}
    BY <1>11, <2>1, PoolAppend DEF Fit, Shape
  <2>3. b \notin Held(d)
    BY <1>2, <1>4, <1>7, <1>11 DEF Held, Block, Present, Sharing
  <2>4. Shape(d)
    BY <1>5, <1>8, <1>9, <2>1, <2>2 DEF Fit, Shape
  <2>5. Apart(d)
    BY <1>5, <1>9, <1>11, <2>1, <2>2, <2>3 DEF Fit, Apart
  <2> QED BY <1>1, <1>5, <1>7, <2>4, <2>5 DEF Fit, Present
<1> QED BY <1>5, <1>10, <1>11

(* The block that is allocated is in no use. *)
LEMMA AllocateFits ==
  ASSUME NEW c, Fit(c), NEW x \in Allocate(c)
  PROVE  /\ Fit(x.cache) /\ DOMAIN x.cache = DOMAIN c
         /\ x.cache.replica = c.replica /\ x.cache.handle = c.handle /\ x.cache.lent = c.lent
         /\ x.block \in Blocks /\ x.block # None /\ x.block \in x.cache.owned
         /\ x.block \notin ToSet(x.cache.free) \cup Held(c) \cup c.lent \cup exported
<1>1. CASE c.free # <<>>
  <2>1. x.block = Last(c.free) /\ x.cache = [c EXCEPT !.free = Front(c.free)]
    BY <1>1 DEF Allocate
  <2>2. PICK d : d = x.cache
    OBVIOUS
  <2>3. /\ DOMAIN d = DOMAIN c /\ d.handle = c.handle /\ d.replica = c.replica /\ d.lent = c.lent /\ d.owned = c.owned
        /\ d.free = Front(c.free)
    BY <2>1, <2>2 DEF Fit, Shape
  <2>4. /\ Pool(d.free) /\ x.block \in Blocks /\ ToSet(d.free) \subseteq ToSet(c.free)
        /\ x.block \in ToSet(c.free) /\ x.block \notin ToSet(d.free)
    BY <1>1, <2>1, <2>3, PoolFront DEF Fit, Shape
  <2>5. Held(d) = Held(c)
    BY <2>3 DEF Held, Block, Present
  <2>6. Fit(d)
    BY <2>3, <2>4, <2>5 DEF Fit, Shape, Apart
  <2> QED BY <2>2, <2>3, <2>4, <2>6, DeviceAssumption DEF Fit, Shape, Apart
<1>2. CASE c.free = <<>>
  <2>1. x.block \in Blocks \ (c.owned \cup exported \cup Pinned) /\ x.cache = [c EXCEPT !.owned = c.owned \cup {x.block}]
    <3>1. PICK b \in Blocks \ (c.owned \cup exported \cup Pinned) :
            x = [block |-> b, cache |-> [c EXCEPT !.owned = c.owned \cup {b}]]
      BY <1>2 DEF Allocate
    <3> QED BY <3>1
  <2>2. PICK d : d = x.cache
    OBVIOUS
  <2>3. /\ DOMAIN d = DOMAIN c /\ d.handle = c.handle /\ d.replica = c.replica /\ d.lent = c.lent
        /\ d.owned = c.owned \cup {x.block} /\ d.free = c.free
    BY <2>1, <2>2 DEF Fit, Shape
  <2>4. Held(d) = Held(c)
    BY <2>3 DEF Held, Block, Present
  <2>5. Fit(d)
    BY <2>1, <2>3, <2>4 DEF Fit, Shape, Apart
  <2> QED BY <2>1, <2>2, <2>3, <2>5, DeviceAssumption DEF Fit, Shape
<1> QED BY <1>1, <1>2

LEMMA EnsureFits ==
  ASSUME NEW c, Fit(c), NEW v \in Present(c), NEW d \in Ensure(c, v)
  PROVE  Fit(d) /\ Present(d) = Present(c) /\ Block(d, v) \in Blocks
<1>1. CASE Block(c, v) # None
  BY <1>1 DEF Ensure, Fit, Shape, Replicas, Entry, Present, Block
<1>2. CASE Block(c, v) = None
  <2>1. PICK x \in Allocate(c) : d = [x.cache EXCEPT !.replica[v].block = x.block]
    BY <1>2 DEF Ensure
  <2>2. PICK a : a = x.cache
    OBVIOUS
  <2>3. /\ Fit(a) /\ DOMAIN a = DOMAIN c /\ a.replica = c.replica /\ a.handle = c.handle
        /\ x.block \in Blocks /\ x.block # None /\ x.block \in a.owned
        /\ x.block \notin ToSet(a.free) \cup Held(a) \cup a.lent \cup exported
    BY <2>2, AllocateFits DEF Held, Block, Present
  <2>4. PICK e : e = [c.replica[v] EXCEPT !.block = x.block]
    OBVIOUS
  <2>5. /\ c.replica \in [DOMAIN c.replica -> Entry] /\ Replicas(c.handle, c.replica) /\ v \in DOMAIN c.replica
    BY DEF Fit, Shape, Replicas, Present
  <2>6. e \in Entry /\ e.block = x.block
    BY <2>3, <2>4, <2>5 DEF Entry
  <2>7. /\ DOMAIN d = DOMAIN a /\ d.handle = a.handle /\ d.free = a.free /\ d.lent = a.lent /\ d.owned = a.owned
        /\ d.replica = [c.replica EXCEPT ![v] = e]
    BY <2>1, <2>2, <2>3, <2>4 DEF Fit, Shape
  <2>8. /\ DOMAIN d.replica = DOMAIN c.replica /\ d.replica[v] = e
        /\ \A w \in DOMAIN c.replica \ {v} : d.replica[w] = c.replica[w]
        /\ d.replica \in [DOMAIN d.replica -> Entry]
    BY <2>5, <2>6, <2>7
  <2>9. Replicas(d.handle, d.replica)
    BY <2>3, <2>5, <2>6, <2>7, <2>8 DEF Replicas
  <2>10. Held(d) \subseteq Held(a) \cup {x.block}
    BY <2>3, <2>6, <2>8 DEF Held, Block, Present
  <2>11. Shape(d)
    BY <2>3, <2>7, <2>9, <2>10 DEF Fit, Shape
  <2>12. Apart(d)
    BY <2>3, <2>7, <2>10 DEF Fit, Apart
  <2> QED BY <2>3, <2>6, <2>8, <2>11, <2>12 DEF Fit, Present, Block
<1> QED BY <1>1, <1>2

-------------------------------------------------------------------------------
(* The cache is fit, and so is the snapshot a capture may fall back to. *)
CacheInv ==
  /\ Fit(cache)
  /\ exported \subseteq Blocks /\ lease \in [Leases -> SUBSET Blocks] /\ recorded \subseteq Blocks
  /\ Recording => /\ DOMAIN saved = {"cache", "copy", "void", "lost", "calls"}
                  /\ Fit(saved.cache) /\ saved.cache.lent = {}

(* What is fit stays fit while outsiders let go of blocks. *)
LEMMA FitLater ==
  ASSUME NEW c, Fit(c), UNCHANGED <<view, lease>>, exported' \subseteq exported
  PROVE  (cache' = c => Fit(cache)') /\ (saved'.cache = c => Fit(saved.cache)')
<1>1. Pinned' = Pinned
  BY DEF Pinned
<1>2. ASSUME cache' = c PROVE Fit(cache)'
  BY <1>1, <1>2 DEF Fit, Shape, Apart, Replicas, Held, Block, Present
<1>3. ASSUME saved'.cache = c PROVE Fit(saved.cache)'
  BY <1>1, <1>3 DEF Fit, Shape, Apart, Replicas, Held, Block, Present
<1> QED BY <1>2, <1>3

(* A call that changes the index or the pool, and that a capture may record. *)
LEMMA CallKeeps ==
  ASSUME CacheInv, NEW c, Fit(c), cache' = c, UNCHANGED <<view, lease>>, exported' \subseteq exported,
         NEW bs \in SUBSET Blocks, Record(bs) \/ UNCHANGED <<saved, recorded>>
  PROVE  CacheInv'
<1>1. Fit(cache)'
  BY FitLater
<1>2. exported' \subseteq Blocks /\ lease' \in [Leases -> SUBSET Blocks] /\ recorded' \subseteq Blocks
  BY DEF CacheInv, Record
<1>3. ASSUME Recording'
      PROVE  /\ DOMAIN saved' = {"cache", "copy", "void", "lost", "calls"}
             /\ Fit(saved.cache)' /\ saved'.cache.lent = {}
  <2>1. Recording /\ DOMAIN saved' = DOMAIN saved /\ saved'.cache = saved.cache
    BY <1>3 DEF Recording, Record, CacheInv
  <2>2. PICK d : d = saved.cache
    OBVIOUS
  <2>3. Fit(d)
    BY <2>1, <2>2 DEF CacheInv
  <2>4. Fit(saved.cache)'
    BY <2>1, <2>2, <2>3, FitLater
  <2> QED BY <2>1, <2>4 DEF CacheInv
<1> QED BY <1>1, <1>2, <1>3 DEF CacheInv

LEMMA UsableHasBlock ==
  ASSUME NEW c, Fit(c), NEW v, Usable(c, v)
  PROVE  v \in Present(c) /\ Block(c, v) # None /\ Block(c, v) \in Blocks
  BY DEF Usable, Fit, Shape, Replicas, Present, Block, Entry

(* Two handles are bound before most calls. *)
LEMMA BindBothFits ==
  ASSUME NEW c, Fit(c), NEW s, NEW t
  PROVE  LET d == Bind(Bind(c, s), t) IN
         /\ Fit(d) /\ view[s] \in Present(d) /\ view[t] \in Present(d)
         /\ Present(c) \subseteq Present(d)
         /\ \A v \in Present(c) : d.replica[v] = c.replica[v]
<1>1. PICK a : a = Bind(c, s)
  OBVIOUS
<1>2. /\ Fit(a) /\ view[s] \in Present(a) /\ Present(c) \subseteq Present(a)
      /\ \A v \in Present(c) : a.replica[v] = c.replica[v]
  BY <1>1, BindFits
<1>3. PICK d : d = Bind(a, t)
  OBVIOUS
<1>4. /\ Fit(d) /\ view[t] \in Present(d) /\ Present(a) \subseteq Present(d)
      /\ \A v \in Present(a) : d.replica[v] = a.replica[v]
  BY <1>2, <1>3, BindFits
<1> QED BY <1>1, <1>2, <1>3, <1>4

LEMMA UploadKeeps == ASSUME CacheInv, NEW t \in Tensors, Upload(t) PROVE CacheInv'
<1>1. PICK a : a = Bind(cache, t)
  OBVIOUS
<1>2. Fit(a) /\ view[t] \in Present(a)
  BY <1>1, BindFits DEF CacheInv
<1>3. PICK c \in Ensure(a, view[t]) : /\ cache' = c \/ cache' = Mark(c, view[t], TRUE)
                                      /\ Record({Block(c, view[t])})
  BY <1>1 DEF Upload
<1>4. Fit(c) /\ view[t] \in Present(c) /\ Block(c, view[t]) \in Blocks
  BY <1>2, <1>3, EnsureFits
<1>5. PICK d : d = cache'
  OBVIOUS
<1>6. Fit(d)
  BY <1>3, <1>4, <1>5, MarkFits, DeviceAssumption
<1> QED BY <1>3, <1>4, <1>5, <1>6, CallKeeps DEF Upload

LEMMA KernelWriteKeeps == ASSUME CacheInv, NEW t \in Tensors, KernelWrite(t) PROVE CacheInv'
<1>1. PICK a : a = Bind(cache, t)
  OBVIOUS
<1>2. Fit(a) /\ view[t] \in Present(a)
  BY <1>1, BindFits DEF CacheInv
<1>3. PICK c \in Ensure(a, view[t]) : cache' = Mark(c, view[t], FALSE) /\ Record({Block(c, view[t])})
  BY <1>1 DEF KernelWrite
<1>4. Fit(c) /\ view[t] \in Present(c) /\ Block(c, view[t]) \in Blocks
  BY <1>2, <1>3, EnsureFits
<1>5. PICK d : d = cache'
  OBVIOUS
<1>6. Fit(d)
  BY <1>3, <1>4, <1>5, MarkFits, DeviceAssumption
<1> QED BY <1>3, <1>4, <1>5, <1>6, CallKeeps DEF KernelWrite

LEMMA OutOfMemoryKeeps == ASSUME CacheInv, NEW t \in Tensors, OutOfMemory(t) PROVE CacheInv'
<1>1. PICK d : d = Bind(cache, t)
  OBVIOUS
<1>2. Fit(d)
  BY <1>1, BindFits DEF CacheInv
<1> QED BY <1>1, <1>2, CallKeeps DEF OutOfMemory

(* The host's new version of a storage leaves replicas behind in the snapshot, too. *)
LEMMA HostWriteKeeps ==
  ASSUME CacheInv, NEW t \in Tensors, NEW told \in BOOLEAN, HostWrite(t, told) PROVE CacheInv'
<1>1. PICK a : a = Outdate(cache, view[t].storage)
  OBVIOUS
<1>2. Fit(a)
  BY <1>1, OutdateFits DEF CacheInv
<1>3. PICK b : b = Bind(a, t)
  OBVIOUS
<1>4. Fit(b) /\ view[t] \in Present(b)
  BY <1>2, <1>3, BindFits
<1>5. PICK d : d = cache'
  OBVIOUS
<1>6. d = a \/ d = Invalidate(b, view[t])
  BY <1>1, <1>3, <1>5 DEF HostWrite
<1>7. Fit(d)
  BY <1>2, <1>4, <1>6, InvalidateFits
<1>8. Fit(cache)'
  BY <1>5, <1>7, FitLater DEF HostWrite
<1>9. exported' \subseteq Blocks /\ lease' \in [Leases -> SUBSET Blocks] /\ recorded' \subseteq Blocks
  BY DEF CacheInv, HostWrite
<1>10. ASSUME Recording'
       PROVE  /\ DOMAIN saved' = {"cache", "copy", "void", "lost", "calls"}
              /\ Fit(saved.cache)' /\ saved'.cache.lent = {}
  <2>1. Recording
    BY <1>10 DEF Recording, HostWrite
  <2>2. PICK c : c = Outdate(saved.cache, view[t].storage)
    OBVIOUS
  <2>3. Fit(c) /\ c.lent = {}
    BY <2>1, <2>2, OutdateFits DEF CacheInv
  <2>4. DOMAIN saved' = DOMAIN saved /\ saved'.cache = c
    <3>1. /\ saved' = [saved EXCEPT !.calls = @ + 1, !.cache = c, !.copy = Renew(@, Host(view[t]), view[t]),
                                    !.void = @ \ CellsOf(view[t]), !.lost = @ \ CellsOf(view[t])]
          /\ DOMAIN saved = {"cache", "copy", "void", "lost", "calls"}
      BY <2>1, <2>2 DEF HostWrite, CacheInv
    <3> QED BY <3>1
  <2>5. Fit(saved.cache)'
    BY <2>3, <2>4, FitLater DEF HostWrite
  <2> QED BY <2>1, <2>3, <2>4, <2>5 DEF CacheInv
<1> QED BY <1>8, <1>9, <1>10 DEF CacheInv

LEMMA ReadHostKeeps == ASSUME CacheInv, NEW t \in Tensors, ReadHost(t) PROVE CacheInv'
<1>1. PICK c : c = Bind(cache, t)
  OBVIOUS
<1>2. /\ Fit(c) /\ view[t] \in Present(c)
      /\ view[t] \in Present(cache) /\ c.replica[view[t]] = cache.replica[view[t]]
  BY <1>1, BindFits DEF CacheInv, ReadHost
<1>3. PICK d : d = cache'
  OBVIOUS
<1>4. CASE d = c \/ d = Invalidate(c, view[t])
  <2>1. Fit(d)
    BY <1>2, <1>4, InvalidateFits
  <2> QED BY <1>3, <2>1, CallKeeps DEF ReadHost
<1>5. CASE Pending(cache, view[t]) /\ d = Mark(Refresh(c, view[t]), view[t], TRUE)
  <2>1. PICK r : r = Refresh(c, view[t])
    OBVIOUS
  <2>2. Fit(r) /\ view[t] \in Present(r) /\ Block(r, view[t]) = Block(c, view[t])
    BY <1>2, <2>1, RefreshFits
  <2>3. Block(c, view[t]) # None
    BY <1>2, <1>5, UsableHasBlock DEF CacheInv, Pending, Block
  <2>4. Fit(d)
    BY <1>5, <2>1, <2>2, <2>3, MarkFits
  <2> QED BY <1>3, <2>4, CallKeeps DEF ReadHost
<1> QED BY <1>1, <1>3, <1>4, <1>5 DEF ReadHost

LEMMA MarkPersistentKeeps ==
  ASSUME CacheInv, NEW t, NEW persistent \in BOOLEAN, MarkPersistent(t, persistent) PROVE CacheInv'
<1>1. PICK c : c = Bind(cache, t)
  OBVIOUS
<1>2. Fit(c)
  BY <1>1, BindFits DEF CacheInv
<1>3. PICK d : d = cache'
  OBVIOUS
<1>4. PICK keep : d = [c EXCEPT !.keep = keep]
  BY <1>1, <1>3 DEF MarkPersistent
<1>5. /\ DOMAIN d = DOMAIN c /\ d.handle = c.handle /\ d.replica = c.replica
      /\ d.free = c.free /\ d.lent = c.lent /\ d.owned = c.owned
  BY <1>2, <1>4 DEF Fit, Shape
<1>6. Replicas(d.handle, d.replica) /\ Held(d) = Held(c)
  BY <1>2, <1>5 DEF Fit, Shape, Held, Block, Present
<1>7. Fit(d)
  BY <1>2, <1>5, <1>6, Reindexed
<1> QED BY <1>3, <1>7, CallKeeps DEF MarkPersistent

LEMMA ReleaseKeeps == ASSUME CacheInv, NEW t \in Tensors, Release(t) PROVE CacheInv'
<1>1. PICK c : c = IF IsLast(cache, t) THEN ReleaseBlock(cache, view[t]) ELSE cache
  OBVIOUS
<1>2. Fit(c)
  BY <1>1, ReleaseBlockFits DEF CacheInv, Release
<1>3. PICK d : d = EraseHandle(c, t)
  OBVIOUS
<1>4. Fit(d)
  BY <1>2, <1>3, EraseHandleFits
<1>5. cache' = d
  BY <1>1, <1>3 DEF Release
<1> QED BY <1>4, <1>5, CallKeeps DEF Release

(* A block that goes back to the driver was held by the erased replica only. *)
LEMMA UnregisterKeeps == ASSUME CacheInv, NEW t \in Tensors, Unregister(t) PROVE CacheInv'
<1>1. PICK e : e = EraseHandle(cache, t)
  OBVIOUS
<1>2. /\ Fit(e) /\ e.free = cache.free /\ e.lent = cache.lent /\ e.owned = cache.owned
      /\ Held(e) \subseteq {Block(cache, v) : v \in Present(cache) \ (IF IsLast(cache, t) THEN {view[t]} ELSE {})} \ {None}
  BY <1>1, EraseHandleFits DEF CacheInv
<1>3. PICK b : b = Block(cache, view[t])
  OBVIOUS
<1>4. PICK d : d = cache'
  OBVIOUS
<1>5. PICK keep, owned : /\ d = [e EXCEPT !.keep = keep, !.owned = owned]
                         /\ owned = IF IsLast(cache, t) /\ ~({} # Sharing(cache, view[t]) \/ b \in exported)
                                    THEN e.owned \ {b} ELSE e.owned
  BY <1>1, <1>3, <1>4 DEF Unregister
<1>6. /\ DOMAIN d = DOMAIN e /\ d.handle = e.handle /\ d.replica = e.replica
      /\ d.free = e.free /\ d.lent = e.lent /\ d.owned = owned
  BY <1>2, <1>5 DEF Fit, Shape
<1>7. Replicas(d.handle, d.replica) /\ Held(d) = Held(e)
  BY <1>2, <1>6 DEF Fit, Shape, Held, Block, Present
<1>8. CASE owned = e.owned
  <2>1. Fit(d)
    BY <1>2, <1>6, <1>7, <1>8, Reindexed
  <2> QED BY <1>4, <2>1, CallKeeps DEF Unregister
<1>9. CASE IsLast(cache, t) /\ Sharing(cache, view[t]) = {} /\ owned = e.owned \ {b}
  <2>1. b \notin Held(e)
    BY <1>2, <1>3, <1>9 DEF Sharing
  <2>2. b \notin ToSet(e.free) \cup e.lent
    <3>1. view[t] \in Present(cache)
      BY DEF Unregister, CacheInv, Fit, Shape, Replicas, Present
    <3>2. CASE b = None
      BY <1>2, <3>2, DeviceAssumption DEF Fit, Shape
    <3>3. CASE b # None
      BY <1>2, <1>3, <3>1, <3>3 DEF CacheInv, Fit, Apart, Held
    <3> QED BY <3>2, <3>3
  <2>3. Fit(d)
    BY <1>2, <1>6, <1>7, <1>9, <2>1, <2>2 DEF Fit, Shape, Apart
  <2> QED BY <1>4, <2>3, CallKeeps DEF Unregister
<1> QED BY <1>5, <1>8, <1>9

(* A replica may take over another one's block: nothing new is held. *)
LEMMA RepointFits ==
  ASSUME NEW c, Fit(c), NEW v \in Present(c), NEW w \in Present(c), Block(c, v) # None
  PROVE  LET d == [c EXCEPT !.replica[w].block = Block(c, v)] IN
         Fit(d) /\ w \in Present(d) /\ Block(d, w) # None
<1>1. PICK e : e = [c.replica[w] EXCEPT !.block = Block(c, v)]
  OBVIOUS
<1>2. /\ c.replica \in [DOMAIN c.replica -> Entry] /\ Replicas(c.handle, c.replica)
      /\ v \in DOMAIN c.replica /\ w \in DOMAIN c.replica
  BY DEF Fit, Shape, Replicas, Present
<1>3. e \in Entry /\ e.block = Block(c, v)
  BY <1>1, <1>2 DEF Entry, Block
<1>4. PICK d : d = [c EXCEPT !.replica[w] = e]
  OBVIOUS
<1>5. d = [c EXCEPT !.replica[w].block = Block(c, v)]
  BY <1>1, <1>4
<1>6. /\ DOMAIN d = DOMAIN c /\ d.handle = c.handle /\ d.free = c.free /\ d.lent = c.lent /\ d.owned = c.owned
      /\ d.replica = [c.replica EXCEPT ![w] = e]
  BY <1>4 DEF Fit, Shape
<1>7. /\ DOMAIN d.replica = DOMAIN c.replica /\ d.replica[w] = e
      /\ \A x \in DOMAIN c.replica \ {w} : d.replica[x] = c.replica[x]
      /\ d.replica \in [DOMAIN d.replica -> Entry]
  BY <1>2, <1>3, <1>6
<1>8. Replicas(d.handle, d.replica)
  BY <1>2, <1>3, <1>6, <1>7 DEF Replicas
<1>9. Held(d) \subseteq Held(c)
  BY <1>2, <1>3, <1>7 DEF Held, Block, Present
<1>10. Fit(d)
  BY <1>6, <1>8, <1>9, Reindexed
<1> QED BY <1>2, <1>3, <1>5, <1>7, <1>10 DEF Present, Block

(* Two replicas may change places. *)
Swapped(c, v, w, keep, d) ==
  d = [c EXCEPT !.replica[v] = c.replica[w], !.replica[w] = c.replica[v], !.keep = keep]
LEMMA SwapFits ==
  ASSUME NEW c, Fit(c), NEW v \in Present(c), NEW w \in Present(c), NEW keep,
         NEW d, Swapped(c, v, w, keep, d)
  PROVE  Fit(d) /\ Present(d) = Present(c) /\ Block(d, v) = Block(c, w) /\ Block(d, w) = Block(c, v)
<1>1. /\ DOMAIN d = DOMAIN c /\ d.handle = c.handle /\ d.free = c.free /\ d.lent = c.lent /\ d.owned = c.owned
      /\ d.replica = [[c.replica EXCEPT ![v] = c.replica[w]] EXCEPT ![w] = c.replica[v]]
  BY DEF Swapped, Fit, Shape
<1>2. /\ c.replica \in [DOMAIN c.replica -> Entry] /\ Replicas(c.handle, c.replica)
      /\ v \in DOMAIN c.replica /\ w \in DOMAIN c.replica
  BY DEF Fit, Shape, Replicas, Present
<1>3. /\ DOMAIN d.replica = DOMAIN c.replica /\ d.replica[v] = c.replica[w] /\ d.replica[w] = c.replica[v]
      /\ \A x \in DOMAIN c.replica \ {v, w} : d.replica[x] = c.replica[x]
      /\ d.replica \in [DOMAIN d.replica -> Entry]
  BY <1>1, <1>2
<1>4. Replicas(d.handle, d.replica)
  BY <1>1, <1>2, <1>3 DEF Replicas
<1>5. Held(d) \subseteq Held(c)
  BY <1>2, <1>3 DEF Held, Block, Present
<1>6. Fit(d)
  BY <1>1, <1>4, <1>5, Reindexed
<1> QED BY <1>3, <1>6 DEF Present, Block

LEMMA AliasKeeps == ASSUME CacheInv, NEW s \in Tensors, NEW t \in Tensors, Alias(s, t) PROVE CacheInv'
<1>1. PICK v, w : v = view[s] /\ w = view[t]
  OBVIOUS
<1>2. PICK c : c = Bind(Bind(cache, s), t)
  OBVIOUS
<1>3. v \in Present(cache) /\ Block(cache, v) # None /\ Block(cache, v) \in Blocks
  BY <1>1, UsableHasBlock DEF Alias, CacheInv
<1>4. Fit(c) /\ v \in Present(c) /\ w \in Present(c) /\ Block(c, v) = Block(cache, v)
  BY <1>1, <1>2, <1>3, BindBothFits DEF CacheInv, Block
<1>5. PICK d : d = IF Block(c, w) # Block(c, v) THEN ReleaseBlock(c, w) ELSE c
  OBVIOUS
<1>6. Fit(d) /\ v \in Present(d) /\ w \in Present(d) /\ Block(d, v) = Block(c, v)
  <2>1. CASE Block(c, w) = Block(c, v)
    BY <1>4, <1>5, <2>1
  <2>2. CASE Block(c, w) # Block(c, v)
    BY <1>4, <1>5, <2>2, ReleaseBlockFits DEF Block
  <2> QED BY <2>1, <2>2
<1>7. PICK e : e = [d EXCEPT !.replica[w].block = Block(d, v)]
  OBVIOUS
<1>8. Fit(e) /\ w \in Present(e) /\ Block(e, w) # None
  BY <1>3, <1>4, <1>6, <1>7, RepointFits
<1>9. PICK m : m = Mark(e, w, FALSE)
  OBVIOUS
<1>10. Fit(m)
  BY <1>8, <1>9, MarkFits
<1>11. cache' = m /\ Record({Block(c, v)})
  BY <1>1, <1>2, <1>5, <1>7, <1>9 DEF Alias
<1>12. {Block(c, v)} \in SUBSET Blocks
  BY <1>3, <1>4
<1> QED BY <1>10, <1>11, <1>12, CallKeeps DEF Alias

LEMMA StateOnDeviceKeeps ==
  ASSUME CacheInv, NEW s, NEW o, NEW c \in Ensure(Bind(Bind(cache, s), o), view[s]),
         cache' = Mark(c, view[s], FALSE), UNCHANGED <<view, exported, saved, recorded, lease>>
  PROVE  CacheInv'
<1>1. PICK a : a = Bind(Bind(cache, s), o)
  OBVIOUS
<1>2. Fit(a) /\ view[s] \in Present(a)
  BY <1>1, BindBothFits DEF CacheInv
<1>3. Fit(c) /\ view[s] \in Present(c) /\ Block(c, view[s]) # None
  BY <1>1, <1>2, EnsureFits, DeviceAssumption
<1>4. PICK d : d = cache'
  OBVIOUS
<1>5. Fit(d)
  BY <1>3, <1>4, MarkFits
<1> QED BY <1>4, <1>5, CallKeeps

LEMMA SwapStateKeeps == ASSUME CacheInv, NEW s, NEW o, SwapState(s, o) PROVE CacheInv'
<1>1. PICK v, w : v = view[s] /\ w = view[o]
  OBVIOUS
<1>2. PICK c : c = Bind(Bind(cache, s), o)
  OBVIOUS
<1>3. /\ v \in Present(cache) /\ Block(cache, v) # None
      /\ w \in Present(cache) /\ Block(cache, w) # None
  BY <1>1 DEF SwapState, CacheInv, Fit, Shape, Replicas, Present, Block
<1>4. Fit(c) /\ v \in Present(c) /\ w \in Present(c) /\ Block(c, v) # None /\ Block(c, w) # None
  BY <1>1, <1>2, <1>3, BindBothFits DEF CacheInv, Block
<1>5. PICK keep : keep = c.keep \cup (IF Persistent(c, v) \/ Persistent(c, w) THEN {s, o} ELSE {})
  OBVIOUS
<1>6. PICK d : Swapped(c, v, w, keep, d)
  BY DEF Swapped
<1>7. Fit(d) /\ v \in Present(d) /\ w \in Present(d) /\ Block(d, v) # None /\ Block(d, w) # None
  <2>1. Fit(d) /\ Present(d) = Present(c) /\ Block(d, v) = Block(c, w) /\ Block(d, w) = Block(c, v)
    BY <1>4, <1>6, SwapFits
  <2> QED BY <1>4, <2>1
<1>8. PICK m : m = Mark(d, v, FALSE)
  OBVIOUS
<1>9. Fit(m) /\ w \in Present(m) /\ Block(m, w) # None
  BY <1>7, <1>8, MarkFits
<1>10. PICK n : n = Mark(m, w, FALSE)
  OBVIOUS
<1>11. Fit(n)
  BY <1>9, <1>10, MarkFits
<1>12. cache' = n
  BY <1>1, <1>2, <1>5, <1>6, <1>8, <1>10 DEF SwapState, Swapped
<1> QED BY <1>11, <1>12, CallKeeps DEF SwapState

(* Scratch memory is lent from the pool, and comes back to it unless a capture pins it. *)
LEMMA BorrowKeeps == ASSUME CacheInv, Borrow PROVE CacheInv'
<1>1. PICK x \in Allocate(cache) : cache' = [x.cache EXCEPT !.lent = x.cache.lent \cup {x.block}] /\ Record({x.block})
  BY DEF Borrow
<1>2. PICK a : a = x.cache
  OBVIOUS
<1>3. /\ Fit(a) /\ a.replica = cache.replica /\ a.lent = cache.lent
      /\ x.block \in Blocks /\ x.block \in a.owned
      /\ x.block \notin ToSet(a.free) \cup Held(a) \cup a.lent \cup exported
  BY <1>2, AllocateFits DEF CacheInv, Held, Block, Present
<1>4. PICK d : d = cache'
  OBVIOUS
<1>5. /\ DOMAIN d = DOMAIN a /\ d.handle = a.handle /\ d.replica = a.replica
      /\ d.free = a.free /\ d.lent = a.lent \cup {x.block} /\ d.owned = a.owned
  BY <1>1, <1>2, <1>3, <1>4 DEF Fit, Shape
<1>6. Held(d) = Held(a)
  BY <1>5 DEF Held, Block, Present
<1>7. Shape(d) /\ Apart(d)
  BY <1>3, <1>5, <1>6 DEF Fit, Shape, Apart
<1> QED BY <1>1, <1>3, <1>4, <1>7, CallKeeps DEF Borrow, Fit

LEMMA GiveBackKeeps == ASSUME CacheInv, NEW b \in Blocks, GiveBack(b) PROVE CacheInv'
<1>1. PICK d : d = cache'
  OBVIOUS
<1>2. /\ DOMAIN d = DOMAIN cache /\ d.handle = cache.handle /\ d.replica = cache.replica
      /\ d.lent = cache.lent \ {b} /\ d.owned = cache.owned
      /\ d.free = IF b \in Pinned THEN cache.free ELSE Append(cache.free, b)
  BY <1>1 DEF GiveBack, CacheInv, Fit, Shape
<1>3. Held(d) = Held(cache)
  BY <1>2 DEF Held, Block, Present
<1>4. b \in cache.lent /\ b \in cache.owned /\ b \notin ToSet(cache.free) \cup Held(cache) \cup exported
  BY DEF GiveBack, CacheInv, Fit, Shape, Apart
<1>5. Pool(d.free) /\ ToSet(d.free) \subseteq ToSet(cache.free) \cup {b} /\ ToSet(d.free) \cap Pinned = {}
  BY <1>2, <1>4, PoolAppend DEF CacheInv, Fit, Shape, Apart
<1>6. b \notin d.lent
  BY <1>2
<1>7. Shape(d) /\ Apart(d)
  BY <1>2, <1>3, <1>4, <1>5, <1>6 DEF CacheInv, Fit, Shape, Apart
<1> QED BY <1>1, <1>7, CallKeeps DEF GiveBack, Fit

(* Only a block that a replica holds is handed out, so it is in nobody else's use. *)
LEMMA ExportKeeps == ASSUME CacheInv, NEW t \in Tensors, Export(t) PROVE CacheInv'
<1>1. PICK d : d = Bind(cache, t)
  OBVIOUS
<1>2. /\ Fit(d) /\ Held(d) = Held(cache)
      /\ d.free = cache.free /\ d.lent = cache.lent /\ d.owned = cache.owned
  BY <1>1, BindFits DEF CacheInv
<1>3. PICK b : b = Block(cache, view[t])
  OBVIOUS
<1>4. b \in Held(d) /\ b \in Blocks
  BY <1>2, <1>3 DEF Export, Held, Fit, Shape
<1>5. /\ cache' = d /\ exported' = exported \cup {b} /\ ~Recording
      /\ UNCHANGED <<view, saved, recorded, lease>>
  BY <1>1, <1>3 DEF Export
<1>6. Pinned' = Pinned
  BY <1>5 DEF Pinned
<1>7. Shape(cache)'
  BY <1>2, <1>5 DEF Fit, Shape, Replicas, Held, Block, Present
<1>8. b \notin ToSet(d.free) /\ b \notin d.lent
  BY <1>2, <1>4 DEF Fit, Apart
<1>9. Held(cache)' = Held(d)
  BY <1>5 DEF Held, Block, Present
<1>10. Apart(cache)'
  BY <1>2, <1>5, <1>6, <1>8, <1>9 DEF Fit, Apart
<1> QED BY <1>4, <1>5, <1>7, <1>10 DEF CacheInv, Fit, Recording

LEMMA DropExportKeeps == ASSUME CacheInv, NEW b \in Blocks, DropExport(b) PROVE CacheInv'
<1>1. PICK d : d = cache
  OBVIOUS
<1>2. Fit(d) /\ cache' = d /\ exported' \subseteq exported /\ UNCHANGED <<view, lease, saved, recorded>>
  BY <1>1 DEF CacheInv, DropExport
<1> QED BY <1>2, CallKeeps

(* A capture starts while no scratch memory is lent; falling back restores that pool. *)
LEMMA BeginCaptureKeeps == ASSUME CacheInv, BeginCapture PROVE CacheInv'
<1>1. PICK d : d = cache
  OBVIOUS
<1>2. /\ Fit(d) /\ d.lent = {} /\ cache' = d /\ UNCHANGED <<view, exported, lease>> /\ recorded' = {}
      /\ saved' = [cache |-> d, copy |-> copy, void |-> void, lost |-> lost, calls |-> 0]
  BY <1>1 DEF CacheInv, BeginCapture
<1>3. DOMAIN saved' = {"cache", "copy", "void", "lost", "calls"} /\ saved'.cache = d
  BY <1>2
<1>4. Fit(cache)' /\ Fit(saved.cache)'
  BY <1>2, <1>3, FitLater
<1> QED BY <1>2, <1>3, <1>4 DEF CacheInv

LEMMA RollbackKeeps ==
  ASSUME CacheInv, NEW c, Fit(c), NEW undefined, Rollback(c, undefined)
  PROVE  CacheInv'
<1>1. cache' = c /\ saved' = <<>> /\ recorded' = {} /\ UNCHANGED <<view, exported, lease>>
  BY DEF Rollback
<1>2. Fit(cache)'
  BY <1>1, FitLater
<1> QED BY <1>1, <1>2 DEF CacheInv, Recording

LEMMA FallBackKeeps ==
  ASSUME CacheInv, Abandon \/ \E t \in Tensors : FailedRead(t)
  PROVE  CacheInv'
<1>1. CASE Abandon
  BY <1>1, RollbackKeeps DEF Abandon, CacheInv
<1>2. CASE \E t \in Tensors : FailedRead(t)
  <2>1. PICK t \in Tensors : FailedRead(t)
    BY <1>2
  <2>2. PICK c : c = Outdate(saved.cache, view[t].storage)
    OBVIOUS
  <2>3. Fit(c)
    BY <2>1, <2>2, OutdateFits DEF FailedRead, CacheInv
  <2>4. PICK undefined : Rollback(c, undefined)
    BY <2>1, <2>2 DEF FailedRead
  <2> QED BY <2>3, <2>4, RollbackKeeps
<1> QED BY <1>1, <1>2

(* A retained capture takes its blocks out of the pool. *)
LEMMA RetainKeeps == ASSUME CacheInv, NEW l \in Leases, Retain(l) PROVE CacheInv'
<1>1. PICK rest \in Without(cache.free, recorded) : cache' = [cache EXCEPT !.free = rest]
  BY DEF Retain
<1>2. ToSet(cache.free) \ recorded \in SUBSET Blocks
  BY DEF CacheInv, Fit, Shape
<1>3. Pool(rest) /\ ToSet(rest) \subseteq ToSet(cache.free) \ recorded
  BY <1>1, <1>2, PoolOf DEF Without
<1>4. /\ DOMAIN cache' = DOMAIN cache /\ cache'.handle = cache.handle /\ cache'.replica = cache.replica
      /\ cache'.lent = cache.lent /\ cache'.owned = cache.owned /\ cache'.free = rest
  BY <1>1 DEF CacheInv, Fit, Shape
<1>5. /\ lease' = [lease EXCEPT ![l] = recorded] /\ saved' = <<>> /\ recorded' = {}
      /\ UNCHANGED <<view, exported>>
  BY DEF Retain
<1>6. lease' \in [Leases -> SUBSET Blocks] /\ Pinned' \subseteq Pinned \cup recorded
  BY <1>5 DEF CacheInv, Pinned
<1>7. Held(cache)' = Held(cache)
  BY <1>4 DEF Held, Block, Present
<1>8. Shape(cache)'
  BY <1>3, <1>4, <1>5, <1>7 DEF CacheInv, Fit, Shape, Replicas
<1>9. Apart(cache)'
  BY <1>3, <1>4, <1>5, <1>6, <1>7 DEF CacheInv, Fit, Apart
<1> QED BY <1>5, <1>6, <1>8, <1>9 DEF CacheInv, Fit, Recording

(* A capture given up puts into the pool what nothing else has or pins. *)
LEMMA EndLeaseKeeps == ASSUME CacheInv, NEW l \in Leases, EndLease(l) PROVE CacheInv'
<1>1. PICK unpinned : unpinned = lease[l] \ UNION {lease[k] : k \in Leases \ {l}}
  OBVIOUS
<1>2. PICK recycled : recycled = unpinned \ (cache.lent \cup Held(cache) \cup exported)
  OBVIOUS
<1>3. PICK order \in SetToSeqs(recycled \ ToSet(cache.free)) :
        cache' = [cache EXCEPT !.owned = cache.owned \cup recycled, !.free = cache.free \o order]
  BY <1>1, <1>2 DEF EndLease
<1>4. recycled \in SUBSET Blocks
  BY <1>1, <1>2 DEF CacheInv
<1>5. Pool(order) /\ ToSet(order) \subseteq recycled \ ToSet(cache.free)
  BY <1>3, <1>4, PoolOf
<1>6. Pool(cache.free \o order) /\ ToSet(cache.free \o order) \subseteq ToSet(cache.free) \cup recycled
  BY <1>5, PoolConcat DEF CacheInv, Fit, Shape
<1>7. /\ DOMAIN cache' = DOMAIN cache /\ cache'.handle = cache.handle /\ cache'.replica = cache.replica
      /\ cache'.lent = cache.lent /\ cache'.owned = cache.owned \cup recycled /\ cache'.free = cache.free \o order
  BY <1>3 DEF CacheInv, Fit, Shape
<1>8. lease' = [lease EXCEPT ![l] = {}] /\ ~Recording /\ UNCHANGED <<view, exported, saved, recorded>>
  BY DEF EndLease
<1>9. lease' \in [Leases -> SUBSET Blocks] /\ Pinned' \subseteq Pinned /\ Pinned' \cap recycled = {}
  <2>1. \A k \in Leases : lease'[k] = IF k = l THEN {} ELSE lease[k]
    BY <1>8 DEF CacheInv
  <2>2. lease' \in [Leases -> SUBSET Blocks]
    BY <1>8 DEF CacheInv
  <2>3. Pinned' \subseteq Pinned
    BY <2>1 DEF Pinned
  <2>4. Pinned' \cap recycled = {}
    BY <1>1, <1>2, <2>1 DEF Pinned
  <2> QED BY <2>2, <2>3, <2>4
<1>10. Held(cache)' = Held(cache)
  BY <1>7 DEF Held, Block, Present
<1>11. Shape(cache)'
  BY <1>4, <1>6, <1>7, <1>8, <1>10 DEF CacheInv, Fit, Shape, Replicas
<1>12. Apart(cache)'
  BY <1>2, <1>6, <1>7, <1>8, <1>9, <1>10 DEF CacheInv, Fit, Apart
<1> QED BY <1>8, <1>9, <1>11, <1>12 DEF CacheInv, Fit, Recording

-------------------------------------------------------------------------------
LEMMA CacheInvInitially == Init => CacheInv
<1> SUFFICES ASSUME Init PROVE CacheInv
  OBVIOUS
<1>1. /\ cache = [handle |-> {}, keep |-> {}, replica |-> [v \in {} |-> Empty], free |-> <<>>, owned |-> {}, lent |-> {}]
      /\ exported = {} /\ saved = <<>> /\ recorded = {} /\ lease = [l \in Leases |-> {}]
  BY DEF Init
<1>2. ToSet(cache.free) = {} /\ Pool(cache.free)
  BY <1>1 DEF ToSet, Pool, IsInjective
<1>3. Replicas(cache.handle, cache.replica) /\ Held(cache) = {}
  BY <1>1 DEF Replicas, Held, Present, Block
<1>4. Fit(cache)
  BY <1>1, <1>2, <1>3 DEF Fit, Shape, Apart
<1> QED BY <1>1, <1>4 DEF CacheInv, Recording

LEMMA CacheInvPreserved == CacheInv /\ [Next]_vars => CacheInv'
<1> SUFFICES ASSUME CacheInv, [Next]_vars PROVE CacheInv'
  OBVIOUS
<1>1. ASSUME NEW t \in Tensors,
             Upload(t) \/ KernelWrite(t) \/ OutOfMemory(t) \/ ReadHost(t) \/ Release(t) \/ Unregister(t) \/ Export(t)
      PROVE  CacheInv'
  BY <1>1, UploadKeeps, KernelWriteKeeps, OutOfMemoryKeeps, ReadHostKeeps, ReleaseKeeps, UnregisterKeeps, ExportKeeps
<1>2. ASSUME NEW t \in Tensors, NEW told \in BOOLEAN, HostWrite(t, told) PROVE CacheInv'
  BY <1>2, HostWriteKeeps
<1>3. ASSUME NEW s \in States, NEW b \in BOOLEAN, MarkPersistent(s, b) PROVE CacheInv'
  BY <1>3, MarkPersistentKeeps
<1>4. ASSUME NEW s \in Tensors, NEW t \in Tensors, Alias(s, t) PROVE CacheInv'
  BY <1>4, AliasKeeps
<1>5. ASSUME NEW s \in States, NEW o \in Tensors, CopyState(s, o) \/ AppendState(s, o) PROVE CacheInv'
  BY <1>5, StateOnDeviceKeeps DEF CopyState, AppendState
<1>6. ASSUME NEW s \in States, NEW o \in Tensors, SwapState(s, o) PROVE CacheInv'
  BY <1>6, SwapStateKeeps
<1>7. CASE Borrow \/ BeginCapture
  BY <1>7, BorrowKeeps, BeginCaptureKeeps
<1>8. CASE Abandon \/ \E t \in Tensors : FailedRead(t)
  BY <1>8, FallBackKeeps
<1>9. ASSUME NEW b \in Blocks, GiveBack(b) \/ DropExport(b) PROVE CacheInv'
  BY <1>9, GiveBackKeeps, DropExportKeeps
<1>10. ASSUME NEW l \in Leases, Retain(l) \/ EndLease(l) PROVE CacheInv'
  BY <1>10, RetainKeeps, EndLeaseKeeps
<1>11. CASE UNCHANGED vars
  <2>1. PICK d : d = cache
    OBVIOUS
  <2>2. Fit(d) /\ cache' = d /\ exported' \subseteq exported /\ UNCHANGED <<view, lease, saved, recorded>>
    BY <1>11, <2>1 DEF CacheInv, vars
  <2> QED BY <2>2, CallKeeps
<1> QED BY <1>1, <1>2, <1>3, <1>4, <1>5, <1>6, <1>7, <1>8, <1>9, <1>10, <1>11 DEF Next

(* Whatever calls come in whatever order, and however captures end, a block has one use
   at a time: replica, scratch memory, exported Storage, retained capture, or the pool
   that hands it out again (runtime.cu, ReleaseTensorDevice to CaptureAllocationScope). *)
THEOREM EveryBlockHasOneUse == Spec => []BlocksHaveOneUse
<1>1. CacheInv => BlocksHaveOneUse
  BY DEF CacheInv, Fit, Shape, Apart, Pool, BlocksHaveOneUse
<1> QED BY <1>1, CacheInvInitially, CacheInvPreserved, PTL DEF Spec

-------------------------------------------------------------------------------
(* The values.  What matters of a cache are the views whose copy on the device is usable,
   those of them whose copy on the host is stale, and the block of each view. *)
Views == {view[t] : t \in Tensors}
Places == Cells \cup (Blocks \X (0..BlockCells - 1))
Memory(m) == m \in [Places -> SUBSET Cells]
Start(b) == <<b, 0>>
Contents(v, g) == g \in [0..v.bytes - 1 -> SUBSET Cells]
At(b, v, x) == <<b, x[2] - v.offset>>
Alone(D, v, x) == \A w \in D \ {v} : x \notin CellsOf(w)
UsableIn(c) == {v \in Present(c) : Usable(c, v)}
PendingIn(c) == {v \in Present(c) : Pending(c, v)}
BlockIn(c) == [v \in Present(c) |-> Block(c, v)]

Domains(U, D, B) == U \subseteq Views /\ D \subseteq U /\ \A v \in U : B[v] \in Blocks
(* A host cell that no view has pending holds its latest value; so does the place of a block
   for a cell of a usable view, unless another view has the cell pending. *)
HostLatest(D, m, u) == \A x \in Cells \ u : (\A v \in D : x \notin CellsOf(v)) => x \in m[x]
DeviceLatest(U, D, B, m, u) == \A v \in U : \A x \in CellsOf(v) \ u : Alone(D, v, x) => x \in m[At(B[v], v, x)]
(* Where two pending views, or a pending one and one that shares its block, are the same
   cells, these have no defined value. *)
PendingApart(D, u) == \A v, w \in D : v # w => CellsOf(v) \cap CellsOf(w) \subseteq u
SharersApart(U, D, B, u) == \A v \in D, w \in U : v # w /\ B[v] = B[w] => CellsOf(v) \cap CellsOf(w) \subseteq u
Latest(U, D, B, m, u) ==
  /\ Domains(U, D, B) /\ Memory(m) /\ u \subseteq Cells
  /\ HostLatest(D, m, u) /\ DeviceLatest(U, D, B, m, u) /\ PendingApart(D, u) /\ SharersApart(U, D, B, u)

(* A view and its cells. *)
LEMMA ViewFacts ==
  ASSUME view \in Layouts, NEW v \in Views
  PROVE  v.storage \notin Blocks /\ v.offset \in Nat /\ v.bytes \in 1..BlockCells /\ v.bytes \in Nat /\ CellsOf(v) \subseteq Cells
<1>1. PICK t \in Tensors : v = view[t]
  BY DEF Views
<1>2. v.storage \notin Blocks /\ v.offset \in Nat /\ v.bytes \in 1..BlockCells
  BY <1>1, DeviceAssumption DEF Tensors
<1>3. CellsOf(v) \subseteq Cells
  BY <1>1 DEF Cells
<1> QED BY <1>2, <1>3

LEMMA CellFacts ==
  ASSUME view \in Layouts, NEW v \in Views, NEW x \in CellsOf(v)
  PROVE  /\ x = <<x[1], x[2]>> /\ x[1] = v.storage /\ x[1] \notin Blocks /\ x[2] \in Nat
         /\ x[2] - v.offset \in 0..v.bytes - 1 /\ x[2] - v.offset \in 0..BlockCells - 1
         /\ x \in Cells /\ x \in Places
<1>1. PICK i \in 0..v.bytes - 1 : x = <<v.storage, v.offset + i>>
  BY DEF CellsOf
<1>2. v.storage \notin Blocks /\ v.offset \in Nat /\ v.bytes \in 1..BlockCells /\ v.bytes \in Nat /\ CellsOf(v) \subseteq Cells
  BY ViewFacts
<1>3. x = <<x[1], x[2]>> /\ x[1] = v.storage /\ x[2] = v.offset + i
  BY <1>1
<1>4. x[2] \in Nat /\ x[2] - v.offset = i
  BY <1>2, <1>3
<1>5. i \in 0..BlockCells - 1
  BY <1>2, DeviceAssumption
<1> QED BY <1>2, <1>3, <1>4, <1>5 DEF Places

LEMMA IsCell ==
  ASSUME view \in Layouts, NEW v \in Views, NEW i \in 0..v.bytes - 1
  PROVE  <<v.storage, v.offset + i>> \in CellsOf(v)
  BY DEF CellsOf

LEMMA HostPlace ==
  ASSUME view \in Layouts, NEW x \in Cells
  PROVE  x[1] \notin Blocks /\ x \in Places /\ x = <<x[1], x[2]>>
<1>1. PICK t \in Tensors : x \in CellsOf(view[t])
  BY DEF Cells
<1> QED BY <1>1, CellFacts DEF Views

(* A place of a block for each cell of a view. *)
LEMMA DevicePlace ==
  ASSUME view \in Layouts, NEW v \in Views, NEW x \in CellsOf(v), NEW b \in Blocks
  PROVE  At(b, v, x) \in Places /\ At(b, v, x)[1] = b /\ At(b, v, x)[2] = x[2] - v.offset
         /\ At(b, v, x) \notin Cells
<1>1. x[2] - v.offset \in 0..BlockCells - 1
  BY CellFacts
<1>2. At(b, v, x) \in Places /\ At(b, v, x)[1] = b /\ At(b, v, x)[2] = x[2] - v.offset
  BY <1>1 DEF At, Places
<1> QED BY <1>2, HostPlace

-------------------------------------------------------------------------------
(* What the operations on the memory do, place by place. *)
LEMMA DevicePut ==
  ASSUME view \in Layouts, NEW m, Memory(m), NEW v \in Views, NEW b \in Blocks, NEW g, Contents(v, g),
         NEW q, q = Put(m, Start(b), g)
  PROVE  /\ Memory(q)
         /\ \A p \in Places : p[1] # b => q[p] = m[p]
         /\ \A x \in CellsOf(v) : q[At(b, v, x)] = g[x[2] - v.offset]
<1>2. q = [p \in Places |-> IF p[1] = b /\ p[2] - 0 \in 0..v.bytes - 1 THEN g[p[2] - 0] ELSE m[p]]
  BY DEF Put, Memory, Contents, Start
<1>3. Memory(q)
  BY <1>2 DEF Memory, Contents
<1>4. \A p \in Places : p[1] # b => q[p] = m[p]
  BY <1>2
<1>5. ASSUME NEW x \in CellsOf(v) PROVE q[At(b, v, x)] = g[x[2] - v.offset]
  <2>1. x[2] - v.offset \in 0..v.bytes - 1
    BY CellFacts
  <2>2. PICK i : i = x[2] - v.offset
    OBVIOUS
  <2>3. PICK p : p = At(b, v, x)
    OBVIOUS
  <2>4. p \in Places /\ p[1] = b /\ p[2] = i
    BY <2>2, <2>3, DevicePlace
  <2>5. i \in 0..v.bytes - 1 /\ i - 0 = i
    BY <2>1, <2>2, ViewFacts
  <2> QED BY <1>2, <2>2, <2>3, <2>4, <2>5
<1> QED BY <1>3, <1>4, <1>5

LEMMA HostPut ==
  ASSUME view \in Layouts, NEW m, Memory(m), NEW v \in Views, NEW g, Contents(v, g),
         NEW q, q = Put(m, Host(v), g)
  PROVE  /\ Memory(q)
         /\ \A p \in Places \ CellsOf(v) : q[p] = m[p]
         /\ \A x \in CellsOf(v) : q[x] = g[x[2] - v.offset]
<1>2. q = [p \in Places |-> IF p[1] = v.storage /\ p[2] - v.offset \in 0..v.bytes - 1 THEN g[p[2] - v.offset] ELSE m[p]]
  BY DEF Put, Host, Memory, Contents
<1>3. Memory(q)
  BY <1>2 DEF Memory, Contents
<1>4. ASSUME NEW p \in Places \ CellsOf(v) PROVE q[p] = m[p]
  <2>1. CASE p[1] = v.storage /\ p[2] - v.offset \in 0..v.bytes - 1
    <3>1. PICK i \in 0..v.bytes - 1 : i = p[2] - v.offset
      BY <2>1
    <3>2. v.storage \notin Blocks /\ v.offset \in Nat
      BY ViewFacts
    <3>3. p \in Cells
      BY <2>1, <3>2 DEF Places
    <3>4. PICK t \in Tensors : p \in CellsOf(view[t])
      BY <3>3 DEF Cells
    <3>5. p[2] \in Nat /\ p = <<p[1], p[2]>>
      BY <3>4, CellFacts DEF Views
    <3>6. p[2] = v.offset + i
      BY <3>1, <3>2, <3>5
    <3>7. p \in CellsOf(v)
      BY <2>1, <3>5, <3>6, IsCell
    <3> QED BY <3>7
  <2>2. CASE ~(p[1] = v.storage /\ p[2] - v.offset \in 0..v.bytes - 1)
    BY <1>2, <2>2
  <2> QED BY <2>1, <2>2
<1>5. \A x \in CellsOf(v) : q[x] = g[x[2] - v.offset]
  BY <1>2, CellFacts
<1> QED BY <1>3, <1>4, <1>5

LEMMA GetType ==
  ASSUME view \in Layouts, NEW m, Memory(m), NEW v \in Views
  PROVE  /\ Contents(v, Get(m, Host(v), v))
         /\ \A b \in Blocks : Contents(v, Get(m, Start(b), v))
         /\ \A x \in CellsOf(v) : Get(m, Host(v), v)[x[2] - v.offset] = m[x]
         /\ \A b \in Blocks, x \in CellsOf(v) : Get(m, Start(b), v)[x[2] - v.offset] = m[At(b, v, x)]
<1>0. v.offset \in Nat /\ v.bytes \in 1..BlockCells /\ v.bytes \in Nat /\ CellsOf(v) \subseteq Cells
  BY ViewFacts
<1>1. ASSUME NEW i \in 0..v.bytes - 1
      PROVE  <<v.storage, v.offset + i>> \in Places /\ \A b \in Blocks : <<b, 0 + i>> \in Places
  <2>1. <<v.storage, v.offset + i>> \in Cells
    BY <1>0, IsCell
  <2>2. 0 + i \in 0..BlockCells - 1
    BY <1>0, DeviceAssumption
  <2> QED BY <2>1, <2>2 DEF Places
<1>2. PICK h : h = Get(m, Host(v), v)
  OBVIOUS
<1>3. h = [i \in 0..v.bytes - 1 |-> m[<<v.storage, v.offset + i>>]]
  BY <1>2 DEF Get, Host
<1>4. Contents(v, h)
  BY <1>1, <1>3 DEF Memory, Contents
<1>5. ASSUME NEW x \in CellsOf(v) PROVE h[x[2] - v.offset] = m[x]
  <2>1. x = <<x[1], x[2]>> /\ x[1] = v.storage /\ x[2] \in Nat /\ x[2] - v.offset \in 0..v.bytes - 1
    BY CellFacts
  <2>2. v.offset + (x[2] - v.offset) = x[2]
    BY <1>0, <2>1
  <2> QED BY <1>3, <2>1, <2>2
<1>6. ASSUME NEW b \in Blocks
      PROVE  /\ Contents(v, Get(m, Start(b), v))
             /\ \A x \in CellsOf(v) : Get(m, Start(b), v)[x[2] - v.offset] = m[At(b, v, x)]
  <2>1. PICK g : g = Get(m, Start(b), v)
    OBVIOUS
  <2>2. g = [i \in 0..v.bytes - 1 |-> m[<<b, 0 + i>>]]
    BY <2>1 DEF Get, Start
  <2>3. Contents(v, g)
    BY <1>1, <2>2 DEF Memory, Contents
  <2>4. ASSUME NEW x \in CellsOf(v) PROVE g[x[2] - v.offset] = m[At(b, v, x)]
    <3>1. PICK i \in 0..v.bytes - 1 : i = x[2] - v.offset
      BY CellFacts
    <3>2. 0 + i = i /\ At(b, v, x) = <<b, i>>
      BY <3>1 DEF At
    <3> QED BY <2>2, <3>1, <3>2
  <2> QED BY <2>1, <2>3, <2>4
<1> QED BY <1>2, <1>4, <1>5, <1>6

(* New values go to one place only. *)
LEMMA RenewedOnDevice ==
  ASSUME view \in Layouts, NEW m, Memory(m), NEW v \in Views, NEW b \in Blocks, NEW q, q = Renew(m, Start(b), v)
  PROVE  /\ Memory(q)
         /\ \A p \in Places : p[1] # b => q[p] = m[p] \ CellsOf(v)
         /\ \A x \in CellsOf(v) : q[At(b, v, x)] = {x}
<1>1. PICK n : n = [p \in DOMAIN m |-> m[p] \ CellsOf(v)]
  OBVIOUS
<1>2. Memory(n) /\ \A p \in Places : n[p] = m[p] \ CellsOf(v)
  BY <1>1 DEF Memory
<1>3. PICK g : g = [i \in 0..v.bytes - 1 |-> {<<v.storage, v.offset + i>>}]
  OBVIOUS
<1>4. Contents(v, g)
  BY <1>3, IsCell, ViewFacts DEF Contents
<1>5. Renew(m, Start(b), v) = Put(n, Start(b), g)
  BY <1>1, <1>3 DEF Renew
<1>6. ASSUME NEW x \in CellsOf(v) PROVE g[x[2] - v.offset] = {x}
  <2>1. x = <<x[1], x[2]>> /\ x[1] = v.storage /\ x[2] \in Nat /\ x[2] - v.offset \in 0..v.bytes - 1 /\ v.offset \in Nat
    BY CellFacts, ViewFacts
  <2>2. v.offset + (x[2] - v.offset) = x[2]
    BY <2>1
  <2> QED BY <1>3, <2>1, <2>2
<1>7. q = Put(n, Start(b), g)
  BY <1>5
<1>8. /\ Memory(q)
      /\ \A p \in Places : p[1] # b => q[p] = n[p]
      /\ \A x \in CellsOf(v) : q[At(b, v, x)] = g[x[2] - v.offset]
  BY <1>2, <1>4, <1>7, DevicePut
<1> QED BY <1>2, <1>6, <1>8

LEMMA RenewedOnHost ==
  ASSUME view \in Layouts, NEW m, Memory(m), NEW v \in Views, NEW q, q = Renew(m, Host(v), v)
  PROVE  /\ Memory(q)
         /\ \A p \in Places \ CellsOf(v) : q[p] = m[p] \ CellsOf(v)
         /\ \A x \in CellsOf(v) : q[x] = {x}
<1>1. PICK n : n = [p \in DOMAIN m |-> m[p] \ CellsOf(v)]
  OBVIOUS
<1>2. Memory(n) /\ \A p \in Places : n[p] = m[p] \ CellsOf(v)
  BY <1>1 DEF Memory
<1>3. PICK g : g = [i \in 0..v.bytes - 1 |-> {<<v.storage, v.offset + i>>}]
  OBVIOUS
<1>4. Contents(v, g)
  BY <1>3, IsCell, ViewFacts DEF Contents
<1>5. Renew(m, Host(v), v) = Put(n, Host(v), g)
  BY <1>1, <1>3 DEF Renew
<1>6. ASSUME NEW x \in CellsOf(v) PROVE g[x[2] - v.offset] = {x}
  <2>1. x = <<x[1], x[2]>> /\ x[1] = v.storage /\ x[2] \in Nat /\ x[2] - v.offset \in 0..v.bytes - 1 /\ v.offset \in Nat
    BY CellFacts, ViewFacts
  <2>2. v.offset + (x[2] - v.offset) = x[2]
    BY <2>1
  <2> QED BY <1>3, <2>1, <2>2
<1>7. q = Put(n, Host(v), g)
  BY <1>5
<1>8. /\ Memory(q)
      /\ \A p \in Places \ CellsOf(v) : q[p] = n[p]
      /\ \A x \in CellsOf(v) : q[x] = g[x[2] - v.offset]
  BY <1>2, <1>4, <1>7, HostPut
<1> QED BY <1>2, <1>6, <1>8

-------------------------------------------------------------------------------
(* What a call makes of the latest values. *)

(* Replicas that go, or that are left behind: what only they had is undefined. *)
LEMMA LatestOfFewer ==
  ASSUME view \in Layouts, NEW U, NEW D, NEW B, NEW m, NEW u, Latest(U, D, B, m, u),
         NEW U2, NEW D2, NEW B2, NEW u2, U2 \subseteq U, D2 \subseteq D \cap U2, \A v \in U2 : B2[v] = B[v],
         u \subseteq u2, u2 \subseteq Cells, \A v \in D \ D2 : CellsOf(v) \subseteq u2
  PROVE  Latest(U2, D2, B2, m, u2)
<1>1. Domains(U2, D2, B2)
  BY DEF Latest, Domains
<1>2. HostLatest(D2, m, u2)
  BY DEF Latest, HostLatest
<1>3. DeviceLatest(U2, D2, B2, m, u2)
  <2> SUFFICES ASSUME NEW v \in U2, NEW x \in CellsOf(v) \ u2, Alone(D2, v, x) PROVE x \in m[At(B[v], v, x)]
    BY DEF DeviceLatest
  <2>1. Alone(D, v, x)
    BY DEF Alone
  <2> QED BY <2>1 DEF Latest, DeviceLatest
<1>4. PendingApart(D2, u2)
  BY DEF Latest, PendingApart
<1>5. SharersApart(U2, D2, B2, u2)
  BY DEF Latest, SharersApart
<1> QED BY <1>1, <1>2, <1>3, <1>4, <1>5 DEF Latest

(* Where a view with a block has its cells. *)
LEMMA UsablePlace ==
  ASSUME view \in Layouts, NEW U, NEW D, NEW B, Domains(U, D, B), NEW v \in U, NEW x \in CellsOf(v)
  PROVE  /\ v \in Views /\ B[v] \in Blocks /\ x \in Cells
         /\ At(B[v], v, x) \in Places /\ At(B[v], v, x)[1] = B[v] /\ At(B[v], v, x) \notin Cells
<1>1. v \in Views /\ B[v] \in Blocks
  BY DEF Domains
<1> QED BY <1>1, DevicePlace, CellFacts

(* AcquireTensorDevice copies the host's values to a block. *)
LEMMA LatestOfUploaded ==
  ASSUME view \in Layouts, NEW U, NEW D, NEW B, NEW m, NEW u, Latest(U, D, B, m, u),
         NEW v \in Views \ U, NEW b \in Blocks, NEW B2, B2[v] = b, \A w \in U : B2[w] = B[w],
         NEW borrowed \in SUBSET Cells, \A w \in U : B[w] = b => CellsOf(w) \subseteq borrowed,
         NEW q, q = Put(m, Start(b), Get(m, Host(v), v))
  PROVE  Latest(U \cup {v}, D, B2, q, u \cup borrowed)
<1>1. /\ Memory(q)
      /\ \A p \in Places : p[1] # b => q[p] = m[p]
      /\ \A x \in CellsOf(v) : q[At(b, v, x)] = m[x]
  <2>1. PICK g : g = Get(m, Host(v), v)
    OBVIOUS
  <2>2. Contents(v, g) /\ \A x \in CellsOf(v) : g[x[2] - v.offset] = m[x]
    BY <2>1, GetType DEF Latest
  <2>3. /\ Memory(q)
        /\ \A p \in Places : p[1] # b => q[p] = m[p]
        /\ \A x \in CellsOf(v) : q[At(b, v, x)] = g[x[2] - v.offset]
    BY <2>1, <2>2, DevicePut DEF Latest
  <2> QED BY <2>2, <2>3
<1>2. Domains(U, D, B) /\ Domains(U \cup {v}, D, B2)
  BY DEF Latest, Domains
<1>3. HostLatest(D, q, u \cup borrowed)
  <2> SUFFICES ASSUME NEW x \in Cells \ (u \cup borrowed), \A w \in D : x \notin CellsOf(w) PROVE x \in q[x]
    BY DEF HostLatest
  <2>1. x \in m[x]
    BY DEF Latest, HostLatest
  <2>2. x[1] # b /\ x \in Places
    BY HostPlace
  <2> QED BY <1>1, <2>1, <2>2
<1>4. DeviceLatest(U \cup {v}, D, B2, q, u \cup borrowed)
  <2> SUFFICES ASSUME NEW w \in U \cup {v}, NEW x \in CellsOf(w) \ (u \cup borrowed), Alone(D, w, x)
               PROVE  x \in q[At(B2[w], w, x)]
    BY DEF DeviceLatest
  <2>1. CASE w = v
    <3>1. \A y \in D : x \notin CellsOf(y)
      BY <1>2, <2>1 DEF Alone, Domains
    <3>2. x \in Cells
      BY <2>1, CellFacts
    <3>3. x \in m[x]
      BY <3>1, <3>2 DEF Latest, HostLatest
    <3> QED BY <1>1, <2>1, <3>3
  <2>2. CASE w # v
    <3>1. w \in U /\ B2[w] = B[w] /\ x \in m[At(B[w], w, x)]
      BY <2>2 DEF Latest, DeviceLatest
    <3>2. At(B[w], w, x) \in Places /\ At(B[w], w, x)[1] = B[w]
      BY <1>2, <3>1, UsablePlace
    <3>3. B[w] # b
      BY <3>1
    <3> QED BY <1>1, <3>1, <3>2, <3>3
  <2> QED BY <2>1, <2>2
<1>5. PendingApart(D, u \cup borrowed)
  BY DEF Latest, PendingApart
<1>6. SharersApart(U \cup {v}, D, B2, u \cup borrowed)
  BY <1>2 DEF Latest, SharersApart, Domains
<1> QED BY <1>1, <1>2, <1>3, <1>4, <1>5, <1>6 DEF Latest

(* A kernel, or the append of a row, gives a view new values in a block. *)
LEMMA LatestOfDeviceWrite ==
  ASSUME view \in Layouts, NEW U, NEW D, NEW B, NEW m, NEW u, Latest(U, D, B, m, u),
         NEW v \in Views, NEW b \in Blocks, NEW B2, B2[v] = b, \A w \in U \ {v} : B2[w] = B[w],
         NEW borrowed \in SUBSET Cells, \A w \in U \ {v} : B[w] = b => CellsOf(w) \subseteq borrowed,
         NEW contested \in SUBSET Cells, \A w \in D \ {v} : CellsOf(v) \cap CellsOf(w) \subseteq contested,
         NEW q, q = Renew(m, Start(b), v), NEW u2, u2 = (u \ CellsOf(v)) \cup borrowed \cup contested
  PROVE  Latest(U \cup {v}, D \cup {v}, B2, q, u2)
<1>1. /\ Memory(q)
      /\ \A p \in Places : p[1] # b => q[p] = m[p] \ CellsOf(v)
      /\ \A x \in CellsOf(v) : q[At(b, v, x)] = {x}
  BY RenewedOnDevice DEF Latest
<1>2. Domains(U, D, B) /\ Domains(U \cup {v}, D \cup {v}, B2) /\ u2 \subseteq Cells
  BY DEF Latest, Domains
<1>3. HostLatest(D \cup {v}, q, u2)
  <2> SUFFICES ASSUME NEW x \in Cells \ u2, \A w \in D \cup {v} : x \notin CellsOf(w) PROVE x \in q[x]
    BY DEF HostLatest
  <2>1. x \in m[x]
    BY DEF Latest, HostLatest
  <2>2. x[1] # b /\ x \in Places
    BY HostPlace
  <2> QED BY <1>1, <2>1, <2>2
<1>4. DeviceLatest(U \cup {v}, D \cup {v}, B2, q, u2)
  <2> SUFFICES ASSUME NEW w \in U \cup {v}, NEW x \in CellsOf(w) \ u2, Alone(D \cup {v}, w, x)
               PROVE  x \in q[At(B2[w], w, x)]
    BY DEF DeviceLatest
  <2>1. CASE w = v
    BY <1>1, <2>1
  <2>2. CASE w # v
    <3>1. w \in U \ {v} /\ B2[w] = B[w] /\ x \notin CellsOf(v) /\ Alone(D, w, x)
      BY <2>2 DEF Alone
    <3>2. x \in m[At(B[w], w, x)]
      BY <3>1 DEF Latest, DeviceLatest
    <3>3. At(B[w], w, x) \in Places /\ At(B[w], w, x)[1] = B[w]
      BY <1>2, <3>1, UsablePlace
    <3>4. B[w] # b
      BY <3>1
    <3> QED BY <1>1, <3>1, <3>2, <3>3, <3>4
  <2> QED BY <2>1, <2>2
<1>5. PendingApart(D \cup {v}, u2)
  <2> SUFFICES ASSUME NEW x \in D \cup {v}, NEW y \in D \cup {v}, x # y, NEW e \in CellsOf(x) \cap CellsOf(y)
               PROVE  e \in u2
    BY DEF PendingApart
  <2>1. CASE x = v \/ y = v
    BY <2>1
  <2>2. CASE x # v /\ y # v
    <3>1. e \in u
      BY <2>2 DEF Latest, PendingApart
    <3> QED BY <2>2, <3>1
  <2> QED BY <2>1, <2>2
<1>6. SharersApart(U \cup {v}, D \cup {v}, B2, u2)
  <2> SUFFICES ASSUME NEW x \in D \cup {v}, NEW y \in U \cup {v}, x # y, B2[x] = B2[y],
                      NEW e \in CellsOf(x) \cap CellsOf(y)
               PROVE  e \in u2
    BY DEF SharersApart
  <2>1. CASE x = v \/ y = v
    BY <1>2, <2>1 DEF Domains
  <2>2. CASE x # v /\ y # v
    <3>1. x \in U /\ B[x] = B[y]
      BY <1>2, <2>2 DEF Domains
    <3>2. e \in u
      BY <2>2, <3>1 DEF Latest, SharersApart
    <3> QED BY <2>2, <3>1, <3>2
  <2> QED BY <2>1, <2>2
<1> QED BY <1>1, <1>2, <1>3, <1>4, <1>5, <1>6 DEF Latest

(* The host writes: the storage's replicas are left behind. *)
LEMMA LatestOfHostWrite ==
  ASSUME view \in Layouts, NEW U, NEW D, NEW B, NEW m, NEW u, Latest(U, D, B, m, u),
         NEW v \in Views, \A w \in D \ {v} : w.storage # v.storage,
         NEW U2, NEW D2, NEW B2, U2 = {w \in U : w.storage # v.storage}, D2 = {w \in D : w.storage # v.storage},
         \A w \in U2 : B2[w] = B[w],
         NEW q, q = Renew(m, Host(v), v)
  PROVE  Latest(U2, D2, B2, q, u \ CellsOf(v))
<1>1. /\ Memory(q)
      /\ \A p \in Places \ CellsOf(v) : q[p] = m[p] \ CellsOf(v)
      /\ \A x \in CellsOf(v) : q[x] = {x}
  BY RenewedOnHost DEF Latest
<1>2. Domains(U, D, B) /\ Domains(U2, D2, B2) /\ u \ CellsOf(v) \subseteq Cells
  BY DEF Latest, Domains
<1>3. ASSUME NEW w \in U2 PROVE CellsOf(w) \cap CellsOf(v) = {}
  <2>1. w \in Views /\ w.storage # v.storage
    BY <1>2 DEF Domains
  <2> QED BY <2>1, CellFacts
<1>4. HostLatest(D2, q, u \ CellsOf(v))
  <2> SUFFICES ASSUME NEW x \in Cells \ (u \ CellsOf(v)), \A w \in D2 : x \notin CellsOf(w) PROVE x \in q[x]
    BY DEF HostLatest
  <2>1. CASE x \in CellsOf(v)
    BY <1>1, <2>1
  <2>2. CASE x \notin CellsOf(v)
    <3>1. \A w \in D : x \notin CellsOf(w)
      <4> SUFFICES ASSUME NEW w \in D, x \in CellsOf(w) PROVE FALSE
        OBVIOUS
      <4>1. w.storage = v.storage
        OBVIOUS
      <4>2. w = v
        BY <4>1
      <4> QED BY <2>2, <4>2
    <3>2. x \in m[x]
      BY <2>2, <3>1 DEF Latest, HostLatest
    <3> QED BY <1>1, <2>2, <3>2, HostPlace
  <2> QED BY <2>1, <2>2
<1>5. DeviceLatest(U2, D2, B2, q, u \ CellsOf(v))
  <2> SUFFICES ASSUME NEW w \in U2, NEW x \in CellsOf(w) \ (u \ CellsOf(v)), Alone(D2, w, x)
               PROVE  x \in q[At(B2[w], w, x)]
    BY DEF DeviceLatest
  <2>1. x \notin CellsOf(v) /\ w \in U
    BY <1>3
  <2>2. Alone(D, w, x)
    <3> SUFFICES ASSUME NEW y \in D \ {w}, x \in CellsOf(y) PROVE FALSE
      BY DEF Alone
    <3>1. y \in Views /\ w \in Views
      BY <1>2, <2>1 DEF Domains
    <3>2. y.storage = w.storage
      BY <3>1, CellFacts
    <3> QED BY <3>2 DEF Alone
  <2>3. x \in m[At(B[w], w, x)]
    BY <2>1, <2>2 DEF Latest, DeviceLatest
  <2>4. At(B[w], w, x) \in Places /\ At(B[w], w, x) \notin Cells
    BY <1>2, <2>1, UsablePlace
  <2>5. At(B[w], w, x) \notin CellsOf(v)
    BY <2>4, ViewFacts
  <2> QED BY <1>1, <2>1, <2>3, <2>4, <2>5
<1>6. PendingApart(D2, u \ CellsOf(v))
  BY <1>2, <1>3 DEF Latest, PendingApart, Domains
<1>7. SharersApart(U2, D2, B2, u \ CellsOf(v))
  <2> SUFFICES ASSUME NEW x \in D2, NEW y \in U2, x # y, B2[x] = B2[y], NEW e \in CellsOf(x) \cap CellsOf(y)
               PROVE  e \in u \ CellsOf(v)
    BY DEF SharersApart
  <2>1. x \in D /\ y \in U /\ B[x] = B[y]
    BY <1>2 DEF Domains
  <2>2. e \in u
    BY <2>1 DEF Latest, SharersApart
  <2> QED BY <1>3, <2>2
<1> QED BY <1>1, <1>2, <1>4, <1>5, <1>6, <1>7 DEF Latest

(* A download: what else has a copy of a part of the view is left behind. *)
LEMMA LatestOfDownload ==
  ASSUME view \in Layouts, NEW U, NEW D, NEW B, NEW m, NEW u, Latest(U, D, B, m, u),
         NEW v \in D,
         NEW U2, NEW D2, NEW B2, v \in U2, U2 \subseteq U, D2 = (D \cap U2) \ {v}, \A w \in U2 : B2[w] = B[w],
         \A w \in U2 \ {v} : CellsOf(w) \cap CellsOf(v) = {} \/ B[w] = B[v],
         \A w \in D \ U2 : CellsOf(w) \subseteq CellsOf(v),
         NEW q, q = Put(m, Host(v), Get(m, Start(B[v]), v))
  PROVE  Latest(U2, D2, B2, q, u)
<1>1. Domains(U, D, B) /\ Domains(U2, D2, B2) /\ u \subseteq Cells /\ v \in Views /\ v \in U /\ B[v] \in Blocks
  BY DEF Latest, Domains
<1>2. /\ Memory(q)
      /\ \A p \in Places \ CellsOf(v) : q[p] = m[p]
      /\ \A x \in CellsOf(v) : q[x] = m[At(B[v], v, x)]
  <2>1. PICK g : g = Get(m, Start(B[v]), v)
    OBVIOUS
  <2>2. Contents(v, g) /\ \A x \in CellsOf(v) : g[x[2] - v.offset] = m[At(B[v], v, x)]
    BY <1>1, <2>1, GetType DEF Latest
  <2>3. /\ Memory(q)
        /\ \A p \in Places \ CellsOf(v) : q[p] = m[p]
        /\ \A x \in CellsOf(v) : q[x] = g[x[2] - v.offset]
    BY <1>1, <2>1, <2>2, HostPut DEF Latest
  <2> QED BY <2>2, <2>3
<1>3. ASSUME NEW x \in CellsOf(v) \ u PROVE x \in m[At(B[v], v, x)]
  <2>1. Alone(D, v, x)
    BY DEF Latest, PendingApart, Alone
  <2> QED BY <1>1, <2>1 DEF Latest, DeviceLatest
<1>4. HostLatest(D2, q, u)
  <2> SUFFICES ASSUME NEW x \in Cells \ u, \A w \in D2 : x \notin CellsOf(w) PROVE x \in q[x]
    BY DEF HostLatest
  <2>1. CASE x \in CellsOf(v)
    BY <1>2, <1>3, <2>1
  <2>2. CASE x \notin CellsOf(v)
    <3>1. \A w \in D : x \notin CellsOf(w)
      BY <2>2
    <3>2. x \in m[x]
      BY <2>2, <3>1 DEF Latest, HostLatest
    <3> QED BY <1>2, <2>2, <3>2, HostPlace
  <2> QED BY <2>1, <2>2
<1>5. DeviceLatest(U2, D2, B2, q, u)
  <2> SUFFICES ASSUME NEW w \in U2, NEW x \in CellsOf(w) \ u, Alone(D2, w, x)
               PROVE  x \in q[At(B2[w], w, x)]
    BY DEF DeviceLatest
  <2>1. Alone(D, w, x)
    <3> SUFFICES ASSUME NEW y \in D \ {w}, x \in CellsOf(y) PROVE FALSE
      BY DEF Alone
    <3>1. CASE y = v
      <4>1. w # v /\ B[w] = B[v]
        BY <3>1
      <4>2. x \in u
        BY <3>1, <4>1 DEF Latest, SharersApart
      <4> QED BY <4>2
    <3>2. CASE y # v /\ y \in U2
      BY <3>2 DEF Alone
    <3>3. CASE y # v /\ y \notin U2
      <4>1. x \in CellsOf(v)
        BY <3>3
      <4>2. x \in u
        BY <3>3, <4>1 DEF Latest, PendingApart
      <4> QED BY <4>2
    <3> QED BY <3>1, <3>2, <3>3
  <2>2. x \in m[At(B[w], w, x)]
    BY <2>1 DEF Latest, DeviceLatest
  <2>3. At(B[w], w, x) \in Places /\ At(B[w], w, x) \notin Cells
    BY <1>1, UsablePlace
  <2>4. At(B[w], w, x) \notin CellsOf(v)
    BY <1>1, <2>3, ViewFacts
  <2> QED BY <1>2, <2>2, <2>3, <2>4
<1>6. PendingApart(D2, u)
  BY DEF Latest, PendingApart
<1>7. SharersApart(U2, D2, B2, u)
  BY <1>1 DEF Latest, SharersApart, Domains
<1> QED BY <1>1, <1>2, <1>4, <1>5, <1>6, <1>7 DEF Latest

(* Two views of one size have their cells at the same places of a block. *)
LEMMA CounterpartFacts ==
  ASSUME view \in Layouts, NEW v \in Views, NEW w \in Views, v.bytes = w.bytes, NEW x \in CellsOf(w)
  PROVE  /\ Counterpart(v, w, x) \in CellsOf(v)
         /\ \A b : At(b, v, Counterpart(v, w, x)) = At(b, w, x)
<1>1. v.offset \in Nat /\ w.offset \in Nat /\ x[2] \in Nat /\ x[2] - w.offset \in 0..v.bytes - 1
  BY ViewFacts, CellFacts
<1>2. PICK i \in 0..v.bytes - 1 : i = x[2] - w.offset
  BY <1>1
<1>3. v.offset + x[2] - w.offset = v.offset + i /\ (v.offset + i) - v.offset = i
  BY <1>1, <1>2
<1>4. Counterpart(v, w, x) = <<v.storage, v.offset + i>>
  BY <1>3 DEF Counterpart
<1>5. ASSUME NEW b PROVE At(b, v, Counterpart(v, w, x)) = At(b, w, x)
  BY <1>2, <1>3, <1>4 DEF At
<1> QED BY <1>4, <1>5, IsCell

(* What is apart stays apart when one more view is pending. *)
LEMMA OneMorePending ==
  ASSUME NEW U, NEW D, NEW B, NEW u, Domains(U, D, B), PendingApart(D, u), SharersApart(U, D, B, u),
         NEW w, NEW B2, \A z \in U \ {w} : B2[z] = B[z],
         NEW u2, u \subseteq u2 \cup CellsOf(w),
         \A z \in D \ {w} : CellsOf(w) \cap CellsOf(z) \subseteq u2,
         \A z \in U \ {w} : B2[z] = B2[w] => CellsOf(w) \cap CellsOf(z) \subseteq u2
  PROVE  PendingApart(D \cup {w}, u2) /\ SharersApart(U \cup {w}, D \cup {w}, B2, u2)
<1>1. ASSUME NEW x \in D, NEW z \in U \ {w}, NEW e \in CellsOf(x) \cap CellsOf(z), e \in u, x # w PROVE e \in u2
  <2>1. CASE e \in CellsOf(w)
    BY <1>1, <2>1
  <2>2. CASE e \notin CellsOf(w)
    BY <1>1, <2>2
  <2> QED BY <2>1, <2>2
<1>2. ASSUME NEW x \in D \cup {w}, NEW y \in D \cup {w}, x # y, NEW e \in CellsOf(x) \cap CellsOf(y) PROVE e \in u2
  <2>1. CASE x = w \/ y = w
    BY <1>2, <2>1
  <2>2. CASE x # w /\ y # w
    BY <1>1, <1>2, <2>2 DEF PendingApart, Domains
  <2> QED BY <2>1, <2>2
<1>3. ASSUME NEW x \in D \cup {w}, NEW y \in U \cup {w}, x # y, B2[x] = B2[y], NEW e \in CellsOf(x) \cap CellsOf(y)
      PROVE  e \in u2
  <2>1. CASE x = w \/ y = w
    BY <1>3, <2>1 DEF Domains
  <2>2. CASE x # w /\ y # w
    <3>1. x \in U /\ B[x] = B[y]
      BY <1>3, <2>2 DEF Domains
    <3>2. e \in u
      BY <1>3, <2>2, <3>1 DEF SharersApart
    <3> QED BY <1>1, <1>3, <2>2, <3>2
  <2> QED BY <2>1, <2>2
<1> QED BY <1>2, <1>3 DEF PendingApart, SharersApart

(* What the places hold, and which cells have no defined value, after view w took over the values
   of v, and after the two exchanged theirs. *)
Followed(m, v, w) == [p \in DOMAIN m |-> Follow(m[p], v, w)]
Traded(m, v, w) == [p \in DOMAIN m |-> Trade(m[p], v, w)]
VoidAfter(u, doubtful, v, w, contested, shared) ==
  (u \ CellsOf(w)) \cup (CellsOf(w) \cap Follow(u \cup doubtful, v, w)) \cup contested \cup shared
VoidAfterTrade(u, doubtful, v, w, shared) == Trade(u \cup doubtful, v, w) \cup shared
LEMMA TradedUnion ==
  ASSUME NEW a, NEW b, NEW v, NEW w
  PROVE  Trade(a \cup b, v, w) = Trade(a, v, w) \cup Trade(b, v, w)
BY DEF Trade, Follow

(* An alias: the other view's values, at their places. *)
LEMMA LatestOfAlias ==
  ASSUME view \in Layouts, NEW U, NEW D, NEW B, NEW m, NEW u, Latest(U, D, B, m, u),
         NEW v \in U, NEW w \in Views, v.bytes = w.bytes,
         NEW B2, B2[w] = B[v], \A z \in U \ {w} : B2[z] = B[z],
         NEW doubtful, \A z \in D \ {v} : CellsOf(v) \cap CellsOf(z) \subseteq doubtful,
         NEW contested \in SUBSET Cells, \A z \in D \ {w} : CellsOf(w) \cap CellsOf(z) \subseteq contested,
         NEW entangled \in SUBSET Cells, \A z \in U \ {w} : B[z] = B[v] => CellsOf(w) \cap CellsOf(z) \subseteq entangled,
         NEW q, q = Followed(m, v, w), NEW u2, u2 = VoidAfter(u, doubtful, v, w, contested, entangled)
  PROVE  Latest(U \cup {w}, D \cup {w}, B2, q, u2)
<1> USE DEF Followed, VoidAfter
<1>1. /\ Domains(U, D, B) /\ Domains(U \cup {w}, D \cup {w}, B2) /\ v \in Views
      /\ CellsOf(w) \subseteq Cells /\ u2 \subseteq Cells
  BY ViewFacts DEF Latest, Domains
<1>2. /\ Memory(q)
      /\ \A p \in Places : q[p] = Follow(m[p], v, w)
  BY <1>1 DEF Latest, Memory, Follow
<1>3. HostLatest(D \cup {w}, q, u2)
  <2> SUFFICES ASSUME NEW x \in Cells \ u2, \A z \in D \cup {w} : x \notin CellsOf(z) PROVE x \in q[x]
    BY DEF HostLatest
  <2>1. x \in m[x]
    BY DEF Latest, HostLatest
  <2> QED BY <1>2, <2>1, HostPlace DEF Follow
<1>4. DeviceLatest(U \cup {w}, D \cup {w}, B2, q, u2)
  <2> SUFFICES ASSUME NEW z \in U \cup {w}, NEW x \in CellsOf(z) \ u2, Alone(D \cup {w}, z, x)
               PROVE  x \in q[At(B2[z], z, x)]
    BY DEF DeviceLatest
  <2>1. CASE z = w
    <3>1. PICK y : y = Counterpart(v, w, x)
      OBVIOUS
    <3>2. y \in CellsOf(v) /\ At(B[v], v, y) = At(B[v], w, x)
      BY <1>1, <2>1, <3>1, CounterpartFacts
    <3>3. y \notin u \cup doubtful
      BY <2>1, <3>1 DEF Follow
    <3>4. Alone(D, v, y)
      BY <3>2, <3>3 DEF Alone
    <3>5. y \in m[At(B[v], w, x)]
      BY <3>2, <3>3, <3>4 DEF Latest, DeviceLatest
    <3>6. At(B[v], w, x) \in Places
      BY <1>1, <2>1, DevicePlace DEF Domains
    <3> QED BY <1>2, <2>1, <3>1, <3>5, <3>6 DEF Follow
  <2>2. CASE z # w
    <3>1. z \in U /\ B2[z] = B[z] /\ x \notin CellsOf(w) /\ Alone(D, z, x)
      BY <2>2 DEF Alone
    <3>2. x \in m[At(B[z], z, x)]
      BY <3>1 DEF Latest, DeviceLatest
    <3>3. At(B[z], z, x) \in Places
      BY <1>1, <3>1, UsablePlace
    <3> QED BY <1>2, <3>1, <3>2, <3>3 DEF Follow
  <2> QED BY <2>1, <2>2
<1>5. PendingApart(D \cup {w}, u2) /\ SharersApart(U \cup {w}, D \cup {w}, B2, u2)
  <2>1. PendingApart(D, u) /\ SharersApart(U, D, B, u) /\ u \subseteq u2 \cup CellsOf(w)
    BY DEF Latest
  <2>2. \A z \in D \ {w} : CellsOf(w) \cap CellsOf(z) \subseteq u2
    OBVIOUS
  <2>3. \A z \in U \ {w} : B2[z] = B2[w] => CellsOf(w) \cap CellsOf(z) \subseteq u2
    OBVIOUS
  <2> QED BY <1>1, <2>1, <2>2, <2>3, OneMorePending
<1> QED BY <1>1, <1>2, <1>3, <1>4, <1>5 DEF Latest

(* A copy from a block to a block, and from a block to itself. *)
LEMMA BlockToBlock ==
  ASSUME view \in Layouts, NEW m, Memory(m), NEW v \in Views, NEW b \in Blocks, NEW a \in Blocks,
         NEW q, q = Put(m, Start(b), Get(m, Start(a), v))
  PROVE  /\ Memory(q)
         /\ \A p \in Places : p[1] # b \/ a = b => q[p] = m[p]
         /\ \A x \in CellsOf(v) : q[At(b, v, x)] = m[At(a, v, x)]
<1>1. PICK g : g = Get(m, Start(a), v)
  OBVIOUS
<1>2. Contents(v, g) /\ \A x \in CellsOf(v) : g[x[2] - v.offset] = m[At(a, v, x)]
  BY <1>1, GetType
<1>3. /\ Memory(q)
      /\ \A p \in Places : p[1] # b => q[p] = m[p]
      /\ \A x \in CellsOf(v) : q[At(b, v, x)] = g[x[2] - v.offset]
  BY <1>1, <1>2, DevicePut
<1>4. ASSUME NEW p \in Places, a = b, p[1] = b PROVE q[p] = m[p]
  <2>1. q[p] = IF p[2] - 0 \in 0..v.bytes - 1 THEN g[p[2] - 0] ELSE m[p]
    BY <1>1, <1>2, <1>4 DEF Put, Memory, Start, Contents
  <2>2. p \notin Cells
    BY <1>4, HostPlace
  <2>3. p = <<b, p[2]>> /\ p[2] \in Nat
    BY <1>4, <2>2, DeviceAssumption DEF Places
  <2>4. p[2] - 0 = p[2] /\ 0 + p[2] = p[2]
    BY <2>3
  <2>5. ASSUME p[2] \in 0..v.bytes - 1 PROVE g[p[2]] = m[p]
    <3>1. g[p[2]] = m[<<b, 0 + p[2]>>]
      BY <1>1, <1>4, <2>5 DEF Get, Start
    <3> QED BY <2>3, <2>4, <3>1
  <2> QED BY <2>1, <2>4, <2>5
<1> QED BY <1>2, <1>3, <1>4

(* A state takes a copy of a value into its own block. *)
LEMMA LatestOfCopy ==
  ASSUME view \in Layouts, NEW U, NEW D, NEW B, NEW m, NEW u, Latest(U, D, B, m, u),
         NEW w \in U, NEW v \in Views, v.bytes = w.bytes, NEW b \in Blocks, v \in U => b = B[v],
         NEW B2, B2[v] = b, \A z \in U \ {v} : B2[z] = B[z],
         NEW doubtful, \A z \in D \ {w} : CellsOf(w) \cap CellsOf(z) \subseteq doubtful,
         NEW contested \in SUBSET Cells, \A z \in D \ {v} : CellsOf(v) \cap CellsOf(z) \subseteq contested,
         NEW shared \in SUBSET Cells,
         \A z \in U \ {v} : B[z] = b => CellsOf(v) \cap CellsOf(z) \subseteq shared /\ (b = B[w] \/ CellsOf(z) \subseteq shared),
         NEW n, n = Followed(m, w, v),
         NEW q, q = Put(n, Start(b), Get(n, Start(B[w]), v)),
         NEW u2, u2 = VoidAfter(u, doubtful, w, v, contested, shared)
  PROVE  Latest(U \cup {v}, D \cup {v}, B2, q, u2)
<1> USE DEF Followed, VoidAfter
<1>1. /\ Domains(U, D, B) /\ Domains(U \cup {v}, D \cup {v}, B2) /\ w \in Views /\ B[w] \in Blocks
      /\ CellsOf(v) \subseteq Cells /\ u2 \subseteq Cells
  BY ViewFacts DEF Latest, Domains
<1>2. /\ Memory(n)
      /\ \A p \in Places : n[p] = Follow(m[p], w, v)
  BY <1>1 DEF Latest, Memory, Follow
<1>3. /\ Memory(q)
      /\ \A p \in Places : p[1] # b \/ B[w] = b => q[p] = Follow(m[p], w, v)
      /\ \A x \in CellsOf(v) : q[At(b, v, x)] = n[At(B[w], v, x)]
  <2>1. PICK a \in Blocks : a = B[w]
    BY <1>1
  <2>2. q = Put(n, Start(b), Get(n, Start(a), v))
    BY <2>1
  <2>3. /\ Memory(q)
        /\ \A p \in Places : p[1] # b \/ a = b => q[p] = n[p]
        /\ \A x \in CellsOf(v) : q[At(b, v, x)] = n[At(a, v, x)]
    BY <1>2, <2>2, BlockToBlock
  <2> QED BY <1>2, <2>1, <2>3
<1>4. HostLatest(D \cup {v}, q, u2)
  <2> SUFFICES ASSUME NEW x \in Cells \ u2, \A z \in D \cup {v} : x \notin CellsOf(z) PROVE x \in q[x]
    BY DEF HostLatest
  <2>1. x \in m[x]
    BY DEF Latest, HostLatest
  <2> QED BY <1>3, <2>1, HostPlace DEF Follow
<1>5. DeviceLatest(U \cup {v}, D \cup {v}, B2, q, u2)
  <2> SUFFICES ASSUME NEW z \in U \cup {v}, NEW x \in CellsOf(z) \ u2, Alone(D \cup {v}, z, x)
               PROVE  x \in q[At(B2[z], z, x)]
    BY DEF DeviceLatest
  <2>1. CASE z = v
    <3>1. PICK y : y = Counterpart(w, v, x)
      OBVIOUS
    <3>2. y \in CellsOf(w) /\ At(B[w], w, y) = At(B[w], v, x)
      BY <1>1, <2>1, <3>1, CounterpartFacts
    <3>3. y \notin u \cup doubtful
      BY <2>1, <3>1 DEF Follow
    <3>4. Alone(D, w, y)
      BY <3>2, <3>3 DEF Alone
    <3>5. y \in m[At(B[w], v, x)]
      BY <3>2, <3>3, <3>4 DEF Latest, DeviceLatest
    <3>6. At(B[w], v, x) \in Places
      BY <1>1, <2>1, DevicePlace
    <3>7. x \in n[At(B[w], v, x)]
      BY <1>2, <2>1, <3>1, <3>5, <3>6 DEF Follow
    <3> QED BY <1>3, <2>1, <3>7
  <2>2. CASE z # v
    <3>1. z \in U /\ B2[z] = B[z] /\ x \notin CellsOf(v) /\ Alone(D, z, x)
      BY <2>2 DEF Alone
    <3>2. x \in m[At(B[z], z, x)]
      BY <3>1 DEF Latest, DeviceLatest
    <3>3. At(B[z], z, x) \in Places /\ At(B[z], z, x)[1] = B[z]
      BY <1>1, <3>1, UsablePlace
    <3>4. B[z] # b \/ B[w] = b
      BY <2>2, <3>1
    <3> QED BY <1>3, <3>1, <3>2, <3>3, <3>4 DEF Follow
  <2> QED BY <2>1, <2>2
<1>6. PendingApart(D \cup {v}, u2) /\ SharersApart(U \cup {v}, D \cup {v}, B2, u2)
  <2>1. PendingApart(D, u) /\ SharersApart(U, D, B, u) /\ u \subseteq u2 \cup CellsOf(v)
    BY DEF Latest
  <2>2. \A z \in D \ {v} : CellsOf(v) \cap CellsOf(z) \subseteq u2
    OBVIOUS
  <2>3. \A z \in U \ {v} : B2[z] = B2[v] => CellsOf(v) \cap CellsOf(z) \subseteq u2
    OBVIOUS
  <2> QED
    <3> HIDE DEF Followed, VoidAfter
    <3>1. Domains(U, D, B)
      BY <1>1
    <3>2. PendingApart(D \cup {v}, u2) /\ SharersApart(U \cup {v}, D \cup {v}, B2, u2)
      BY <2>1, <2>2, <2>3, <3>1, OneMorePending
    <3> QED BY <3>2
<1> QED BY <1>1, <1>3, <1>4, <1>5, <1>6 DEF Latest

(* A state and an output exchange their blocks. *)
LEMMA LatestOfSwap ==
  ASSUME view \in Layouts, NEW U, NEW D, NEW B, NEW m, NEW u, Latest(U, D, B, m, u),
         NEW v \in Views, NEW w \in Views, v.bytes = w.bytes, B[v] \in Blocks, B[w] \in Blocks,
         NEW B2, B2[v] = B[w], B2[w] = B[v], \A z \in U \ {v, w} : B2[z] = B[z],
         NEW doubtful \in SUBSET Cells, \A x \in CellsOf(v) \ (u \cup doubtful) : x \in m[At(B[v], v, x)],
         \A x \in CellsOf(w) \ (u \cup doubtful) : x \in m[At(B[w], w, x)],
         NEW shared \in SUBSET Cells,
         \A z \in (D \cup {v, w}) \ {v} : CellsOf(v) \cap CellsOf(z) \subseteq shared,
         \A z \in (D \cup {v, w}) \ {w} : CellsOf(w) \cap CellsOf(z) \subseteq shared,
         \A z \in (U \cup {w}) \ {v} : B2[z] = B2[v] => CellsOf(v) \cap CellsOf(z) \subseteq shared,
         \A z \in (U \cup {v}) \ {w} : B2[z] = B2[w] => CellsOf(w) \cap CellsOf(z) \subseteq shared,
         NEW q, q = Traded(m, v, w), NEW u2, u2 = VoidAfterTrade(u, doubtful, v, w, shared)
  PROVE  Latest(U \cup {v, w}, D \cup {v, w}, B2, q, u2)
<1> USE DEF Traded, VoidAfterTrade
<1>1. /\ Domains(U, D, B) /\ Domains(U \cup {v, w}, D \cup {v, w}, B2)
      /\ CellsOf(v) \subseteq Cells /\ CellsOf(w) \subseteq Cells
  BY ViewFacts DEF Latest, Domains
<1>2. /\ Memory(q)
      /\ \A p \in Places : q[p] = Trade(m[p], v, w)
  BY <1>1 DEF Latest, Memory, Trade, Follow
<1>3. u2 \subseteq Cells
  BY <1>1 DEF Latest, Trade, Follow
<1>4. HostLatest(D \cup {v, w}, q, u2)
  <2> SUFFICES ASSUME NEW x \in Cells \ u2, \A z \in D \cup {v, w} : x \notin CellsOf(z) PROVE x \in q[x]
    BY DEF HostLatest
  <2>1. x \notin u
    BY DEF Trade, Follow
  <2>2. x \in m[x]
    BY <2>1 DEF Latest, HostLatest
  <2> QED BY <1>2, <2>2, HostPlace DEF Trade, Follow
<1>5. DeviceLatest(U \cup {v, w}, D \cup {v, w}, B2, q, u2)
  <2> SUFFICES ASSUME NEW z \in U \cup {v, w}, NEW x \in CellsOf(z) \ u2, Alone(D \cup {v, w}, z, x)
               PROVE  x \in q[At(B2[z], z, x)]
    BY DEF DeviceLatest
  <2>1. CASE z = v
    <3>1. PICK y : y = Counterpart(w, v, x)
      OBVIOUS
    <3>2. y \in CellsOf(w) /\ At(B[w], w, y) = At(B[w], v, x)
      BY <1>1, <2>1, <3>1, CounterpartFacts
    <3>3. y \notin u \cup doubtful
      BY <2>1, <3>1 DEF Trade
    <3>4. y \in m[At(B[w], v, x)]
      BY <3>2, <3>3
    <3>5. At(B[w], v, x) \in Places
      BY <1>1, <2>1, DevicePlace DEF Domains
    <3> QED BY <1>2, <2>1, <3>1, <3>4, <3>5 DEF Trade
  <2>2. CASE z = w /\ v # w
    <3>1. PICK y : y = Counterpart(v, w, x)
      OBVIOUS
    <3>2. y \in CellsOf(v) /\ At(B[v], v, y) = At(B[v], w, x)
      BY <1>1, <2>2, <3>1, CounterpartFacts
    <3>3. x \notin CellsOf(v)
      BY <2>2
    <3>4. y \notin u \cup doubtful
      BY <2>2, <3>1, <3>3 DEF Trade, Follow
    <3>5. y \in m[At(B[v], w, x)]
      BY <3>2, <3>4
    <3>6. At(B[v], w, x) \in Places
      BY <1>1, <2>2, DevicePlace DEF Domains
    <3> QED BY <1>2, <2>2, <3>1, <3>3, <3>5, <3>6 DEF Trade, Follow
  <2>3. CASE z # v /\ z # w
    <3>1. B2[z] = B[z] /\ x \notin CellsOf(v) /\ x \notin CellsOf(w) /\ Alone(D, z, x)
      BY <2>3 DEF Alone
    <3>2. x \notin u
      BY <3>1 DEF Trade, Follow
    <3>3. x \in m[At(B[z], z, x)]
      BY <3>1, <3>2 DEF Latest, DeviceLatest
    <3>4. At(B[z], z, x) \in Places
      BY <1>1, <2>3, UsablePlace
    <3> QED BY <1>2, <3>1, <3>3, <3>4 DEF Trade, Follow
  <2> QED BY <2>1, <2>2, <2>3
<1>6. ASSUME NEW x \in D \ {v, w}, NEW e \in CellsOf(x) \cap u PROVE e \in u2
  <2>1. CASE e \in CellsOf(v) \/ e \in CellsOf(w)
    BY <1>6, <2>1
  <2>2. CASE e \notin CellsOf(v) /\ e \notin CellsOf(w)
    BY <1>6, <2>2 DEF Trade, Follow
  <2> QED BY <2>1, <2>2
<1>7. PendingApart(D \cup {v, w}, u2)
  <2> SUFFICES ASSUME NEW x \in D \cup {v, w}, NEW y \in D \cup {v, w}, x # y, NEW e \in CellsOf(x) \cap CellsOf(y)
               PROVE  e \in u2
    BY DEF PendingApart
  <2>1. CASE x \in {v, w} \/ y \in {v, w}
    BY <2>1
  <2>2. CASE x \notin {v, w} /\ y \notin {v, w}
    <3>1. e \in u
      BY <2>2 DEF Latest, PendingApart
    <3> QED BY <1>6, <2>2, <3>1
  <2> QED BY <2>1, <2>2
<1>8. SharersApart(U \cup {v, w}, D \cup {v, w}, B2, u2)
  <2> SUFFICES ASSUME NEW x \in D \cup {v, w}, NEW y \in U \cup {v, w}, x # y, B2[x] = B2[y],
                      NEW e \in CellsOf(x) \cap CellsOf(y)
               PROVE  e \in u2
    BY DEF SharersApart
  <2>1. CASE x \in {v, w} \/ y \in {v, w}
    BY <1>1, <2>1 DEF Domains
  <2>2. CASE x \notin {v, w} /\ y \notin {v, w}
    <3>1. x \in U /\ B[x] = B[y]
      BY <1>1, <2>2 DEF Domains
    <3>2. e \in u
      BY <2>2, <3>1 DEF Latest, SharersApart
    <3> QED BY <1>6, <2>2, <3>2
  <2> QED BY <2>1, <2>2
<1> QED BY <1>1, <1>2, <1>3, <1>4, <1>5, <1>7, <1>8 DEF Latest

-------------------------------------------------------------------------------
(* What the operations on a cache make of the replicas. *)
Typed(c) ==
  /\ c.handle \subseteq Tensors /\ c.keep \subseteq c.handle
  /\ Present(c) = {view[t] : t \in c.handle}

LEMMA StatusType ==
  ASSUME NEW c, Fit(c), Typed(c)
  PROVE  Domains(UsableIn(c), PendingIn(c), BlockIn(c)) /\ Present(c) \subseteq Views
<1>1. Present(c) \subseteq Views
  BY DEF Typed, Views
<1>2. UsableIn(c) \subseteq Present(c) /\ PendingIn(c) \subseteq UsableIn(c)
  BY DEF UsableIn, PendingIn, Pending
<1>3. \A v \in UsableIn(c) : BlockIn(c)[v] \in Blocks
  BY <1>2, UsableHasBlock DEF UsableIn, BlockIn
<1> QED BY <1>1, <1>2, <1>3 DEF Domains

LEMMA BindStatus ==
  ASSUME NEW c, Fit(c), Typed(c), NEW t \in Tensors, NEW d, d = Bind(c, t)
  PROVE  /\ Typed(d) /\ UsableIn(d) = UsableIn(c) /\ PendingIn(d) = PendingIn(c)
         /\ \A v \in Present(c) : BlockIn(d)[v] = BlockIn(c)[v]
         /\ d.handle = c.handle \cup {t} /\ d.keep = c.keep
<1>1. /\ DOMAIN d = DOMAIN c /\ d.handle = c.handle \cup {t} /\ d.keep = c.keep
      /\ d.replica = [v \in DOMAIN c.replica \cup {view[t]} |-> IF v \in DOMAIN c.replica THEN c.replica[v] ELSE Empty]
  BY DEF Bind, Fit, Shape
<1>2. /\ Present(d) = Present(c) \cup {view[t]}
      /\ \A v \in Present(c) : d.replica[v] = c.replica[v]
      /\ \A v \in Present(d) \ Present(c) : d.replica[v] = Empty
  BY <1>1 DEF Present
<1>3. Typed(d)
  BY <1>1, <1>2 DEF Typed
<1>4. ~Empty.device
  BY DEF Empty
<1>5. \A v : Usable(d, v) <=> Usable(c, v)
  BY <1>2, <1>4 DEF Usable
<1>6. \A v : Pending(d, v) <=> Pending(c, v)
  BY <1>2, <1>5 DEF Pending, Usable
<1>7. UsableIn(d) = UsableIn(c) /\ PendingIn(d) = PendingIn(c)
  BY <1>2, <1>5, <1>6 DEF UsableIn, PendingIn, Usable, Pending
<1>8. \A v \in Present(c) : BlockIn(d)[v] = BlockIn(c)[v]
  BY <1>2 DEF BlockIn, Block
<1> QED BY <1>1, <1>3, <1>7, <1>8

(* One replica changes. *)
Replaced(c, v, e) == [c EXCEPT !.replica[v] = e]
LEMMA ReplicaStatus ==
  ASSUME NEW c, Fit(c), Typed(c), NEW v \in Present(c), NEW e \in Entry, NEW d, d = Replaced(c, v, e)
  PROVE  /\ Typed(d) /\ Present(d) = Present(c)
         /\ UsableIn(d) = IF e.device /\ e.current THEN UsableIn(c) \cup {v} ELSE UsableIn(c) \ {v}
         /\ PendingIn(d) = IF e.device /\ e.current /\ ~e.host THEN PendingIn(c) \cup {v} ELSE PendingIn(c) \ {v}
         /\ BlockIn(d)[v] = e.block /\ \A w \in Present(c) \ {v} : BlockIn(d)[w] = BlockIn(c)[w]
         /\ \A w \in Present(c) \ {v} : d.replica[w] = c.replica[w]
<1>1. /\ DOMAIN d = DOMAIN c /\ d.handle = c.handle /\ d.keep = c.keep
      /\ d.replica = [c.replica EXCEPT ![v] = e]
  BY DEF Fit, Shape, Replaced
<1>2. /\ Present(d) = Present(c) /\ d.replica[v] = e
      /\ \A w \in Present(c) \ {v} : d.replica[w] = c.replica[w]
  BY <1>1 DEF Present
<1>3. Typed(d)
  BY <1>1, <1>2 DEF Typed
<1>4. \A w \in Present(c) \ {v} : (Usable(d, w) <=> Usable(c, w)) /\ (Pending(d, w) <=> Pending(c, w))
  BY <1>2 DEF Usable, Pending
<1>5. (Usable(d, v) <=> e.device /\ e.current) /\ (Pending(d, v) <=> e.device /\ e.current /\ ~e.host)
  BY <1>2 DEF Usable, Pending
<1>6. UsableIn(d) = IF e.device /\ e.current THEN UsableIn(c) \cup {v} ELSE UsableIn(c) \ {v}
  BY <1>2, <1>4, <1>5 DEF UsableIn
<1>7. PendingIn(d) = IF e.device /\ e.current /\ ~e.host THEN PendingIn(c) \cup {v} ELSE PendingIn(c) \ {v}
  BY <1>2, <1>4, <1>5 DEF PendingIn
<1>8. BlockIn(d)[v] = e.block /\ \A w \in Present(c) \ {v} : BlockIn(d)[w] = BlockIn(c)[w]
  BY <1>2 DEF BlockIn, Block
<1> QED BY <1>2, <1>3, <1>6, <1>7, <1>8

LEMMA MarkStatus ==
  ASSUME NEW c, Fit(c), Typed(c), NEW v \in Present(c), NEW host \in BOOLEAN, NEW d, d = Mark(c, v, host)
  PROVE  /\ Typed(d) /\ Present(d) = Present(c) /\ UsableIn(d) = UsableIn(c) \cup {v}
         /\ PendingIn(d) = IF host THEN PendingIn(c) \ {v} ELSE PendingIn(c) \cup {v}
         /\ \A w \in Present(c) : BlockIn(d)[w] = BlockIn(c)[w]
<1>1. PICK e : e = [block |-> Block(c, v), device |-> TRUE, host |-> host, current |-> TRUE]
  OBVIOUS
<1>2. e \in Entry /\ e.block = Block(c, v) /\ e.device /\ e.current /\ e.host = host
  BY <1>1 DEF Entry, Fit, Shape, Replicas, Block, Present
<1>3. d = Replaced(c, v, e)
  BY <1>1 DEF Mark, Block, Replaced
<1>4. e.block = BlockIn(c)[v]
  BY <1>2 DEF BlockIn
<1>5. /\ Typed(d) /\ Present(d) = Present(c)
      /\ UsableIn(d) = IF e.device /\ e.current THEN UsableIn(c) \cup {v} ELSE UsableIn(c) \ {v}
      /\ PendingIn(d) = IF e.device /\ e.current /\ ~e.host THEN PendingIn(c) \cup {v} ELSE PendingIn(c) \ {v}
      /\ BlockIn(d)[v] = e.block /\ \A w \in Present(c) \ {v} : BlockIn(d)[w] = BlockIn(c)[w]
  BY <1>2, <1>3, ReplicaStatus
<1> QED BY <1>2, <1>4, <1>5

LEMMA InvalidateStatus ==
  ASSUME NEW c, Fit(c), Typed(c), NEW v \in Present(c), NEW d, d = Invalidate(c, v)
  PROVE  /\ Typed(d) /\ Present(d) = Present(c) /\ UsableIn(d) = UsableIn(c) \ {v} /\ PendingIn(d) = PendingIn(c) \ {v}
         /\ \A w \in Present(c) : BlockIn(d)[w] = BlockIn(c)[w]
<1>1. PICK e : e = [Empty EXCEPT !.block = Block(c, v)]
  OBVIOUS
<1>2. e \in Entry /\ e.block = Block(c, v) /\ ~e.device
  BY <1>1 DEF Entry, Fit, Shape, Replicas, Block, Present, Empty
<1>3. d = Replaced(c, v, e)
  BY <1>1 DEF Invalidate, Invalid, Block, Replaced
<1>4. e.block = BlockIn(c)[v]
  BY <1>2 DEF BlockIn
<1>5. /\ Typed(d) /\ Present(d) = Present(c)
      /\ UsableIn(d) = IF e.device /\ e.current THEN UsableIn(c) \cup {v} ELSE UsableIn(c) \ {v}
      /\ PendingIn(d) = IF e.device /\ e.current /\ ~e.host THEN PendingIn(c) \cup {v} ELSE PendingIn(c) \ {v}
      /\ BlockIn(d)[v] = e.block /\ \A w \in Present(c) \ {v} : BlockIn(d)[w] = BlockIn(c)[w]
  BY <1>2, <1>3, ReplicaStatus
<1> QED BY <1>2, <1>4, <1>5

LEMMA EnsureStatus ==
  ASSUME NEW c, Fit(c), Typed(c), NEW v \in Present(c), NEW d \in Ensure(c, v)
  PROVE  /\ Typed(d) /\ Present(d) = Present(c) /\ UsableIn(d) = UsableIn(c) /\ PendingIn(d) = PendingIn(c)
         /\ \A w \in Present(c) \ {v} : BlockIn(d)[w] = BlockIn(c)[w]
         /\ BlockIn(c)[v] # None => BlockIn(d)[v] = BlockIn(c)[v]
<1>1. CASE Block(c, v) # None
  BY <1>1 DEF Ensure
<1>2. CASE Block(c, v) = None
  <2>1. PICK x \in Allocate(c) : d = [x.cache EXCEPT !.replica[v].block = x.block]
    BY <1>2 DEF Ensure
  <2>2. PICK a : a = x.cache
    OBVIOUS
  <2>3. Fit(a) /\ a.replica = c.replica /\ a.handle = c.handle /\ x.block \in Blocks
    BY <2>2, AllocateFits
  <2>4. a.keep = c.keep
    BY <2>2 DEF Allocate, Fit, Shape
  <2>5. Typed(a) /\ Present(a) = Present(c) /\ UsableIn(a) = UsableIn(c) /\ PendingIn(a) = PendingIn(c) /\ BlockIn(a) = BlockIn(c)
    BY <2>3, <2>4 DEF Typed, Present, UsableIn, PendingIn, BlockIn, Usable, Pending, Block
  <2>6. PICK e : e = [c.replica[v] EXCEPT !.block = x.block]
    OBVIOUS
  <2>7. c.replica[v] \in Entry
    BY DEF Fit, Shape, Replicas, Present
  <2>8. /\ e \in Entry /\ e.device = c.replica[v].device /\ e.host = c.replica[v].host /\ e.current = c.replica[v].current
    BY <2>3, <2>6, <2>7 DEF Entry
  <2>9. d = Replaced(a, v, e)
    BY <2>1, <2>2, <2>3, <2>6 DEF Replaced
  <2>10. (v \in UsableIn(c) <=> e.device /\ e.current) /\ (v \in PendingIn(c) <=> e.device /\ e.current /\ ~e.host)
    BY <2>8 DEF UsableIn, PendingIn, Usable, Pending
  <2>11. /\ Typed(d) /\ Present(d) = Present(c)
         /\ UsableIn(d) = IF e.device /\ e.current THEN UsableIn(c) \cup {v} ELSE UsableIn(c) \ {v}
         /\ PendingIn(d) = IF e.device /\ e.current /\ ~e.host THEN PendingIn(c) \cup {v} ELSE PendingIn(c) \ {v}
         /\ \A w \in Present(c) \ {v} : BlockIn(d)[w] = BlockIn(c)[w]
    <3>1. v \in Present(a)
      BY <2>5
    <3> QED BY <2>3, <2>5, <2>8, <2>9, <3>1, ReplicaStatus
  <2>12. UsableIn(d) = UsableIn(c) /\ PendingIn(d) = PendingIn(c)
    BY <2>10, <2>11
  <2> QED BY <1>2, <2>11, <2>12 DEF BlockIn
<1> QED BY <1>1, <1>2

(* Outdate and Refresh leave replicas behind and change no block. *)
LEMMA OutdateStatus ==
  ASSUME NEW c, Fit(c), Typed(c), NEW s, NEW d, d = Outdate(c, s)
  PROVE  /\ Typed(d) /\ Present(d) = Present(c) /\ UsableIn(d) = {v \in UsableIn(c) : v.storage # s}
         /\ PendingIn(d) = {v \in PendingIn(c) : v.storage # s}
         /\ \A w \in Present(c) : BlockIn(d)[w] = BlockIn(c)[w]
<1>1. /\ d.handle = c.handle /\ d.keep = c.keep
      /\ d.replica = [v \in Present(c) |-> IF v.storage = s THEN [c.replica[v] EXCEPT !.current = FALSE] ELSE c.replica[v]]
  BY DEF Outdate, Present, Fit, Shape
<1>2. ASSUME NEW v \in Present(c), v.storage = s
      PROVE  d.replica[v].block = c.replica[v].block /\ ~d.replica[v].current
  <2>1. c.replica[v] \in Entry /\ d.replica[v] = [c.replica[v] EXCEPT !.current = FALSE]
    BY <1>1, <1>2 DEF Fit, Shape, Replicas, Present
  <2> QED BY <2>1 DEF Entry
<1>3. \A v \in Present(c) : v.storage # s => d.replica[v] = c.replica[v]
  BY <1>1
<1>4. Present(d) = Present(c)
  BY <1>1 DEF Present
<1>5. \A w \in Present(c) : BlockIn(d)[w] = BlockIn(c)[w]
  BY <1>2, <1>3, <1>4 DEF BlockIn, Block
<1>6. UsableIn(d) = {v \in UsableIn(c) : v.storage # s} /\ PendingIn(d) = {v \in PendingIn(c) : v.storage # s}
  BY <1>2, <1>3, <1>4 DEF UsableIn, PendingIn, Usable, Pending
<1> QED BY <1>1, <1>4, <1>5, <1>6 DEF Typed

LEMMA RefreshStatus ==
  ASSUME NEW c, Fit(c), Typed(c), NEW v \in Present(c), NEW d, d = Refresh(c, v)
  PROVE  /\ Typed(d) /\ Present(d) = Present(c)
         /\ UsableIn(d) \subseteq UsableIn(c) /\ PendingIn(d) = PendingIn(c) \cap UsableIn(d)
         /\ v \in UsableIn(c) => v \in UsableIn(d)
         /\ \A w \in UsableIn(d) \ {v} : CellsOf(w) \cap CellsOf(v) = {} \/ Block(c, w) = Block(c, v)
         /\ \A w \in UsableIn(c) \ UsableIn(d) : Overlaps(v, w) /\ Block(c, w) # Block(c, v)
         /\ \A w \in Present(c) : BlockIn(d)[w] = BlockIn(c)[w]
<1>1. /\ d.handle = c.handle /\ d.keep = c.keep
      /\ d.replica = [w \in Present(c) |-> IF w # v /\ c.replica[w].current /\ Overlaps(v, w) /\ c.replica[w].block # Block(c, v)
                                           THEN Invalid(c.replica[w]) ELSE c.replica[w]]
  BY DEF Refresh, Present, Fit, Shape
<1>2. \A w \in Present(c) : ~Invalid(c.replica[w]).device /\ Invalid(c.replica[w]).block = c.replica[w].block
  BY DEF Invalid, Empty
<1>3. Present(d) = Present(c)
  BY <1>1 DEF Present
<1>4. \A w \in Present(c) : BlockIn(d)[w] = BlockIn(c)[w]
  BY <1>1, <1>2, <1>3 DEF BlockIn, Block
<1>5. \A w \in Present(c) : \/ d.replica[w] = c.replica[w]
                            \/ ~d.replica[w].device /\ w # v /\ Overlaps(v, w) /\ Block(c, w) # Block(c, v)
  BY <1>1, <1>2 DEF Block
<1>6. UsableIn(d) \subseteq UsableIn(c) /\ PendingIn(d) = PendingIn(c) \cap UsableIn(d) /\ (v \in UsableIn(c) => v \in UsableIn(d))
  BY <1>3, <1>5 DEF UsableIn, PendingIn, Usable, Pending
<1>7. \A w \in UsableIn(c) \ UsableIn(d) : Overlaps(v, w) /\ Block(c, w) # Block(c, v)
  BY <1>3, <1>5 DEF UsableIn, Usable
<1>8. ASSUME NEW w \in UsableIn(d) \ {v} PROVE CellsOf(w) \cap CellsOf(v) = {} \/ Block(c, w) = Block(c, v)
  <2>1. w \in Present(c) /\ d.replica[w].device /\ c.replica[w].current
    BY <1>3, <1>6 DEF UsableIn, Usable
  <2> QED BY <1>1, <1>2, <2>1 DEF Overlaps, Block
<1> QED BY <1>1, <1>3, <1>4, <1>6, <1>7, <1>8 DEF Typed

(* Cache d is c without handle t, and without the replicas gone. *)
Erased(c, d, t, gone) ==
  /\ d.handle = c.handle \ {t} /\ d.keep = c.keep /\ Present(d) = {view[u] : u \in d.handle}
  /\ UsableIn(d) = UsableIn(c) \ gone /\ PendingIn(d) = PendingIn(c) \ gone
  /\ \A w \in Present(d) : BlockIn(d)[w] = BlockIn(c)[w]
  /\ Present(d) \subseteq Present(c)

LEMMA EraseStatus ==
  ASSUME NEW c, Fit(c), Typed(c), NEW t \in Tensors, view[t] \in Present(c), NEW d, d = EraseHandle(c, t),
         NEW gone, IsLast(c, t) => gone = {view[t]}, ~IsLast(c, t) => gone = {}
  PROVE  Erased(c, d, t, gone)
<1>1. /\ d.handle = c.handle \ {t} /\ d.keep = c.keep
      /\ d.replica = [v \in Present(c) \ gone |-> c.replica[v]]
  BY DEF EraseHandle, Fit, Shape, Present
<1>2. Present(d) = Present(c) \ gone
  BY <1>1 DEF Present
<1>3. Present(d) = {view[u] : u \in d.handle}
  BY <1>1, <1>2 DEF Typed, IsLast
<1>4. UsableIn(d) = UsableIn(c) \ gone /\ PendingIn(d) = PendingIn(c) \ gone
  BY <1>1, <1>2 DEF UsableIn, PendingIn, Usable, Pending
<1>5. \A w \in Present(d) : BlockIn(d)[w] = BlockIn(c)[w]
  BY <1>1, <1>2 DEF BlockIn, Block
<1> QED BY <1>1, <1>2, <1>3, <1>4, <1>5 DEF Erased

LEMMA ReleaseBlockStatus ==
  ASSUME NEW c, Fit(c), Typed(c), NEW v \in Present(c), NEW d, d = ReleaseBlock(c, v)
  PROVE  /\ Typed(d) /\ Present(d) = Present(c) /\ d.handle = c.handle /\ d.keep = c.keep
         /\ UsableIn(d) = UsableIn(c) \ {v} /\ PendingIn(d) = PendingIn(c) \ {v}
         /\ \A w \in Present(c) \ {v} : BlockIn(d)[w] = BlockIn(c)[w]
<1>1. /\ d.handle = c.handle /\ d.keep = c.keep
      /\ d.replica = [c.replica EXCEPT ![v] = Empty]
  BY DEF ReleaseBlock, Fit, Shape
<1>2. /\ Present(d) = Present(c) /\ d.replica[v] = Empty
      /\ \A w \in Present(c) \ {v} : d.replica[w] = c.replica[w]
  BY <1>1 DEF Present
<1>3. ~Empty.device
  BY DEF Empty
<1>4. UsableIn(d) = UsableIn(c) \ {v} /\ PendingIn(d) = PendingIn(c) \ {v}
  BY <1>2, <1>3 DEF UsableIn, PendingIn, Usable, Pending
<1>5. \A w \in Present(c) \ {v} : BlockIn(d)[w] = BlockIn(c)[w]
  BY <1>2 DEF BlockIn, Block
<1> QED BY <1>1, <1>2, <1>4, <1>5 DEF Typed

(* A replica takes over another one's block, and is marked. *)
Repointed(c, v, w) == [c EXCEPT !.replica[w].block = Block(c, v)]
LEMMA ReplacedMarked ==
  ASSUME NEW c, Fit(c), NEW v \in Present(c), NEW w \in Present(c), NEW d, d = Mark(Repointed(c, v, w), w, FALSE)
  PROVE  d = Replaced(c, w, [block |-> Block(c, v), device |-> TRUE, host |-> FALSE, current |-> TRUE])
<1>1. PICK f : f = [block |-> Block(c, v), device |-> TRUE, host |-> FALSE, current |-> TRUE]
  OBVIOUS
<1>2. PICK e : e = Repointed(c, v, w)
  OBVIOUS
<1>3. PICK g : g = [c.replica EXCEPT ![w].block = Block(c, v)]
  OBVIOUS
<1>4. e = [c EXCEPT !.replica = g] /\ "replica" \in DOMAIN c /\ e.replica = g
  BY <1>2, <1>3 DEF Fit, Shape, Repointed
<1>5. g[w].block = Block(c, v)
  <2>1. c.replica[w] \in Entry /\ w \in DOMAIN c.replica
    BY DEF Fit, Shape, Replicas, Present
  <2> QED BY <1>3, <2>1 DEF Entry
<1>6. PICK h : h = [c.replica EXCEPT ![w] = f]
  OBVIOUS
<1>7. [g EXCEPT ![w] = f] = h
  BY <1>3, <1>6
<1>8. d = [e EXCEPT !.replica[w] = f]
  BY <1>1, <1>2, <1>4, <1>5 DEF Mark
<1>9. d = [e EXCEPT !.replica = h]
  BY <1>4, <1>7, <1>8
<1>10. d = [c EXCEPT !.replica = h]
  BY <1>4, <1>9
<1> QED BY <1>1, <1>6, <1>10 DEF Replaced

(* View w takes over the block of v, which holds its value. *)
TakenOver(c, v, w) == Mark(Repointed(c, v, w), w, FALSE)
LEMMA RepointStatus ==
  ASSUME NEW c, Fit(c), Typed(c), NEW v \in Present(c), NEW w \in Present(c), Block(c, v) \in Blocks,
         NEW d, d = TakenOver(c, v, w)
  PROVE  /\ Typed(d) /\ Present(d) = Present(c)
         /\ UsableIn(d) = UsableIn(c) \cup {w} /\ PendingIn(d) = PendingIn(c) \cup {w}
         /\ BlockIn(d)[w] = BlockIn(c)[v] /\ \A x \in Present(c) \ {w} : BlockIn(d)[x] = BlockIn(c)[x]
<1>1. PICK f : f = [block |-> Block(c, v), device |-> TRUE, host |-> FALSE, current |-> TRUE]
  OBVIOUS
<1>2. f \in Entry /\ f.block = Block(c, v) /\ f.device /\ f.current /\ ~f.host
  BY <1>1 DEF Entry
<1>3. PICK x : x = Replaced(c, w, f)
  OBVIOUS
<1>4. d = x
  BY <1>1, <1>3, ReplacedMarked DEF TakenOver
<1>5. Typed(x) /\ Present(x) = Present(c)
  BY <1>2, <1>3, ReplicaStatus
<1>6. UsableIn(x) = UsableIn(c) \cup {w} /\ PendingIn(x) = PendingIn(c) \cup {w}
  BY <1>2, <1>3, ReplicaStatus
<1>7. BlockIn(x)[w] = f.block /\ \A y \in Present(c) \ {w} : BlockIn(x)[y] = BlockIn(c)[y]
  BY <1>2, <1>3, ReplicaStatus
<1> QED BY <1>2, <1>4, <1>5, <1>6, <1>7 DEF BlockIn

LEMMA SwapStatus ==
  ASSUME NEW c, Fit(c), Typed(c), NEW v \in Present(c), NEW w \in Present(c), NEW keep, keep \subseteq c.handle,
         NEW d, Swapped(c, v, w, keep, d)
  PROVE  /\ Typed(d) /\ Present(d) = Present(c)
         /\ UsableIn(d) \cup {v, w} = UsableIn(c) \cup {v, w} /\ PendingIn(d) \cup {v, w} = PendingIn(c) \cup {v, w}
         /\ BlockIn(d)[v] = BlockIn(c)[w] /\ BlockIn(d)[w] = BlockIn(c)[v]
         /\ \A x \in Present(c) \ {v, w} : BlockIn(d)[x] = BlockIn(c)[x]
<1>1. /\ d.handle = c.handle /\ d.keep = keep
      /\ d.replica = [[c.replica EXCEPT ![v] = c.replica[w]] EXCEPT ![w] = c.replica[v]]
  BY DEF Swapped, Fit, Shape
<1>2. /\ Present(d) = Present(c) /\ d.replica[v] = c.replica[w] /\ d.replica[w] = c.replica[v]
      /\ \A x \in Present(c) \ {v, w} : d.replica[x] = c.replica[x]
  BY <1>1 DEF Present
<1>3. UsableIn(d) \cup {v, w} = UsableIn(c) \cup {v, w}
  BY <1>2 DEF UsableIn, Usable
<1>4. PendingIn(d) \cup {v, w} = PendingIn(c) \cup {v, w}
  BY <1>2 DEF PendingIn, Pending, Usable
<1>5. /\ BlockIn(d)[v] = BlockIn(c)[w] /\ BlockIn(d)[w] = BlockIn(c)[v]
      /\ \A x \in Present(c) \ {v, w} : BlockIn(d)[x] = BlockIn(c)[x]
  BY <1>2 DEF BlockIn, Block
<1> QED BY <1>1, <1>2, <1>3, <1>4, <1>5 DEF Typed

-------------------------------------------------------------------------------
(* The cells that no place need have the latest value of, now and after a rollback. *)
Gone == void \cup lost
SavedGone == saved.void \cup saved.lost

(* The inductive invariant on values: they are the latest in the cache, and in the snapshot
   of a capture, which may be what the next step returns to. *)
Current(c, m, u) == Typed(c) /\ Latest(UsableIn(c), PendingIn(c), BlockIn(c), m, u)
ValueInv ==
  /\ view \in Layouts /\ (recorded # {} => Recording)
  /\ Current(cache, copy, Gone)
  /\ Recording => Current(saved.cache, saved.copy, SavedGone)

(* What nobody will look for may be left out. *)
LEMMA CurrentKept ==
  ASSUME view \in Layouts, NEW c, Fit(c), NEW m, NEW u, Current(c, m, u),
         NEW q, q = [p \in DOMAIN m |->
                       (IF p[1] \in Blocks THEN m[p] \cap UNION {CellsOf(v) : v \in Readers(c, p[1])} ELSE m[p] \cap {p}) \ u]
  PROVE  Current(c, q, u)
<1>1. PICK U, D, B : U = UsableIn(c) /\ D = PendingIn(c) /\ B = BlockIn(c)
  OBVIOUS
<1>2. Latest(U, D, B, m, u) /\ Domains(U, D, B)
  BY <1>1 DEF Current, Latest
<1>3. Memory(q)
  BY <1>2 DEF Latest, Memory
<1>4. HostLatest(D, q, u)
  <2> SUFFICES ASSUME NEW x \in Cells \ u, \A v \in D : x \notin CellsOf(v) PROVE x \in q[x]
    BY DEF HostLatest
  <2>1. x \in m[x]
    BY <1>2 DEF Latest, HostLatest
  <2>2. x \in Places /\ x[1] \notin Blocks
    BY HostPlace
  <2> QED BY <1>2, <2>1, <2>2 DEF Latest, Memory
<1>5. DeviceLatest(U, D, B, q, u)
  <2> SUFFICES ASSUME NEW v \in U, NEW x \in CellsOf(v) \ u, Alone(D, v, x) PROVE x \in q[At(B[v], v, x)]
    BY DEF DeviceLatest
  <2>1. x \in m[At(B[v], v, x)]
    BY <1>2 DEF Latest, DeviceLatest
  <2>2. At(B[v], v, x) \in Places /\ At(B[v], v, x)[1] = B[v] /\ B[v] \in Blocks
    BY <1>2, UsablePlace
  <2>3. v \in Readers(c, B[v])
    BY <1>1 DEF UsableIn, BlockIn, Readers
  <2> QED BY <1>2, <2>1, <2>2, <2>3 DEF Latest, Memory
<1>6. Latest(U, D, B, q, u)
  BY <1>2, <1>3, <1>4, <1>5 DEF Latest
<1> QED BY <1>1, <1>6 DEF Current

(* A cache, its memory and the cells gone from it may be the next state's. *)
LEMMA LatestLater ==
  ASSUME view' = view, NEW U, NEW D, NEW B, NEW m, NEW u, Latest(U, D, B, m, u)
  PROVE  Latest(U, D, B, m, u)'
<1>1. Tensors' = Tensors /\ Cells' = Cells
  BY DEF Tensors, Cells
<1>2. Views' = Views /\ Places' = Places
  BY <1>1 DEF Views, Places
<1>3. Domains(U, D, B)' /\ Memory(m)'
  BY <1>2, <1>1 DEF Latest, Domains, Memory
<1>4. HostLatest(D, m, u)' /\ DeviceLatest(U, D, B, m, u)'
  BY <1>1 DEF Latest, HostLatest, DeviceLatest, Alone
<1>5. PendingApart(D, u)' /\ SharersApart(U, D, B, u)'
  BY DEF Latest, PendingApart, SharersApart
<1> QED BY <1>1, <1>3, <1>4, <1>5 DEF Latest

LEMMA CurrentLater ==
  ASSUME view' = view, NEW c, NEW m, NEW u, Current(c, m, u)
  PROVE  /\ cache' = c /\ copy' = m /\ Gone' = u => Current(cache, copy, Gone)'
         /\ saved'.cache = c /\ saved'.copy = m /\ SavedGone' = u => Current(saved.cache, saved.copy, SavedGone)'
<1>1. PICK U, D, B : U = UsableIn(c) /\ D = PendingIn(c) /\ B = BlockIn(c)
  OBVIOUS
<1>2. Latest(U, D, B, m, u)'
  BY <1>1, LatestLater DEF Current
<1>3. Tensors' = Tensors
  BY DEF Tensors
<1>4. ASSUME cache' = c, copy' = m, Gone' = u PROVE Current(cache, copy, Gone)'
  <2>1. Typed(cache)'
    BY <1>3, <1>4 DEF Current, Typed, Present
  <2>2. UsableIn(cache)' = U /\ PendingIn(cache)' = D /\ BlockIn(cache)' = B
    BY <1>1, <1>4 DEF UsableIn, PendingIn, BlockIn, Usable, Pending, Block, Present
  <2> QED BY <1>2, <1>4, <2>1, <2>2 DEF Current
<1>5. ASSUME saved'.cache = c, saved'.copy = m, SavedGone' = u PROVE Current(saved.cache, saved.copy, SavedGone)'
  <2>1. Typed(saved.cache)'
    BY <1>3, <1>5 DEF Current, Typed, Present
  <2>2. UsableIn(saved.cache)' = U /\ PendingIn(saved.cache)' = D /\ BlockIn(saved.cache)' = B
    BY <1>1, <1>5 DEF UsableIn, PendingIn, BlockIn, Usable, Pending, Block, Present
  <2> QED BY <1>2, <1>5, <2>1, <2>2 DEF Current
<1> QED BY <1>4, <1>5

(* How a step ends, for the values that it leaves; e holds the same blocks as the cache. *)
Leaves(m, e, u) ==
  /\ Gone' = u
  /\ copy' = [p \in DOMAIN m |->
       (IF p[1] \in Blocks THEN m[p] \cap UNION {CellsOf(v) : v \in Readers(e, p[1])} ELSE m[p] \cap {p}) \ u]
LEMMA ValuesLeave ==
  ASSUME NEW m, NEW e, NEW a, NEW b, Values(m, e, a, b), NEW u, u = a \cup b
  PROVE  Leaves(m, e, u)
<1>1. Gone' = u
  BY DEF Values, Gone
<1> QED BY <1>1 DEF Values, Leaves

Ends(m, e, u) == Leaves(m, e, u) \/ (copy' = m /\ Gone' = u)
SameBlocks(e, c) == Present(e) = Present(c) /\ \A w \in Present(c) : Block(e, w) = Block(c, w)
LEMMA EndCurrent ==
  ASSUME view \in Layouts, view' = view, NEW c, Fit(c), NEW m, NEW u, Current(c, m, u), cache' = c,
         NEW e, SameBlocks(e, c), Ends(m, e, u)
  PROVE  Current(cache, copy, Gone)'
<1>1. CASE Leaves(m, e, u)
  <2>1. \A b : Readers(e, b) = Readers(c, b)
    BY DEF Readers, SameBlocks
  <2>2. PICK q : q = [p \in DOMAIN m |->
                       (IF p[1] \in Blocks THEN m[p] \cap UNION {CellsOf(v) : v \in Readers(c, p[1])} ELSE m[p] \cap {p}) \ u]
    OBVIOUS
  <2>3. copy' = q /\ Gone' = u
    BY <1>1, <2>1, <2>2 DEF Leaves
  <2>4. Current(c, q, u)
    BY <2>2, CurrentKept
  <2> QED BY <2>3, <2>4, CurrentLater
<1>2. CASE copy' = m /\ Gone' = u
  BY <1>2, CurrentLater
<1> QED BY <1>1, <1>2 DEF Ends

(* The snapshot keeps its values while a capture goes on. *)
LEMMA SnapshotKept ==
  ASSUME CacheInv, ValueInv, view' = view, NEW bs, Record(bs) \/ UNCHANGED <<saved, recorded>>
  PROVE  /\ view' \in Layouts /\ (recorded' # {} => Recording')
         /\ Recording' => Current(saved.cache, saved.copy, SavedGone)'
<1>1. view' \in Layouts /\ (recorded' # {} => Recording')
  <2>1. CASE Record(bs) /\ Recording
    <3>1. DOMAIN saved' = {"cache", "copy", "void", "lost", "calls"}
      BY <2>1 DEF Record, CacheInv
    <3>2. saved' # <<>>
      BY <3>1
    <3> QED BY <3>2 DEF ValueInv, Recording
  <2>2. CASE UNCHANGED <<saved, recorded>>
    BY <2>2 DEF ValueInv, Recording
  <2> QED BY <2>1, <2>2 DEF Record
<1>2. ASSUME Recording' PROVE Current(saved.cache, saved.copy, SavedGone)'
  <2>1. Recording
    BY <1>2 DEF Record, Recording
  <2>2. saved'.cache = saved.cache /\ saved'.copy = saved.copy /\ SavedGone' = SavedGone
    BY <2>1 DEF Record, CacheInv, SavedGone
  <2>3. PICK c2, m2, u2 : c2 = saved.cache /\ m2 = saved.copy /\ u2 = SavedGone
    OBVIOUS
  <2>4. Current(c2, m2, u2)
    BY <2>1, <2>3 DEF ValueInv
  <2> QED BY <2>2, <2>3, <2>4, CurrentLater
<1> QED BY <1>1, <1>2

LEMMA CallKeepsValues ==
  ASSUME CacheInv, ValueInv, view' = view, NEW c, Fit(c), NEW m, NEW u, Current(c, m, u), cache' = c,
         NEW e, SameBlocks(e, c), Ends(m, e, u),
         NEW bs, Record(bs) \/ UNCHANGED <<saved, recorded>>
  PROVE  ValueInv'
<1>1. Current(cache, copy, Gone)'
  BY EndCurrent DEF ValueInv
<1>2. /\ view' \in Layouts /\ (recorded' # {} => Recording')
      /\ Recording' => Current(saved.cache, saved.copy, SavedGone)'
  BY SnapshotKept
<1> QED BY <1>1, <1>2 DEF ValueInv

LEMMA SameCurrent ==
  ASSUME view \in Layouts, NEW c, NEW m, NEW u, Current(c, m, u), NEW d, Typed(d),
         UsableIn(d) = UsableIn(c), PendingIn(d) = PendingIn(c),
         \A v \in UsableIn(c) : BlockIn(d)[v] = BlockIn(c)[v]
  PROVE  Current(d, m, u)
<1>1. PICK U, D, B : U = UsableIn(c) /\ D = PendingIn(c) /\ B = BlockIn(c)
  OBVIOUS
<1>2. Latest(U, D, B, m, u) /\ D \subseteq U /\ u \subseteq Cells
  BY <1>1 DEF Current, Latest, Domains
<1>3. PICK B2 : B2 = BlockIn(d)
  OBVIOUS
<1>4. Latest(U, D, B2, m, u)
  BY <1>1, <1>2, <1>3, LatestOfFewer
<1> QED BY <1>1, <1>3, <1>4 DEF Current

LEMMA BindCurrent ==
  ASSUME view \in Layouts, NEW c, Fit(c), NEW m, NEW u, Current(c, m, u), NEW t \in Tensors, NEW d, d = Bind(c, t)
  PROVE  /\ Fit(d) /\ Current(d, m, u) /\ view[t] \in Present(d) /\ Present(c) \subseteq Present(d)
         /\ UsableIn(d) = UsableIn(c) /\ PendingIn(d) = PendingIn(c)
         /\ \A v \in Present(c) : BlockIn(d)[v] = BlockIn(c)[v] /\ d.replica[v] = c.replica[v]
         /\ d.handle = c.handle \cup {t} /\ d.keep = c.keep
<1>1. /\ Fit(d) /\ view[t] \in Present(d) /\ Present(c) \subseteq Present(d)
      /\ \A v \in Present(c) : d.replica[v] = c.replica[v]
  BY BindFits
<1>2. Typed(c)
  BY DEF Current
<1>3. /\ Typed(d) /\ UsableIn(d) = UsableIn(c) /\ PendingIn(d) = PendingIn(c)
      /\ \A v \in Present(c) : BlockIn(d)[v] = BlockIn(c)[v]
      /\ d.handle = c.handle \cup {t} /\ d.keep = c.keep
  BY <1>2, BindStatus
<1>4. \A v \in UsableIn(c) : BlockIn(d)[v] = BlockIn(c)[v]
  BY <1>3 DEF UsableIn
<1>5. Current(d, m, u)
  BY <1>3, <1>4, SameCurrent
<1> QED BY <1>1, <1>3, <1>5

LEMMA EnsureCurrent ==
  ASSUME view \in Layouts, NEW c, Fit(c), NEW m, NEW u, Current(c, m, u), NEW v \in Present(c), NEW d \in Ensure(c, v)
  PROVE  /\ Fit(d) /\ Current(d, m, u) /\ Present(d) = Present(c) /\ Block(d, v) \in Blocks
         /\ UsableIn(d) = UsableIn(c) /\ PendingIn(d) = PendingIn(c)
         /\ \A w \in UsableIn(c) : BlockIn(d)[w] = BlockIn(c)[w]
<1>1. Fit(d) /\ Present(d) = Present(c) /\ Block(d, v) \in Blocks
  BY EnsureFits
<1>2. Typed(c)
  BY DEF Current
<1>3. /\ Typed(d) /\ UsableIn(d) = UsableIn(c) /\ PendingIn(d) = PendingIn(c)
      /\ \A w \in Present(c) \ {v} : BlockIn(d)[w] = BlockIn(c)[w]
      /\ BlockIn(c)[v] # None => BlockIn(d)[v] = BlockIn(c)[v]
  BY <1>2, EnsureStatus
<1>4. ASSUME NEW w \in UsableIn(c) PROVE BlockIn(d)[w] = BlockIn(c)[w]
  <2>1. w \in Present(c) /\ BlockIn(c)[w] # None
    BY UsableHasBlock DEF UsableIn, BlockIn
  <2> QED BY <1>3, <2>1
<1>5. Current(d, m, u)
  BY <1>3, <1>4, SameCurrent
<1> QED BY <1>1, <1>3, <1>4, <1>5

(* The cells without a defined value after a write cover what the lemmas on values ask for. *)
LEMMA UndefinedCells ==
  ASSUME view \in Layouts, NEW c, Fit(c), Typed(c), NEW v \in Present(c)
  PROVE  /\ Borrowed(c, v) \in SUBSET Cells /\ Contested(c, v) \in SUBSET Cells /\ Entangled(c, v) \in SUBSET Cells
         /\ \A w \in Present(c) \ {v} : Block(c, w) = Block(c, v) => /\ CellsOf(w) \subseteq Borrowed(c, v)
                                                                     /\ CellsOf(v) \cap CellsOf(w) \subseteq Entangled(c, v)
         /\ \A w \in PendingIn(c) \ {v} : CellsOf(v) \cap CellsOf(w) \subseteq Contested(c, v)
<1>1. Present(c) \subseteq Views
  BY StatusType
<1>2. \A w \in Present(c) : CellsOf(w) \subseteq Cells
  BY <1>1, ViewFacts
<1>3. Borrowed(c, v) \in SUBSET Cells /\ Contested(c, v) \in SUBSET Cells
  BY <1>2 DEF Borrowed, Sharing, Contested
<1>4. \A w \in Present(c) \ {v} : Block(c, w) = Block(c, v) => CellsOf(w) \subseteq Borrowed(c, v)
  BY DEF Borrowed, Sharing
<1>5. \A w \in PendingIn(c) \ {v} : CellsOf(v) \cap CellsOf(w) \subseteq Contested(c, v)
  BY DEF Contested, PendingIn
<1> QED BY <1>3, <1>4, <1>5 DEF Entangled

-------------------------------------------------------------------------------
(* Every call keeps the values: first those that give a replica new ones on the device. *)
LEMMA MarkCurrent ==
  ASSUME NEW c, Fit(c), Typed(c), NEW v \in Present(c), Block(c, v) \in Blocks,
         NEW d, d = Mark(c, v, TRUE) \/ d = Mark(c, v, FALSE)
  PROVE  /\ Fit(d) /\ Typed(d) /\ SameBlocks(c, d) /\ SameBlocks(d, c) /\ UsableIn(d) = UsableIn(c) \cup {v}
         /\ d = Mark(c, v, TRUE) => PendingIn(d) = PendingIn(c) \ {v}
         /\ d = Mark(c, v, FALSE) => PendingIn(d) = PendingIn(c) \cup {v}
         /\ \A w \in Present(c) : BlockIn(d)[w] = Block(c, w)
<1>1. ASSUME NEW host \in BOOLEAN, d = Mark(c, v, host)
      PROVE  /\ Fit(d) /\ Typed(d) /\ SameBlocks(c, d) /\ SameBlocks(d, c) /\ UsableIn(d) = UsableIn(c) \cup {v}
             /\ PendingIn(d) = IF host THEN PendingIn(c) \ {v} ELSE PendingIn(c) \cup {v}
             /\ \A w \in Present(c) : BlockIn(d)[w] = Block(c, w)
  <2>1. /\ Typed(d) /\ Present(d) = Present(c) /\ UsableIn(d) = UsableIn(c) \cup {v}
        /\ PendingIn(d) = IF host THEN PendingIn(c) \ {v} ELSE PendingIn(c) \cup {v}
        /\ \A w \in Present(c) : BlockIn(d)[w] = BlockIn(c)[w]
    BY <1>1, MarkStatus
  <2>2. Fit(d)
    BY <1>1, MarkFits, DeviceAssumption
  <2> QED BY <2>1, <2>2 DEF SameBlocks, BlockIn
<1>2. ASSUME d = Mark(c, v, TRUE) PROVE PendingIn(d) = PendingIn(c) \ {v}
  BY <1>1, <1>2
<1>3. ASSUME d = Mark(c, v, FALSE) PROVE PendingIn(d) = PendingIn(c) \cup {v}
  BY <1>1, <1>3
<1> QED BY <1>1, <1>2, <1>3

LEMMA UploadKeepsValues == ASSUME CacheInv, ValueInv, NEW t \in Tensors, Upload(t) PROVE ValueInv'
<1>1. PICK v, a : v = view[t] /\ a = Bind(cache, t)
  OBVIOUS
<1>2. PICK c \in Ensure(a, v) :
        /\ IF Usable(c, v) THEN cache' = c /\ UNCHANGED <<copy, void, lost>>
           ELSE /\ cache' = Mark(c, v, TRUE)
                /\ Values(Put(copy, Device(c, v), Get(copy, Host(v), v)), c, void \cup Borrowed(c, v), lost)
        /\ Record({Block(c, v)}) /\ view' = view
  BY <1>1 DEF Upload
<1>3. view \in Layouts /\ Fit(a) /\ v \in Present(a) /\ Current(a, copy, Gone)
  BY <1>1, BindCurrent DEF CacheInv, ValueInv
<1>4. Fit(c) /\ v \in Present(c) /\ Block(c, v) \in Blocks /\ Current(c, copy, Gone) /\ Typed(c)
  BY <1>2, <1>3, EnsureCurrent DEF Current
<1>5. CASE Usable(c, v)
  BY <1>2, <1>4, <1>5, CallKeepsValues DEF SameBlocks, Ends, Gone
<1>6. CASE ~Usable(c, v)
  <2>1. PICK d : d = Mark(c, v, TRUE)
    OBVIOUS
  <2>2. /\ Fit(d) /\ Typed(d) /\ SameBlocks(c, d) /\ UsableIn(d) = UsableIn(c) \cup {v}
        /\ PendingIn(d) = PendingIn(c) \ {v} /\ \A w \in Present(c) : BlockIn(d)[w] = Block(c, w)
    BY <1>4, <2>1, MarkCurrent
  <2>3. PICK U, D, B, B2 : U = UsableIn(c) /\ D = PendingIn(c) /\ B = BlockIn(c) /\ B2 = BlockIn(d)
    OBVIOUS
  <2>4. PICK b, borrowed : b = Block(c, v) /\ borrowed = Borrowed(c, v)
    OBVIOUS
  <2>5. PICK q : q = Put(copy, Start(b), Get(copy, Host(v), v))
    OBVIOUS
  <2>6. U \subseteq Present(c) /\ D \subseteq U /\ v \notin U /\ v \in Views /\ Latest(U, D, B, copy, Gone)
    BY <1>4, <1>6, <2>3, StatusType DEF UsableIn, Current, Latest, Domains
  <2>7. borrowed \in SUBSET Cells /\ \A w \in U : B[w] = b => CellsOf(w) \subseteq borrowed
    BY <1>3, <1>4, <2>3, <2>4, <2>6, UndefinedCells DEF BlockIn
  <2>8. B2[v] = b /\ \A w \in U : B2[w] = B[w]
    BY <1>4, <2>2, <2>3, <2>4, <2>6 DEF BlockIn
  <2>9. Latest(U \cup {v}, D, B2, q, Gone \cup borrowed)
    BY <1>3, <1>4, <2>4, <2>5, <2>6, <2>7, <2>8, LatestOfUploaded
  <2>10. PICK u : u = Gone \cup borrowed
    OBVIOUS
  <2>11. UsableIn(d) = U \cup {v} /\ PendingIn(d) = D
    BY <2>2, <2>3, <2>6
  <2>12. Current(d, q, u)
    BY <2>2, <2>3, <2>9, <2>10, <2>11 DEF Current
  <2>13. Leaves(q, c, u)
    <3>1. PICK undefined, older : undefined = void \cup borrowed /\ older = lost
      OBVIOUS
    <3>2. Values(q, c, undefined, older)
      BY <1>2, <1>6, <2>4, <2>5, <3>1 DEF Device, Start
    <3>3. u = undefined \cup older
      BY <2>10, <3>1 DEF Gone
    <3> QED BY <3>2, <3>3, ValuesLeave
  <2>14. cache' = d
    BY <1>2, <1>6, <2>1
  <2> QED BY <1>2, <2>2, <2>12, <2>13, <2>14, CallKeepsValues DEF Ends
<1> QED BY <1>5, <1>6

(* A device write, of a kernel or of a state update. *)
LEMMA WriteKeepsValues ==
  ASSUME CacheInv, ValueInv, view' = view, NEW c, Fit(c), NEW v \in Present(c), Block(c, v) \in Blocks,
         Current(c, copy, Gone), cache' = Mark(c, v, FALSE),
         Values(Renew(copy, Device(c, v), v), c, (void \ CellsOf(v)) \cup Borrowed(c, v) \cup Contested(c, v), lost \ CellsOf(v)),
         NEW bs, Record(bs) \/ UNCHANGED <<saved, recorded>>
  PROVE  ValueInv'
<1>1. PICK d : d = Mark(c, v, FALSE)
  OBVIOUS
<1>2. /\ Fit(d) /\ Typed(d) /\ SameBlocks(c, d) /\ UsableIn(d) = UsableIn(c) \cup {v}
      /\ PendingIn(d) = PendingIn(c) \cup {v} /\ \A w \in Present(c) : BlockIn(d)[w] = Block(c, w)
  BY <1>1, MarkCurrent DEF Current
<1>3. PICK U, D, B, B2 : U = UsableIn(c) /\ D = PendingIn(c) /\ B = BlockIn(c) /\ B2 = BlockIn(d)
  OBVIOUS
<1>4. PICK b, borrowed, contested : b = Block(c, v) /\ borrowed = Borrowed(c, v) /\ contested = Contested(c, v)
  OBVIOUS
<1>5. PICK q, u : q = Renew(copy, Start(b), v) /\ u = (Gone \ CellsOf(v)) \cup borrowed \cup contested
  OBVIOUS
<1>6. U \subseteq Present(c) /\ v \in Views /\ Latest(U, D, B, copy, Gone) /\ view \in Layouts /\ Typed(c)
  BY <1>3, StatusType DEF UsableIn, Current, ValueInv
<1>7. /\ borrowed \in SUBSET Cells /\ \A w \in U \ {v} : B[w] = b => CellsOf(w) \subseteq borrowed
      /\ contested \in SUBSET Cells /\ \A w \in D \ {v} : CellsOf(v) \cap CellsOf(w) \subseteq contested
  BY <1>3, <1>4, <1>6, UndefinedCells DEF BlockIn
<1>8. B2[v] = b /\ \A w \in U \ {v} : B2[w] = B[w]
  BY <1>2, <1>3, <1>4, <1>6 DEF BlockIn
<1>9. Latest(U \cup {v}, D \cup {v}, B2, q, u)
  <2>1. b \in Blocks
    BY <1>4
  <2> QED BY <1>5, <1>6, <1>7, <1>8, <2>1, LatestOfDeviceWrite
<1>10. Current(d, q, u)
  BY <1>2, <1>3, <1>9 DEF Current
<1>11. Leaves(q, c, u)
  <2>1. PICK undefined, older : undefined = (void \ CellsOf(v)) \cup borrowed \cup contested /\ older = lost \ CellsOf(v)
    OBVIOUS
  <2>2. Values(q, c, undefined, older)
    BY <1>4, <1>5, <2>1 DEF Device, Start
  <2>3. u = undefined \cup older
    BY <1>5, <2>1 DEF Gone
  <2> QED BY <2>2, <2>3, ValuesLeave
<1> QED BY <1>1, <1>2, <1>10, <1>11, CallKeepsValues DEF Ends

LEMMA KernelWriteKeepsValues == ASSUME CacheInv, ValueInv, NEW t \in Tensors, KernelWrite(t) PROVE ValueInv'
<1>1. PICK v, a : v = view[t] /\ a = Bind(cache, t)
  OBVIOUS
<1>2. PICK c \in Ensure(a, v) :
        /\ cache' = Mark(c, v, FALSE) /\ Record({Block(c, v)}) /\ view' = view
        /\ Values(Renew(copy, Device(c, v), v), c, (void \ CellsOf(v)) \cup Borrowed(c, v) \cup Contested(c, v), lost \ CellsOf(v))
  BY <1>1 DEF KernelWrite
<1>3. view \in Layouts /\ Fit(a) /\ v \in Present(a) /\ Current(a, copy, Gone)
  BY <1>1, BindCurrent DEF CacheInv, ValueInv
<1>4. Fit(c) /\ v \in Present(c) /\ Block(c, v) \in Blocks /\ Current(c, copy, Gone)
  BY <1>2, <1>3, EnsureCurrent
<1> QED BY <1>2, <1>4, WriteKeepsValues

(* Two handles are bound before a state update. *)
LEMMA BindBothCurrent ==
  ASSUME view \in Layouts, NEW c, Fit(c), NEW m, NEW u, Current(c, m, u), NEW s \in Tensors, NEW t \in Tensors,
         NEW d, d = Bind(Bind(c, s), t)
  PROVE  /\ Fit(d) /\ Current(d, m, u) /\ view[s] \in Present(d) /\ view[t] \in Present(d) /\ Present(c) \subseteq Present(d)
         /\ UsableIn(d) = UsableIn(c) /\ PendingIn(d) = PendingIn(c)
         /\ \A v \in Present(c) : BlockIn(d)[v] = BlockIn(c)[v] /\ d.replica[v] = c.replica[v]
         /\ d.handle = c.handle \cup {s, t} /\ d.keep = c.keep
<1>1. PICK a : a = Bind(c, s)
  OBVIOUS
<1>2. /\ Fit(a) /\ Current(a, m, u) /\ view[s] \in Present(a) /\ Present(c) \subseteq Present(a)
      /\ UsableIn(a) = UsableIn(c) /\ PendingIn(a) = PendingIn(c)
      /\ \A v \in Present(c) : BlockIn(a)[v] = BlockIn(c)[v] /\ a.replica[v] = c.replica[v]
      /\ a.handle = c.handle \cup {s} /\ a.keep = c.keep
  BY <1>1, BindCurrent
<1>3. d = Bind(a, t)
  BY <1>1
<1>4. /\ Fit(d) /\ Current(d, m, u) /\ view[t] \in Present(d) /\ Present(a) \subseteq Present(d)
      /\ UsableIn(d) = UsableIn(a) /\ PendingIn(d) = PendingIn(a)
      /\ \A v \in Present(a) : BlockIn(d)[v] = BlockIn(a)[v] /\ d.replica[v] = a.replica[v]
      /\ d.handle = a.handle \cup {t} /\ d.keep = a.keep
  BY <1>2, <1>3, BindCurrent
<1> QED BY <1>2, <1>4

LEMMA AppendStateKeepsValues ==
  ASSUME CacheInv, ValueInv, NEW s \in States, NEW o \in Tensors, AppendState(s, o) PROVE ValueInv'
<1>1. PICK v, a : v = view[s] /\ a = Bind(Bind(cache, s), o)
  OBVIOUS
<1>2. PICK c \in Ensure(a, v) :
        /\ cache' = Mark(c, v, FALSE) /\ view' = view /\ UNCHANGED <<saved, recorded>>
        /\ Values(Renew(copy, Device(c, v), v), c, (void \ CellsOf(v)) \cup Borrowed(c, v) \cup Contested(c, v), lost \ CellsOf(v))
  BY <1>1 DEF AppendState
<1>3. view \in Layouts /\ s \in Tensors
  BY DeviceAssumption DEF ValueInv, Tensors
<1>4. Fit(a) /\ v \in Present(a) /\ Current(a, copy, Gone)
  BY <1>1, <1>3, BindBothCurrent DEF CacheInv, ValueInv
<1>5. Fit(c) /\ v \in Present(c) /\ Block(c, v) \in Blocks /\ Current(c, copy, Gone)
  BY <1>2, <1>3, <1>4, EnsureCurrent
<1> QED BY <1>2, <1>5, WriteKeepsValues

(* Calls that bind a handle and leave the values alone. *)
LEMMA OutOfMemoryKeepsValues == ASSUME CacheInv, ValueInv, NEW t \in Tensors, OutOfMemory(t) PROVE ValueInv'
<1>1. PICK d : d = Bind(cache, t)
  OBVIOUS
<1>2. Fit(d) /\ Current(d, copy, Gone)
  BY <1>1, BindCurrent DEF CacheInv, ValueInv
<1>3. cache' = d /\ Record({}) /\ view' = view /\ copy' = copy /\ Gone' = Gone
  BY <1>1 DEF OutOfMemory, Gone
<1> QED BY <1>2, <1>3, CallKeepsValues DEF Ends, SameBlocks

LEMMA ExportKeepsValues == ASSUME CacheInv, ValueInv, NEW t \in Tensors, Export(t) PROVE ValueInv'
<1>1. PICK d : d = Bind(cache, t)
  OBVIOUS
<1>2. Fit(d) /\ Current(d, copy, Gone)
  BY <1>1, BindCurrent DEF CacheInv, ValueInv
<1>3. cache' = d /\ UNCHANGED <<saved, recorded>> /\ view' = view /\ copy' = copy /\ Gone' = Gone
  BY <1>1 DEF Export, Gone
<1> QED BY <1>2, <1>3, CallKeepsValues DEF Ends, SameBlocks

(* What changes the pool only, or only which replicas are persistent. *)
LEMMA PoolKeepsValues ==
  ASSUME CacheInv, ValueInv, view' = view, copy' = copy, Gone' = Gone, NEW a, Current(a, copy, Gone),
         cache'.replica = a.replica, cache'.handle = a.handle, cache'.keep \subseteq a.handle,
         NEW bs, Record(bs) \/ UNCHANGED <<saved, recorded>> \/ (saved' = <<>> /\ recorded' = {})
  PROVE  ValueInv'
<1>1. PICK d : d = cache'
  OBVIOUS
<1>2. Typed(d)
  BY <1>1 DEF Current, Typed, Present
<1>3. UsableIn(d) = UsableIn(a) /\ PendingIn(d) = PendingIn(a) /\ BlockIn(d) = BlockIn(a)
  BY <1>1 DEF UsableIn, PendingIn, BlockIn, Usable, Pending, Block, Present
<1>4. Current(d, copy, Gone)
  BY <1>2, <1>3, SameCurrent DEF ValueInv
<1>5. Current(cache, copy, Gone)'
  BY <1>1, <1>4, CurrentLater
<1>6. CASE saved' = <<>> /\ recorded' = {}
  BY <1>5, <1>6 DEF ValueInv, Recording
<1>7. CASE Record(bs) \/ UNCHANGED <<saved, recorded>>
  BY <1>5, <1>7, SnapshotKept DEF ValueInv
<1> QED BY <1>6, <1>7

LEMMA MarkPersistentKeepsValues ==
  ASSUME CacheInv, ValueInv, NEW t \in States, NEW persistent \in BOOLEAN, MarkPersistent(t, persistent) PROVE ValueInv'
<1>1. PICK c : c = Bind(cache, t)
  OBVIOUS
<1>2. t \in Tensors
  BY DeviceAssumption DEF ValueInv, Tensors
<1>3. /\ Fit(c) /\ Current(c, copy, Gone) /\ c.handle = cache.handle \cup {t} /\ c.keep = cache.keep
      /\ cache.keep \subseteq cache.handle
  BY <1>1, <1>2, BindCurrent DEF CacheInv, ValueInv, Current, Typed
<1>4. PICK keep : keep = IF persistent THEN c.keep \cup {t} ELSE c.keep \ {t}
  OBVIOUS
<1>5. cache' = [c EXCEPT !.keep = keep] /\ UNCHANGED <<view, saved, recorded, copy, void, lost>>
  BY <1>1, <1>4 DEF MarkPersistent
<1>6. cache'.replica = c.replica /\ cache'.handle = c.handle /\ cache'.keep = keep
  BY <1>3, <1>5 DEF Fit, Shape
<1>7. keep \subseteq c.handle
  BY <1>3, <1>4
<1>8. Gone' = Gone
  BY <1>5 DEF Gone
<1> QED BY <1>3, <1>5, <1>6, <1>7, <1>8, PoolKeepsValues

LEMMA BorrowKeepsValues == ASSUME CacheInv, ValueInv, Borrow PROVE ValueInv'
<1>1. PICK x \in Allocate(cache) : /\ cache' = [x.cache EXCEPT !.lent = x.cache.lent \cup {x.block}] /\ Record({x.block})
                                   /\ UNCHANGED <<view, copy, void, lost>>
  BY DEF Borrow
<1>2. PICK a : a = x.cache
  OBVIOUS
<1>3. Fit(a) /\ a.replica = cache.replica /\ a.handle = cache.handle
  BY <1>2, AllocateFits DEF CacheInv
<1>4. a.keep = cache.keep
  BY <1>2 DEF Allocate, CacheInv, Fit, Shape
<1>5. cache'.replica = cache.replica /\ cache'.handle = cache.handle /\ cache'.keep = cache.keep
  BY <1>1, <1>2, <1>3, <1>4 DEF Fit, Shape
<1>6. Current(cache, copy, Gone) /\ cache.keep \subseteq cache.handle
  BY DEF ValueInv, Current, Typed
<1>7. Gone' = Gone
  BY <1>1 DEF Gone
<1> QED BY <1>1, <1>5, <1>6, <1>7, PoolKeepsValues

LEMMA QuietKeepsValues ==
  ASSUME CacheInv, ValueInv,
         \/ \E b \in Blocks : GiveBack(b) \/ DropExport(b)
         \/ \E l \in Leases : Retain(l) \/ EndLease(l)
         \/ UNCHANGED vars
  PROVE  ValueInv'
<1>1. Current(cache, copy, Gone) /\ cache.keep \subseteq cache.handle
  BY DEF ValueInv, Current, Typed
<1>2. UNCHANGED <<view, copy, void, lost>>
  BY DEF GiveBack, DropExport, Retain, EndLease, vars
<1>3. cache'.replica = cache.replica /\ cache'.handle = cache.handle /\ cache'.keep = cache.keep
  BY DEF GiveBack, DropExport, Retain, EndLease, vars, CacheInv, Fit, Shape
<1>4. UNCHANGED <<saved, recorded>> \/ (saved' = <<>> /\ recorded' = {})
  BY DEF GiveBack, DropExport, Retain, EndLease, vars
<1>5. Gone' = Gone
  BY <1>2 DEF Gone
<1> QED BY <1>1, <1>2, <1>3, <1>4, <1>5, PoolKeepsValues

(* A capture starts with the values as they are, and may fall back to them. *)
LEMMA BeginCaptureKeepsValues == ASSUME CacheInv, ValueInv, BeginCapture PROVE ValueInv'
<1>1. PICK c, m, u : c = cache /\ m = copy /\ u = Gone
  OBVIOUS
<1>2. Current(c, m, u)
  BY <1>1 DEF ValueInv
<1>3. /\ cache' = c /\ copy' = m /\ Gone' = u /\ view' = view /\ recorded' = {}
      /\ saved' = [cache |-> c, copy |-> m, void |-> void, lost |-> lost, calls |-> 0]
  BY <1>1 DEF BeginCapture, Gone
<1>4. saved'.cache = c /\ saved'.copy = m /\ SavedGone' = u
  BY <1>1, <1>3 DEF Gone, SavedGone
<1>5. Current(cache, copy, Gone)' /\ Current(saved.cache, saved.copy, SavedGone)'
  BY <1>2, <1>3, <1>4, CurrentLater
<1> QED BY <1>3, <1>5 DEF ValueInv

LEMMA RollbackKeepsValues ==
  ASSUME CacheInv, ValueInv, Recording, NEW c, Fit(c), NEW older, NEW m, m = saved.copy,
         NEW u, u = SavedGone \cup older, Current(c, m, u), Rollback(c, older)
  PROVE  ValueInv'
<1>1. PICK a, b : a = saved.void /\ b = saved.lost \cup older
  OBVIOUS
<1>2. cache' = c /\ Values(m, c, a, b) /\ saved' = <<>> /\ recorded' = {} /\ view' = view
  BY <1>1 DEF Rollback
<1>3. u = a \cup b
  BY <1>1 DEF SavedGone
<1>4. Leaves(m, c, u)
  BY <1>2, <1>3, ValuesLeave
<1>5. Current(cache, copy, Gone)'
  BY <1>2, <1>4, EndCurrent DEF ValueInv, Ends, SameBlocks
<1> QED BY <1>2, <1>5 DEF ValueInv, Recording

LEMMA AbandonKeepsValues == ASSUME CacheInv, ValueInv, Abandon PROVE ValueInv'
<1>1. PICK c, m, u : c = saved.cache /\ m = saved.copy /\ u = SavedGone
  OBVIOUS
<1>2. Recording /\ Fit(c) /\ Current(c, m, u) /\ Rollback(c, {}) /\ u = SavedGone \cup {}
  BY <1>1 DEF Abandon, CacheInv, ValueInv
<1> QED BY <1>1, <1>2, RollbackKeepsValues

(* A failed read falls back too, but the snapshot's replicas of the storage are outdated:
   what only they have is lost. *)
LEMMA FailedReadKeepsValues == ASSUME CacheInv, ValueInv, NEW t \in Tensors, FailedRead(t) PROVE ValueInv'
<1>1. PICK c, m, u, s : c = saved.cache /\ m = saved.copy /\ u = SavedGone /\ s = view[t].storage
  OBVIOUS
<1>2. Recording /\ Fit(c) /\ Current(c, m, u) /\ view \in Layouts
  BY <1>1 DEF FailedRead, CacheInv, ValueInv
<1>3. PICK d, older : d = Outdate(c, s) /\ older = UNION {CellsOf(w) : w \in {x \in Present(c) : x.storage = s /\ Pending(c, x)}}
  OBVIOUS
<1>4. Rollback(d, older)
  BY <1>1, <1>3 DEF FailedRead
<1>5. /\ Typed(d) /\ UsableIn(d) = {v \in UsableIn(c) : v.storage # s}
      /\ PendingIn(d) = {v \in PendingIn(c) : v.storage # s}
      /\ \A w \in Present(c) : BlockIn(d)[w] = BlockIn(c)[w]
  BY <1>2, <1>3, OutdateStatus DEF Current
<1>6. PICK U, D, B, U2, D2, B2 : /\ U = UsableIn(c) /\ D = PendingIn(c) /\ B = BlockIn(c)
                                 /\ U2 = UsableIn(d) /\ D2 = PendingIn(d) /\ B2 = BlockIn(d)
  OBVIOUS
<1>7. PICK u2 : u2 = u \cup older
  OBVIOUS
<1>8. Latest(U, D, B, m, u) /\ D \subseteq U /\ u \subseteq Cells /\ U \subseteq Present(c) /\ D \subseteq Present(c)
  BY <1>2, <1>6 DEF Current, Latest, Domains, UsableIn, PendingIn
<1>9. \A v \in Present(c) : CellsOf(v) \subseteq Cells
  BY <1>2, StatusType, ViewFacts DEF Current
<1>10. u2 \subseteq Cells /\ u \subseteq u2
  BY <1>3, <1>7, <1>8, <1>9
<1>11. U2 \subseteq U /\ D2 \subseteq D \cap U2 /\ \A v \in U2 : B2[v] = B[v]
  BY <1>5, <1>6, <1>8
<1>12. \A v \in D \ D2 : CellsOf(v) \subseteq u2
  BY <1>3, <1>5, <1>6, <1>7 DEF PendingIn
<1>13. Latest(U2, D2, B2, m, u2)
  BY <1>2, <1>8, <1>10, <1>11, <1>12, LatestOfFewer
<1>14. Current(d, m, u2)
  BY <1>5, <1>6, <1>13 DEF Current
<1>15. Fit(d)
  BY <1>2, <1>3, OutdateFits
<1>16. u2 = SavedGone \cup older
  BY <1>1, <1>7
<1> QED BY <1>1, <1>2, <1>4, <1>14, <1>15, <1>16, RollbackKeepsValues

(* The host's write is the latest value of its cells, for the cache and for the snapshot. *)
LEMMA HostWriteCurrent ==
  ASSUME view \in Layouts, NEW c, Fit(c), NEW m, NEW u, Current(c, m, u), NEW t \in Tensors, NoOtherPending(c, t),
         NEW v, v = view[t], NEW d, d = Outdate(c, v.storage), NEW q, q = Renew(m, Host(v), v)
  PROVE  Fit(d) /\ Current(d, q, u \ CellsOf(v)) /\ \A w \in UsableIn(d) : w.storage # v.storage
<1>1. /\ Typed(d) /\ UsableIn(d) = {w \in UsableIn(c) : w.storage # v.storage}
      /\ PendingIn(d) = {w \in PendingIn(c) : w.storage # v.storage}
      /\ \A w \in Present(c) : BlockIn(d)[w] = BlockIn(c)[w]
  BY OutdateStatus DEF Current
<1>2. PICK U, D, B, U2, D2, B2 : /\ U = UsableIn(c) /\ D = PendingIn(c) /\ B = BlockIn(c)
                                 /\ U2 = UsableIn(d) /\ D2 = PendingIn(d) /\ B2 = BlockIn(d)
  OBVIOUS
<1>3. Latest(U, D, B, m, u) /\ U \subseteq Present(c) /\ v \in Views
  BY <1>2 DEF Current, UsableIn, Views
<1>4. \A w \in D \ {v} : w.storage # v.storage
  BY <1>2 DEF NoOtherPending, PendingIn
<1>5. U2 = {w \in U : w.storage # v.storage} /\ D2 = {w \in D : w.storage # v.storage} /\ \A w \in U2 : B2[w] = B[w]
  BY <1>1, <1>2, <1>3
<1>6. Latest(U2, D2, B2, q, u \ CellsOf(v))
  BY <1>3, <1>4, <1>5, LatestOfHostWrite
<1>7. Fit(d)
  BY OutdateFits
<1> QED BY <1>1, <1>2, <1>6, <1>7 DEF Current

LEMMA HostWriteKeepsValues ==
  ASSUME CacheInv, ValueInv, NEW t \in Tensors, NEW told \in BOOLEAN, HostWrite(t, told) PROVE ValueInv'
<1>1. PICK v, a, q, u : /\ v = view[t] /\ a = Outdate(cache, v.storage)
                        /\ q = Renew(copy, Host(v), v) /\ u = Gone \ CellsOf(v)
  OBVIOUS
<1>2. view \in Layouts /\ view' = view /\ recorded' = recorded
  BY DEF ValueInv, HostWrite
<1>3. Fit(a) /\ Current(a, q, u) /\ \A w \in UsableIn(a) : w.storage # v.storage
  <2>1. Fit(cache) /\ Current(cache, copy, Gone) /\ NoOtherPending(cache, t)
    BY DEF CacheInv, ValueInv, HostWrite
  <2>2. view[t] = v /\ a = Outdate(cache, view[t].storage) /\ q = Renew(copy, Host(view[t]), view[t])
        /\ u = Gone \ CellsOf(view[t])
    BY <1>1
  <2> QED BY <1>2, <2>1, <2>2, HostWriteCurrent
<1>4. PICK d : d = cache'
  OBVIOUS
<1>5. PICK b : b = Bind(a, t)
  OBVIOUS
<1>6. d = a \/ d = Invalidate(b, v)
  BY <1>1, <1>4, <1>5 DEF HostWrite
<1>7. Fit(d) /\ Current(d, q, u)
  <2>1. CASE d = a
    BY <1>3, <2>1
  <2>2. CASE d = Invalidate(b, v)
    <3>1. Fit(b) /\ Current(b, q, u) /\ v \in Present(b) /\ UsableIn(b) = UsableIn(a) /\ Typed(b)
      BY <1>1, <1>2, <1>3, <1>5, BindCurrent DEF Current
    <3>2. v \notin UsableIn(b) /\ UsableIn(b) \subseteq Present(b) /\ PendingIn(b) \subseteq UsableIn(b)
      BY <1>3, <3>1 DEF UsableIn, PendingIn, Pending
    <3>3. /\ Typed(d) /\ UsableIn(d) = UsableIn(b) \ {v} /\ PendingIn(d) = PendingIn(b) \ {v}
          /\ \A w \in Present(b) : BlockIn(d)[w] = BlockIn(b)[w]
      BY <2>2, <3>1, InvalidateStatus
    <3>4. UsableIn(d) = UsableIn(b) /\ PendingIn(d) = PendingIn(b) /\ \A w \in UsableIn(b) : BlockIn(d)[w] = BlockIn(b)[w]
      BY <3>2, <3>3
    <3>5. Current(d, q, u)
      BY <1>2, <3>1, <3>3, <3>4, SameCurrent
    <3>6. Fit(d)
      BY <2>2, <3>1, InvalidateFits
    <3> QED BY <3>5, <3>6
  <2> QED BY <1>6, <2>1, <2>2
<1>8. Leaves(q, d, u)
  <2>1. PICK undefined, older : undefined = void \ CellsOf(v) /\ older = lost \ CellsOf(v)
    OBVIOUS
  <2>2. Values(q, d, undefined, older)
    BY <1>1, <1>4, <2>1 DEF HostWrite
  <2>3. u = undefined \cup older
    BY <1>1, <2>1 DEF Gone
  <2> QED BY <2>2, <2>3, ValuesLeave
<1>9. Current(cache, copy, Gone)'
  BY <1>2, <1>4, <1>7, <1>8, EndCurrent DEF Ends, SameBlocks
<1>10. CASE ~Recording
  <2>1. saved' = saved
    BY <1>10 DEF HostWrite
  <2> QED BY <1>2, <1>9, <1>10, <2>1 DEF ValueInv, Recording
<1>11. CASE Recording
  <2>1. PICK c, m, n : c = saved.cache /\ m = saved.copy /\ n = SavedGone
    OBVIOUS
  <2>2. PICK e, p : e = Outdate(c, v.storage) /\ p = Renew(m, Host(v), v)
    OBVIOUS
  <2>3. Fit(c) /\ Current(c, m, n) /\ NoOtherPending(c, t) /\ DOMAIN saved = {"cache", "copy", "void", "lost", "calls"}
    BY <1>11, <2>1 DEF CacheInv, ValueInv, HostWrite
  <2>4. Current(e, p, n \ CellsOf(v))
    BY <1>1, <1>2, <2>2, <2>3, HostWriteCurrent
  <2>5. saved' = [saved EXCEPT !.calls = @ + 1, !.cache = e, !.copy = p, !.void = @ \ CellsOf(v), !.lost = @ \ CellsOf(v)]
    BY <1>1, <1>11, <2>1, <2>2 DEF HostWrite
  <2>6. saved'.cache = e /\ saved'.copy = p /\ SavedGone' = n \ CellsOf(v) /\ saved' # <<>>
    <3>1. saved'.cache = e /\ saved'.copy = p /\ SavedGone' = n \ CellsOf(v)
      BY <2>1, <2>3, <2>5 DEF SavedGone
    <3>2. DOMAIN saved' = {"cache", "copy", "void", "lost", "calls"}
      BY <2>3, <2>5
    <3> QED BY <3>1, <3>2
  <2>7. Current(saved.cache, saved.copy, SavedGone)'
    BY <1>2, <2>4, <2>6, CurrentLater
  <2> QED BY <1>2, <1>9, <2>6, <2>7 DEF ValueInv, Recording
<1> QED BY <1>10, <1>11

(* A read on the host leaves the replica as it is, or gives it up for a newer value of the
   host's, or copies it to the host. *)
LEMMA DownloadKeepsValues ==
  ASSUME CacheInv, ValueInv, NEW t \in Tensors, NEW v, v = view[t], Pending(cache, v), CanDownload(cache, v),
         cache' = Mark(Refresh(Bind(cache, t), v), v, TRUE), view' = view,
         Values(Put(copy, Host(v), Get(copy, Device(cache, v), v)), cache', void, lost), Record({})
  PROVE  ValueInv'
<1>1. PICK c : c = Bind(cache, t)
  OBVIOUS
<1>2. /\ view \in Layouts /\ Fit(c) /\ Current(c, copy, Gone) /\ v \in Present(c) /\ Typed(c)
      /\ UsableIn(c) = UsableIn(cache) /\ PendingIn(c) = PendingIn(cache)
      /\ \A w \in Present(cache) : c.replica[w] = cache.replica[w]
  BY <1>1, BindCurrent DEF CacheInv, ValueInv, Current
<1>3. v \in PendingIn(c) /\ v \in UsableIn(c) /\ Block(c, v) = Block(cache, v)
  BY <1>2 DEF PendingIn, UsableIn, Pending, Usable, Block
<1>4. PICK r : r = Refresh(c, v)
  OBVIOUS
<1>5. /\ Fit(r) /\ Present(r) = Present(c) /\ \A w \in Present(c) : Block(r, w) = Block(c, w)
      /\ Typed(r) /\ UsableIn(r) \subseteq UsableIn(c) /\ PendingIn(r) = PendingIn(c) \cap UsableIn(r)
      /\ v \in UsableIn(r)
      /\ \A w \in UsableIn(r) \ {v} : CellsOf(w) \cap CellsOf(v) = {} \/ Block(c, w) = Block(c, v)
      /\ \A w \in UsableIn(c) \ UsableIn(r) : Overlaps(v, w) /\ Block(c, w) # Block(c, v)
  BY <1>2, <1>3, <1>4, RefreshFits, RefreshStatus
<1>6. PICK d : d = Mark(r, v, TRUE)
  OBVIOUS
<1>7. Block(r, v) \in Blocks
  BY <1>5, UsableHasBlock DEF UsableIn
<1>8. /\ Fit(d) /\ Typed(d) /\ UsableIn(d) = UsableIn(r) /\ PendingIn(d) = PendingIn(r) \ {v}
      /\ \A w \in Present(c) : BlockIn(d)[w] = Block(c, w)
  <2>1. /\ Fit(d) /\ Typed(d) /\ UsableIn(d) = UsableIn(r) \cup {v} /\ PendingIn(d) = PendingIn(r) \ {v}
        /\ \A w \in Present(r) : BlockIn(d)[w] = Block(r, w)
    <3>1. v \in Present(r) /\ Fit(r) /\ Typed(r)
      BY <1>2, <1>5
    <3> QED BY <1>6, <1>7, <3>1, MarkCurrent
  <2> QED BY <1>5, <2>1
<1>9. PICK U, D, B, U2, D2, B2 : /\ U = UsableIn(c) /\ D = PendingIn(c) /\ B = BlockIn(c)
                                 /\ U2 = UsableIn(d) /\ D2 = PendingIn(d) /\ B2 = BlockIn(d)
  OBVIOUS
<1>10. /\ Latest(U, D, B, copy, Gone) /\ v \in D /\ v \in U2 /\ U2 \subseteq U /\ D2 = (D \cap U2) \ {v}
       /\ U \subseteq Present(c) /\ D \subseteq Present(c)
  BY <1>2, <1>3, <1>5, <1>8, <1>9 DEF Current, UsableIn, PendingIn
<1>11. B[v] = Block(c, v) /\ \A w \in U : B[w] = Block(c, w) /\ B2[w] = B[w]
  BY <1>2, <1>8, <1>9, <1>10 DEF BlockIn
<1>12. \A w \in U2 \ {v} : CellsOf(w) \cap CellsOf(v) = {} \/ B[w] = B[v]
  BY <1>5, <1>8, <1>9, <1>10, <1>11
<1>13. ASSUME NEW w \in D \ U2 PROVE CellsOf(w) \subseteq CellsOf(v)
  <2>1. w \in PendingIn(cache) /\ w \in UsableIn(c) \ UsableIn(r) /\ w # v
    BY <1>2, <1>8, <1>9, <1>10 DEF PendingIn, UsableIn, Pending
  <2>2. Overlaps(v, w) /\ Block(cache, w) # Block(cache, v)
    BY <1>2, <1>3, <1>5, <2>1 DEF PendingIn, Block
  <2> QED BY <2>1, <2>2 DEF CanDownload, PendingIn, Covers
<1>14. PICK q : q = Put(copy, Host(v), Get(copy, Start(B[v]), v))
  OBVIOUS
<1>15. Latest(U2, D2, B2, q, Gone)
  BY <1>2, <1>10, <1>11, <1>12, <1>13, <1>14, LatestOfDownload
<1>16. Current(d, q, Gone)
  BY <1>8, <1>9, <1>15 DEF Current
<1>17. cache' = d /\ Leaves(q, d, Gone)
  <2>1. PICK a, b : a = void /\ b = lost
    OBVIOUS
  <2>2. cache' = d /\ Values(q, d, a, b)
    BY <1>1, <1>3, <1>4, <1>6, <1>11, <1>14, <2>1 DEF Device, Start
  <2>3. PICK u : u = a \cup b
    OBVIOUS
  <2>4. Leaves(q, d, u)
    BY <2>2, <2>3, ValuesLeave
  <2>5. u = Gone
    BY <2>1, <2>3 DEF Gone
  <2> QED BY <2>2, <2>4, <2>5
<1> QED BY <1>8, <1>16, <1>17, CallKeepsValues DEF Ends, SameBlocks

LEMMA ReadHostKeepsValues == ASSUME CacheInv, ValueInv, NEW t \in Tensors, ReadHost(t) PROVE ValueInv'
<1>1. PICK v, c : v = view[t] /\ c = Bind(cache, t)
  OBVIOUS
<1>2. /\ view \in Layouts /\ view' = view /\ Fit(c) /\ Current(c, copy, Gone) /\ v \in Present(c) /\ Typed(c)
      /\ v \in Present(cache) /\ c.replica[v] = cache.replica[v] /\ Record({})
  BY <1>1, BindCurrent DEF CacheInv, ValueInv, ReadHost, Current
<1>3. PICK d : d = cache'
  OBVIOUS
<1>4. CASE d = c /\ UNCHANGED <<copy, void, lost>>
  BY <1>2, <1>3, <1>4, CallKeepsValues DEF Ends, SameBlocks, Gone
<1>5. CASE ~cache.replica[v].current /\ d = Invalidate(c, v) /\ UNCHANGED <<copy, void, lost>>
  <2>1. v \notin UsableIn(c) /\ UsableIn(c) \subseteq Present(c) /\ PendingIn(c) \subseteq UsableIn(c)
    BY <1>2, <1>5 DEF UsableIn, PendingIn, Usable, Pending
  <2>2. /\ Typed(d) /\ UsableIn(d) = UsableIn(c) \ {v} /\ PendingIn(d) = PendingIn(c) \ {v}
        /\ \A w \in Present(c) : BlockIn(d)[w] = BlockIn(c)[w]
    BY <1>2, <1>5, InvalidateStatus
  <2>3. UsableIn(d) = UsableIn(c) /\ PendingIn(d) = PendingIn(c) /\ \A w \in UsableIn(c) : BlockIn(d)[w] = BlockIn(c)[w]
    BY <2>1, <2>2
  <2>4. Current(d, copy, Gone)
    BY <1>2, <2>2, <2>3, SameCurrent
  <2>5. Fit(d)
    BY <1>2, <1>5, InvalidateFits
  <2> QED BY <1>2, <1>3, <1>5, <2>4, <2>5, CallKeepsValues DEF Ends, SameBlocks, Gone
<1>6. CASE /\ Pending(cache, v) /\ CanDownload(cache, v) /\ d = Mark(Refresh(c, v), v, TRUE)
           /\ Values(Put(copy, Host(v), Get(copy, Device(cache, v), v)), d, void, lost)
  BY <1>1, <1>2, <1>3, <1>6, DownloadKeepsValues
<1> QED BY <1>1, <1>3, <1>4, <1>5, <1>6 DEF ReadHost

LEMMA FitAfter ==
  ASSUME CacheInv', UNCHANGED <<view, exported, lease>>, NEW d, d = cache'
  PROVE  Fit(d)
<1>1. Pinned' = Pinned
  BY DEF Pinned
<1>2. Fit(cache)'
  BY DEF CacheInv
<1> QED BY <1>1, <1>2 DEF Fit, Shape, Apart, Replicas, Held, Block, Present

(* A handle that goes, and the replica with the last one: what only it had is dropped. *)
LEMMA ErasedCurrent ==
  ASSUME view \in Layouts, NEW c, Fit(c), NEW m, NEW u, Current(c, m, u), NEW t \in Tensors,
         NEW gone, gone = IF IsLast(c, t) THEN {view[t]} ELSE {},
         NEW d, Typed(d), UsableIn(d) = UsableIn(c) \ gone, PendingIn(d) = PendingIn(c) \ gone,
         \A w \in UsableIn(d) : BlockIn(d)[w] = BlockIn(c)[w],
         NEW dropped, dropped = IF IsLast(c, t) /\ Pending(c, view[t]) THEN CellsOf(view[t]) ELSE {}
  PROVE  Current(d, m, u \cup dropped)
<1>1. PICK U, D, B, U2, D2, B2 : /\ U = UsableIn(c) /\ D = PendingIn(c) /\ B = BlockIn(c)
                                 /\ U2 = UsableIn(d) /\ D2 = PendingIn(d) /\ B2 = BlockIn(d)
  OBVIOUS
<1>2. Latest(U, D, B, m, u) /\ D \subseteq U /\ u \subseteq Cells
  BY <1>1 DEF Current, Latest, Domains
<1>3. U2 \subseteq U /\ D2 \subseteq D \cap U2 /\ \A w \in U2 : B2[w] = B[w]
  BY <1>1, <1>2
<1>4. \A w \in D \ D2 : CellsOf(w) \subseteq u \cup dropped
  BY <1>1 DEF PendingIn
<1>5. dropped \subseteq Cells
  BY ViewFacts DEF Views
<1>6. PICK u2 : u2 = u \cup dropped
  OBVIOUS
<1>7. Latest(U2, D2, B2, m, u2)
  BY <1>2, <1>3, <1>4, <1>5, <1>6, LatestOfFewer
<1> QED BY <1>1, <1>6, <1>7 DEF Current

LEMMA ReleaseKeepsValues == ASSUME CacheInv, ValueInv, NEW t \in Tensors, Release(t) PROVE ValueInv'
<1>1. PICK v, c : v = view[t] /\ c = IF IsLast(cache, t) THEN ReleaseBlock(cache, v) ELSE cache
  OBVIOUS
<1>2. /\ view \in Layouts /\ Fit(cache) /\ Current(cache, copy, Gone) /\ Typed(cache) /\ v \in Present(cache)
      /\ t \notin cache.keep
  BY <1>1 DEF ValueInv, CacheInv, Current, Typed, Release, Persistent
<1>3. PICK gone : gone = IF IsLast(cache, t) THEN {v} ELSE {}
  OBVIOUS
<1>4. /\ Fit(c) /\ Typed(c) /\ Present(c) = Present(cache) /\ c.handle = cache.handle /\ c.keep = cache.keep
      /\ UsableIn(c) = UsableIn(cache) \ gone /\ PendingIn(c) = PendingIn(cache) \ gone
      /\ \A w \in Present(cache) \ gone : BlockIn(c)[w] = BlockIn(cache)[w]
  <2>1. CASE IsLast(cache, t)
    <3>1. c = ReleaseBlock(cache, v)
      BY <1>1, <2>1
    <3>2. Fit(c)
      BY <1>2, <3>1, ReleaseBlockFits
    <3>3. /\ Typed(c) /\ Present(c) = Present(cache) /\ c.handle = cache.handle /\ c.keep = cache.keep
          /\ UsableIn(c) = UsableIn(cache) \ {v} /\ PendingIn(c) = PendingIn(cache) \ {v}
          /\ \A w \in Present(cache) \ {v} : BlockIn(c)[w] = BlockIn(cache)[w]
      BY <1>2, <3>1, ReleaseBlockStatus
    <3> QED BY <1>3, <2>1, <3>2, <3>3
  <2>2. CASE ~IsLast(cache, t)
    BY <1>1, <1>2, <1>3, <2>2
  <2> QED BY <2>1, <2>2
<1>5. PICK d : d = EraseHandle(c, t)
  OBVIOUS
<1>6. (IsLast(c, t) => gone = {view[t]}) /\ (~IsLast(c, t) => gone = {})
  <2>1. IsLast(c, t) <=> IsLast(cache, t)
    BY <1>4 DEF IsLast
  <2> QED BY <1>1, <1>3, <2>1
<1>7. /\ d.handle = c.handle \ {t} /\ d.keep = c.keep /\ Present(d) = {view[u] : u \in d.handle}
      /\ UsableIn(d) = UsableIn(c) \ gone /\ PendingIn(d) = PendingIn(c) \ gone
      /\ \A w \in Present(d) : BlockIn(d)[w] = BlockIn(c)[w]
      /\ Present(d) \subseteq Present(c)
  <2>1. Fit(c) /\ Typed(c) /\ view[t] \in Present(c)
    BY <1>1, <1>2, <1>4
  <2>2. Erased(c, d, t, gone)
    BY <1>5, <1>6, <2>1, EraseStatus
  <2> QED BY <2>2 DEF Erased
<1>8. Typed(d)
  BY <1>2, <1>4, <1>7 DEF Typed
<1>9. /\ UsableIn(d) = UsableIn(cache) \ gone /\ PendingIn(d) = PendingIn(cache) \ gone
      /\ \A w \in UsableIn(d) : BlockIn(d)[w] = BlockIn(cache)[w]
  <2>1. UsableIn(d) \subseteq Present(d) \ gone
    BY <1>7 DEF UsableIn
  <2> QED BY <1>4, <1>7, <2>1
<1>10. PICK dropped : dropped = IF IsLast(cache, t) /\ Pending(cache, view[t]) THEN CellsOf(view[t]) ELSE {}
  OBVIOUS
<1>11. PICK u : u = Gone \cup dropped
  OBVIOUS
<1>12. Current(d, copy, u)
  BY <1>1, <1>2, <1>3, <1>8, <1>9, <1>10, <1>11, ErasedCurrent
<1>13. cache' = d /\ Leaves(copy, d, u) /\ view' = view /\ Record({})
  <2>1. PICK m, a, b : m = copy /\ a = void \cup dropped /\ b = lost
    OBVIOUS
  <2>2. cache' = d /\ Values(m, d, a, b) /\ view' = view /\ Record({})
    BY <1>1, <1>5, <1>10, <2>1 DEF Release, Dropped
  <2>3. u = a \cup b
    BY <1>11, <2>1 DEF Gone
  <2>4. Leaves(m, d, u)
    BY <2>2, <2>3, ValuesLeave
  <2> QED BY <2>1, <2>2, <2>4 DEF Leaves
<1>14. Fit(d)
  BY <1>4, <1>5, EraseHandleFits
<1> QED BY <1>12, <1>13, <1>14, CallKeepsValues DEF Ends, SameBlocks

LEMMA UnregisterKeepsValues == ASSUME CacheInv, ValueInv, NEW t \in Tensors, Unregister(t) PROVE ValueInv'
<1>1. PICK e : e = EraseHandle(cache, t)
  OBVIOUS
<1>2. /\ view \in Layouts /\ Fit(cache) /\ Current(cache, copy, Gone) /\ Typed(cache) /\ view[t] \in Present(cache)
      /\ cache.keep \subseteq cache.handle
  BY DEF ValueInv, CacheInv, Current, Typed, Unregister
<1>3. PICK gone : gone = IF IsLast(cache, t) THEN {view[t]} ELSE {}
  OBVIOUS
<1>4. /\ e.handle = cache.handle \ {t} /\ e.keep = cache.keep /\ Present(e) = {view[u] : u \in e.handle}
      /\ UsableIn(e) = UsableIn(cache) \ gone /\ PendingIn(e) = PendingIn(cache) \ gone
      /\ \A w \in Present(e) : BlockIn(e)[w] = BlockIn(cache)[w]
  <2>1. Fit(cache) /\ Typed(cache) /\ view[t] \in Present(cache)
    BY <1>2
  <2>2. (IsLast(cache, t) => gone = {view[t]}) /\ (~IsLast(cache, t) => gone = {})
    BY <1>3
  <2>3. Erased(cache, e, t, gone)
    BY <1>1, <2>1, <2>2, EraseStatus
  <2> QED BY <2>3 DEF Erased
<1>5. PICK d : d = cache'
  OBVIOUS
<1>6. PICK keep, owned : d = [e EXCEPT !.keep = keep, !.owned = owned] /\ keep = e.keep \ {t}
  BY <1>1, <1>5 DEF Unregister
<1>7. Fit(e)
  BY <1>1, <1>2, EraseHandleFits
<1>8. d.handle = e.handle /\ d.keep = keep /\ d.replica = e.replica
  BY <1>6, <1>7 DEF Fit, Shape
<1>9. /\ Typed(d) /\ UsableIn(d) = UsableIn(cache) \ gone /\ PendingIn(d) = PendingIn(cache) \ gone
      /\ \A w \in UsableIn(d) : BlockIn(d)[w] = BlockIn(cache)[w]
  <2>1. Typed(d)
    BY <1>2, <1>4, <1>6, <1>8 DEF Typed, Present
  <2>2. UsableIn(d) = UsableIn(e) /\ PendingIn(d) = PendingIn(e) /\ BlockIn(d) = BlockIn(e)
    BY <1>8 DEF UsableIn, PendingIn, BlockIn, Usable, Pending, Block, Present
  <2>3. UsableIn(e) \subseteq Present(e)
    BY DEF UsableIn
  <2> QED BY <1>4, <2>1, <2>2, <2>3
<1>10. PICK dropped : dropped = IF IsLast(cache, t) /\ Pending(cache, view[t]) THEN CellsOf(view[t]) ELSE {}
  OBVIOUS
<1>11. PICK u : u = Gone \cup dropped
  OBVIOUS
<1>12. Current(d, copy, u)
  BY <1>2, <1>3, <1>9, <1>10, <1>11, ErasedCurrent
<1>13. cache' = d /\ Leaves(copy, d, u) /\ UNCHANGED <<view, exported, saved, recorded, lease>>
  <2>1. PICK m, a, b : m = copy /\ a = void \cup dropped /\ b = lost
    OBVIOUS
  <2>2. cache' = d /\ Values(m, d, a, b) /\ UNCHANGED <<view, exported, saved, recorded, lease>>
    BY <1>5, <1>10, <2>1 DEF Unregister, Dropped
  <2>3. u = a \cup b
    BY <1>11, <2>1 DEF Gone
  <2>4. Leaves(m, d, u)
    BY <2>2, <2>3, ValuesLeave
  <2> QED BY <2>1, <2>2, <2>4 DEF Leaves
<1>14. CacheInv'
  BY UnregisterKeeps
<1>15. Fit(d)
  BY <1>5, <1>13, <1>14, FitAfter
<1> QED BY <1>12, <1>13, <1>15, CallKeepsValues DEF Ends, SameBlocks

(* One view takes another one's block over. *)
LEMMA AliasKeepsValues ==
  ASSUME CacheInv, ValueInv, NEW s \in Tensors, NEW t \in Tensors, Alias(s, t) PROVE ValueInv'
<1>1. PICK v, w : v = view[s] /\ w = view[t]
  OBVIOUS
<1>2. PICK c : c = Bind(Bind(cache, s), t)
  OBVIOUS
<1>3. /\ view \in Layouts /\ Fit(cache) /\ Typed(cache) /\ Current(cache, copy, Gone) /\ v \in UsableIn(cache)
      /\ v.bytes = w.bytes /\ w \in Views
  BY <1>1 DEF ValueInv, CacheInv, Current, Alias, UsableIn, Usable, Views
<1>4. /\ Fit(c) /\ Current(c, copy, Gone) /\ v \in Present(c) /\ w \in Present(c)
      /\ UsableIn(c) = UsableIn(cache) /\ PendingIn(c) = PendingIn(cache)
  BY <1>1, <1>2, <1>3, BindBothCurrent
<1>5. PICK U, D, B : U = UsableIn(c) /\ D = PendingIn(c) /\ B = BlockIn(c)
  OBVIOUS
<1>6. Typed(c) /\ Latest(U, D, B, copy, Gone) /\ Domains(U, D, B) /\ v \in U
  BY <1>3, <1>4, <1>5 DEF Current, Latest
<1>7. Block(c, v) \in Blocks /\ \A z \in Present(c) : B[z] = Block(c, z)
  BY <1>4, <1>5, <1>6 DEF Domains, BlockIn
<1>8. PICK d : d = IF Block(c, w) # Block(c, v) THEN ReleaseBlock(c, w) ELSE c
  OBVIOUS
<1>9. /\ Fit(d) /\ Typed(d) /\ Present(d) = Present(c) /\ Block(d, v) = Block(c, v)
      /\ UsableIn(d) \cup {w} = U \cup {w} /\ PendingIn(d) \cup {w} = D \cup {w}
      /\ \A z \in Present(c) \ {w} : BlockIn(d)[z] = B[z]
  <2>1. CASE Block(c, w) = Block(c, v)
    BY <1>4, <1>5, <1>6, <1>8, <2>1
  <2>2. CASE Block(c, w) # Block(c, v)
    <3>1. d = ReleaseBlock(c, w)
      BY <1>8, <2>2
    <3>2. Fit(d)
      BY <1>4, <3>1, ReleaseBlockFits
    <3>3. /\ Typed(d) /\ Present(d) = Present(c)
          /\ UsableIn(d) = UsableIn(c) \ {w} /\ PendingIn(d) = PendingIn(c) \ {w}
          /\ \A z \in Present(c) \ {w} : BlockIn(d)[z] = BlockIn(c)[z]
      BY <1>4, <1>6, <3>1, ReleaseBlockStatus
    <3>4. Block(d, v) = Block(c, v)
      BY <1>4, <2>2, <3>3 DEF BlockIn
    <3> QED BY <1>5, <3>2, <3>3, <3>4
  <2> QED BY <2>1, <2>2
<1>10. PICK e : e = TakenOver(d, v, w)
  OBVIOUS
<1>11. /\ Typed(e) /\ Present(e) = Present(c) /\ UsableIn(e) = U \cup {w} /\ PendingIn(e) = D \cup {w}
       /\ BlockIn(e)[w] = B[v] /\ \A z \in Present(c) \ {w} : BlockIn(e)[z] = B[z]
  <2>1. v \in Present(d) /\ w \in Present(d) /\ Block(d, v) \in Blocks
    BY <1>4, <1>7, <1>9
  <2>2. /\ Typed(e) /\ Present(e) = Present(d)
        /\ UsableIn(e) = UsableIn(d) \cup {w} /\ PendingIn(e) = PendingIn(d) \cup {w}
        /\ BlockIn(e)[w] = BlockIn(d)[v] /\ \A z \in Present(d) \ {w} : BlockIn(e)[z] = BlockIn(d)[z]
    <3>1. Fit(d) /\ Typed(d)
      BY <1>9
    <3> QED BY <1>10, <2>1, <3>1, RepointStatus
  <2>3. BlockIn(d)[v] = B[v]
    BY <1>4, <1>7, <1>9, <2>1 DEF BlockIn
  <2> QED BY <1>9, <2>2, <2>3
<1>12. PICK q, u : /\ q = Followed(copy, v, w)
                   /\ u = (Inherited(v, w) \cup Contested(e, w) \cup Entangled(e, w)) \cup Follow(lost, v, w)
  OBVIOUS
<1>13. cache' = e /\ Leaves(q, e, u) /\ Record({Block(c, v)}) /\ UNCHANGED <<view, exported, lease>>
  <2>1. cache' = e /\ Record({Block(c, v)}) /\ UNCHANGED <<view, exported, lease>>
    BY <1>1, <1>2, <1>8, <1>10 DEF Alias, TakenOver, Repointed
  <2>2. Values(q, cache', Inherited(v, w) \cup Contested(cache', w) \cup Entangled(cache', w), Follow(lost, v, w))
    BY <1>1, <1>12 DEF Alias, OfAll, Followed
  <2>3. PICK a, b : a = Inherited(v, w) \cup Contested(e, w) \cup Entangled(e, w) /\ b = Follow(lost, v, w)
    OBVIOUS
  <2>4. Values(q, e, a, b)
    BY <2>1, <2>2, <2>3
  <2>5. u = a \cup b
    BY <1>12, <2>3
  <2>6. Leaves(q, e, u)
    BY <2>4, <2>5, ValuesLeave
  <2> QED BY <2>1, <2>6
<1>14. Fit(e)
  <2>1. CacheInv'
    BY AliasKeeps
  <2> QED BY <1>13, <2>1, FitAfter
<1>15. PICK doubtful, contested, entangled :
         doubtful = Contested(cache, v) /\ contested = Contested(e, w) /\ entangled = Entangled(e, w)
  OBVIOUS
<1>16. \A z \in D \ {v} : CellsOf(v) \cap CellsOf(z) \subseteq doubtful
  <2>1. v \in Present(cache)
    BY <1>3 DEF UsableIn
  <2> QED BY <1>3, <1>4, <1>5, <1>15, <2>1, UndefinedCells
<1>17. /\ contested \in SUBSET Cells /\ \A z \in D \ {w} : CellsOf(w) \cap CellsOf(z) \subseteq contested
       /\ entangled \in SUBSET Cells
       /\ \A z \in U \ {w} : B[z] = B[v] => CellsOf(w) \cap CellsOf(z) \subseteq entangled
  <2>1. w \in Present(e)
    BY <1>4, <1>11
  <2>2. /\ contested \in SUBSET Cells /\ \A z \in PendingIn(e) \ {w} : CellsOf(w) \cap CellsOf(z) \subseteq contested
        /\ entangled \in SUBSET Cells
        /\ \A z \in Present(e) \ {w} : Block(e, z) = Block(e, w) => CellsOf(w) \cap CellsOf(z) \subseteq entangled
    BY <1>3, <1>11, <1>14, <1>15, <2>1, UndefinedCells
  <2>3. \A z \in U \ {w} : z \in Present(e) /\ Block(e, z) = B[z]
    BY <1>5, <1>11 DEF UsableIn, BlockIn
  <2>4. Block(e, w) = B[v]
    BY <1>11, <2>1 DEF BlockIn
  <2> QED BY <1>11, <2>2, <2>3, <2>4
<1>18. PICK B2 : B2 = BlockIn(e)
  OBVIOUS
<1>19. B2[w] = B[v] /\ \A z \in U \ {w} : B2[z] = B[z]
  BY <1>5, <1>11, <1>18 DEF UsableIn
<1>20. q = Followed(copy, v, w) /\ u = VoidAfter(Gone, doubtful, v, w, contested, entangled)
  BY <1>12, <1>15 DEF Inherited, VoidAfter, Follow, Gone
<1>21. Latest(U \cup {w}, D \cup {w}, B2, q, u)
  <2>1. view \in Layouts /\ Latest(U, D, B, copy, Gone) /\ v \in U /\ w \in Views /\ v.bytes = w.bytes
    BY <1>3, <1>6
  <2> QED BY <1>16, <1>17, <1>19, <1>20, <2>1, LatestOfAlias
<1>22. Current(e, q, u)
  BY <1>11, <1>18, <1>21 DEF Current
<1> QED BY <1>13, <1>14, <1>22, CallKeepsValues DEF Ends, SameBlocks

(* A state takes a value over by a copy between two blocks. *)
LEMMA CopyStateKeepsValues ==
  ASSUME CacheInv, ValueInv, NEW s \in States, NEW o \in Tensors, CopyState(s, o) PROVE ValueInv'
<1>1. PICK v, w : v = view[s] /\ w = view[o]
  OBVIOUS
<1>2. PICK a : a = Bind(Bind(cache, s), o)
  OBVIOUS
<1>3. PICK n : n = Followed(copy, w, v)
  OBVIOUS
<1>4. PICK c \in Ensure(a, v) :
        /\ cache' = Mark(c, v, FALSE) /\ view' = view /\ UNCHANGED <<saved, recorded>>
        /\ Values(Put(n, Device(c, v), Get(n, Device(c, w), v)), cache',
                  Inherited(w, v) \cup Contested(c, v) \cup (IF w \in Sharing(c, v) THEN Entangled(c, v) ELSE Borrowed(c, v)),
                  Follow(lost, w, v))
  BY <1>1, <1>2, <1>3 DEF CopyState, OfAll, Followed
<1>5. /\ view \in Layouts /\ Fit(cache) /\ Typed(cache) /\ Current(cache, copy, Gone) /\ w \in UsableIn(cache)
      /\ v.bytes = w.bytes
  BY <1>1 DEF ValueInv, CacheInv, Current, CopyState, UsableIn, Usable
<1>6. s \in Tensors
  BY <1>5, DeviceAssumption DEF Tensors
<1>7. /\ Fit(a) /\ Current(a, copy, Gone) /\ v \in Present(a) /\ w \in Present(a)
      /\ UsableIn(a) = UsableIn(cache) /\ PendingIn(a) = PendingIn(cache)
  BY <1>1, <1>2, <1>5, <1>6, BindBothCurrent
<1>8. /\ Fit(c) /\ Current(c, copy, Gone) /\ Present(c) = Present(a) /\ Block(c, v) \in Blocks
      /\ UsableIn(c) = UsableIn(a) /\ PendingIn(c) = PendingIn(a)
  BY <1>4, <1>5, <1>7, EnsureCurrent
<1>9. PICK U, D, B : U = UsableIn(c) /\ D = PendingIn(c) /\ B = BlockIn(c)
  OBVIOUS
<1>10. Typed(c) /\ Latest(U, D, B, copy, Gone) /\ w \in U /\ v \in Views /\ v \in Present(c)
  BY <1>1, <1>5, <1>6, <1>7, <1>8, <1>9 DEF Current, Views
<1>11. PICK b : b = Block(c, v)
  OBVIOUS
<1>12. b \in Blocks /\ \A z \in Present(c) : B[z] = Block(c, z)
  BY <1>8, <1>9, <1>11 DEF BlockIn
<1>13. U \subseteq Present(c)
  BY <1>9 DEF UsableIn
<1>14. PICK doubtful, contested, shared :
         /\ doubtful = Contested(cache, w) /\ contested = Contested(c, v)
         /\ shared = IF w \in Sharing(c, v) THEN Entangled(c, v) ELSE Borrowed(c, v)
  OBVIOUS
<1>15. \A z \in D \ {w} : CellsOf(w) \cap CellsOf(z) \subseteq doubtful
  <2>1. w \in Present(cache)
    BY <1>5 DEF UsableIn
  <2> QED BY <1>5, <1>7, <1>8, <1>9, <1>14, <2>1, UndefinedCells
<1>16. /\ contested \in SUBSET Cells /\ \A z \in D \ {v} : CellsOf(v) \cap CellsOf(z) \subseteq contested
       /\ shared \in SUBSET Cells
       /\ \A z \in U \ {v} : B[z] = b => CellsOf(v) \cap CellsOf(z) \subseteq shared /\ (b = B[w] \/ CellsOf(z) \subseteq shared)
  <2>1. /\ Borrowed(c, v) \in SUBSET Cells /\ Contested(c, v) \in SUBSET Cells /\ Entangled(c, v) \in SUBSET Cells
        /\ \A z \in Present(c) \ {v} : Block(c, z) = Block(c, v) => /\ CellsOf(z) \subseteq Borrowed(c, v)
                                                                    /\ CellsOf(v) \cap CellsOf(z) \subseteq Entangled(c, v)
        /\ \A z \in PendingIn(c) \ {v} : CellsOf(v) \cap CellsOf(z) \subseteq Contested(c, v)
    BY <1>5, <1>8, <1>10, UndefinedCells
  <2>2. CASE w \in Sharing(c, v)
    <3>1. b = B[w]
      BY <1>10, <1>11, <1>12, <1>13, <2>2 DEF Sharing
    <3> QED BY <1>9, <1>11, <1>12, <1>13, <1>14, <2>1, <2>2, <3>1
  <2>3. CASE w \notin Sharing(c, v)
    BY <1>9, <1>11, <1>12, <1>13, <1>14, <2>1, <2>3
  <2> QED BY <2>2, <2>3
<1>17. PICK d : d = cache'
  OBVIOUS
<1>18. PICK B2 : B2 = BlockIn(d)
  OBVIOUS
<1>19. /\ Fit(d) /\ Typed(d) /\ SameBlocks(d, d) /\ UsableIn(d) = U \cup {v} /\ PendingIn(d) = D \cup {v}
       /\ \A z \in Present(c) : B2[z] = B[z]
  <2>1. d = Mark(c, v, FALSE)
    BY <1>4, <1>17
  <2>2. Fit(c) /\ Typed(c) /\ v \in Present(c) /\ Block(c, v) \in Blocks
    BY <1>8, <1>10
  <2>3. /\ Fit(d) /\ Typed(d) /\ UsableIn(d) = UsableIn(c) \cup {v} /\ PendingIn(d) = PendingIn(c) \cup {v}
        /\ \A z \in Present(c) : BlockIn(d)[z] = Block(c, z)
    BY <2>1, <2>2, MarkCurrent
  <2> QED BY <1>9, <1>12, <1>18, <2>3 DEF SameBlocks
<1>20. PICK q, u : q = Put(n, Start(b), Get(n, Start(B[w]), v)) /\ u = VoidAfter(Gone, doubtful, w, v, contested, shared)
  OBVIOUS
<1>21. Leaves(q, d, u)
  <2>1. Device(c, v) = Start(b) /\ Device(c, w) = Start(B[w])
    BY <1>10, <1>11, <1>12, <1>13 DEF Device, Start
  <2>2. PICK undefined, older : undefined = Inherited(w, v) \cup contested \cup shared /\ older = Follow(lost, w, v)
    OBVIOUS
  <2>3. Values(q, d, undefined, older)
    BY <1>4, <1>14, <1>17, <1>20, <2>1, <2>2
  <2>4. u = undefined \cup older
    BY <1>14, <1>20, <2>2 DEF VoidAfter, Inherited, Follow, Gone
  <2> QED BY <2>3, <2>4, ValuesLeave
<1>22. Latest(U \cup {v}, D \cup {v}, B2, q, u)
  <2>1. v \in U => b = B[v]
    BY <1>10, <1>11, <1>12
  <2>2. B2[v] = b /\ \A z \in U \ {v} : B2[z] = B[z]
    BY <1>10, <1>11, <1>12, <1>13, <1>19
  <2>3. view \in Layouts /\ v.bytes = w.bytes
    BY <1>5
  <2> QED BY <1>3, <1>10, <1>12, <1>15, <1>16, <1>20, <2>1, <2>2, <2>3, LatestOfCopy
<1>23. Current(d, q, u)
  BY <1>18, <1>19, <1>22 DEF Current
<1> QED BY <1>4, <1>17, <1>19, <1>21, <1>23, CallKeepsValues DEF Ends

(* A state and an output exchange their blocks. *)
LEMMA SwapStateKeepsValues ==
  ASSUME CacheInv, ValueInv, NEW s \in States, NEW o \in Tensors, SwapState(s, o) PROVE ValueInv'
<1>1. PICK v, w : v = view[s] /\ w = view[o]
  OBVIOUS
<1>2. PICK c : c = Bind(Bind(cache, s), o)
  OBVIOUS
<1>3. /\ view \in Layouts /\ Fit(cache) /\ Typed(cache) /\ Current(cache, copy, Gone)
      /\ v \in Present(cache) /\ w \in Present(cache) /\ v.bytes = w.bytes
      /\ cache.replica[v].device /\ cache.replica[w].device
  BY <1>1 DEF ValueInv, CacheInv, Current, SwapState
<1>4. s \in Tensors
  BY <1>3, DeviceAssumption DEF Tensors
<1>5. /\ Fit(c) /\ Current(c, copy, Gone) /\ v \in Present(c) /\ w \in Present(c)
      /\ UsableIn(c) = UsableIn(cache) /\ PendingIn(c) = PendingIn(cache)
      /\ c.handle = cache.handle \cup {s, o} /\ c.keep = cache.keep
      /\ c.replica[v] = cache.replica[v] /\ c.replica[w] = cache.replica[w]
  BY <1>1, <1>2, <1>3, <1>4, BindBothCurrent
<1>6. PICK U, D, B : U = UsableIn(c) /\ D = PendingIn(c) /\ B = BlockIn(c)
  OBVIOUS
<1>7. /\ Typed(c) /\ Latest(U, D, B, copy, Gone) /\ U \subseteq Present(c) /\ v \in Views /\ w \in Views
      /\ B[v] = Block(c, v) /\ B[w] = Block(c, w) /\ B[v] \in Blocks /\ B[w] \in Blocks
  <2>1. Block(c, v) \in Blocks /\ Block(c, w) \in Blocks
    BY <1>3, <1>5 DEF Fit, Shape, Replicas, Entry, Present, Block
  <2>2. B[v] = Block(c, v) /\ B[w] = Block(c, w)
    BY <1>5, <1>6 DEF BlockIn
  <2> QED BY <1>1, <1>4, <1>5, <1>6, <2>1, <2>2 DEF Current, UsableIn, Views
<1>8. PICK keep : keep = c.keep \cup (IF Persistent(c, v) \/ Persistent(c, w) THEN {s, o} ELSE {})
  OBVIOUS
<1>9. keep \subseteq c.handle
  BY <1>3, <1>5, <1>8 DEF Typed
<1>10. PICK d : Swapped(c, v, w, keep, d)
  BY DEF Swapped
<1>11. /\ Fit(d) /\ Typed(d) /\ Present(d) = Present(c) /\ Block(d, v) \in Blocks /\ Block(d, w) \in Blocks
       /\ UsableIn(d) \cup {v, w} = U \cup {v, w} /\ PendingIn(d) \cup {v, w} = D \cup {v, w}
       /\ BlockIn(d)[v] = B[w] /\ BlockIn(d)[w] = B[v] /\ \A z \in Present(c) \ {v, w} : BlockIn(d)[z] = B[z]
  <2>1. Fit(d) /\ Present(d) = Present(c) /\ Block(d, v) = Block(c, w) /\ Block(d, w) = Block(c, v)
    BY <1>5, <1>10, SwapFits
  <2>2. Fit(c) /\ Typed(c)
    BY <1>5, <1>7
  <2>3. /\ Typed(d) /\ UsableIn(d) \cup {v, w} = UsableIn(c) \cup {v, w} /\ PendingIn(d) \cup {v, w} = PendingIn(c) \cup {v, w}
        /\ BlockIn(d)[v] = BlockIn(c)[w] /\ BlockIn(d)[w] = BlockIn(c)[v]
        /\ \A z \in Present(c) \ {v, w} : BlockIn(d)[z] = BlockIn(c)[z]
    BY <1>5, <1>9, <1>10, <2>2, SwapStatus
  <2> QED BY <1>5, <1>6, <1>7, <2>1, <2>3
<1>12. PICK m : m = Mark(d, v, FALSE)
  OBVIOUS
<1>13. /\ Fit(m) /\ Typed(m) /\ Present(m) = Present(c) /\ Block(m, w) \in Blocks
       /\ UsableIn(m) = UsableIn(d) \cup {v} /\ PendingIn(m) = PendingIn(d) \cup {v}
       /\ \A z \in Present(c) : Block(m, z) = Block(d, z)
  <2>1. Fit(d) /\ Typed(d) /\ v \in Present(d) /\ w \in Present(d) /\ Block(d, v) \in Blocks
    BY <1>5, <1>11
  <2>2. /\ Fit(m) /\ Typed(m) /\ SameBlocks(m, d) /\ UsableIn(m) = UsableIn(d) \cup {v} /\ PendingIn(m) = PendingIn(d) \cup {v}
    BY <1>12, <2>1, MarkCurrent
  <2> QED BY <1>11, <2>1, <2>2 DEF SameBlocks
<1>14. PICK n : n = Mark(m, w, FALSE)
  OBVIOUS
<1>15. /\ Fit(n) /\ Typed(n) /\ Present(n) = Present(c) /\ UsableIn(n) = U \cup {v, w} /\ PendingIn(n) = D \cup {v, w}
       /\ \A z \in Present(c) : BlockIn(n)[z] = Block(d, z)
  <2>1. Fit(m) /\ Typed(m) /\ w \in Present(m) /\ Block(m, w) \in Blocks
    BY <1>5, <1>13
  <2>2. /\ Fit(n) /\ Typed(n) /\ SameBlocks(n, m) /\ UsableIn(n) = UsableIn(m) \cup {w} /\ PendingIn(n) = PendingIn(m) \cup {w}
        /\ \A z \in Present(m) : BlockIn(n)[z] = Block(m, z)
    BY <1>14, <2>1, MarkCurrent
  <2>3. UsableIn(n) = U \cup {v, w} /\ PendingIn(n) = D \cup {v, w}
    BY <1>11, <1>13, <2>2
  <2> QED BY <1>13, <2>2, <2>3 DEF SameBlocks
<1>16. PICK B2 : B2 = BlockIn(n)
  OBVIOUS
<1>17. B2[v] = B[w] /\ B2[w] = B[v] /\ \A z \in U \ {v, w} : B2[z] = B[z]
  <2>1. \A z \in Present(c) : BlockIn(d)[z] = Block(d, z)
    BY <1>11 DEF BlockIn
  <2> QED BY <1>5, <1>7, <1>11, <1>15, <1>16, <2>1
<1>18. PICK doubtful, stale, shared :
         /\ stale = Outdated(v) \cup Outdated(w)
         /\ doubtful = (Contested(c, v) \cup Contested(c, w)) \cup stale
         /\ shared = Contested(n, v) \cup Contested(n, w) \cup Entangled(n, v) \cup Entangled(n, w)
  OBVIOUS
<1>19. /\ doubtful \in SUBSET Cells
       /\ \A x \in CellsOf(v) \ (Gone \cup doubtful) : x \in copy[At(B[v], v, x)]
       /\ \A x \in CellsOf(w) \ (Gone \cup doubtful) : x \in copy[At(B[w], w, x)]
  <2>1. ASSUME NEW y \in {v, w}
        PROVE  /\ Contested(c, y) \cup Outdated(y) \in SUBSET Cells
               /\ \A x \in CellsOf(y) \ (Gone \cup doubtful) : x \in copy[At(B[y], y, x)]
    <3>1. y \in Present(c) /\ y \in Views /\ c.replica[y] = cache.replica[y] /\ y \in Present(cache) /\ B[y] = Block(c, y)
      BY <1>3, <1>5, <1>7
    <3>2. Contested(c, y) \in SUBSET Cells /\ \A z \in D \ {y} : CellsOf(y) \cap CellsOf(z) \subseteq Contested(c, y)
      BY <1>3, <1>5, <1>6, <1>7, <3>1, UndefinedCells
    <3>3. Outdated(y) \in SUBSET Cells
      BY <1>3, <3>1, ViewFacts DEF Outdated
    <3>4. ASSUME NEW x \in CellsOf(y) \ (Gone \cup doubtful) PROVE x \in copy[At(B[y], y, x)]
      <4>1. x \notin Contested(c, y) /\ x \notin Outdated(y)
        BY <1>18, <3>4
      <4>2. CASE Usable(cache, y)
        <5>1. y \in U
          BY <1>6, <3>1, <4>2 DEF UsableIn, Usable
        <5>2. Alone(D, y, x)
          BY <3>2, <4>1 DEF Alone
        <5> QED BY <1>7, <5>1, <5>2 DEF Latest, DeviceLatest
      <4>3. CASE ~Usable(cache, y)
        <5>1. x \in copy[<<Block(cache, y), x[2] - y.offset>>]
          BY <4>1, <4>3 DEF Outdated
        <5>2. B[y] = Block(cache, y)
          BY <3>1 DEF Block
        <5> QED BY <5>1, <5>2 DEF At
      <4> QED BY <4>2, <4>3
    <3> QED BY <3>2, <3>3, <3>4
  <2> QED BY <1>18, <2>1
<1>20. /\ shared \in SUBSET Cells
       /\ \A z \in (D \cup {v, w}) \ {v} : CellsOf(v) \cap CellsOf(z) \subseteq shared
       /\ \A z \in (D \cup {v, w}) \ {w} : CellsOf(w) \cap CellsOf(z) \subseteq shared
       /\ \A z \in (U \cup {w}) \ {v} : B2[z] = B2[v] => CellsOf(v) \cap CellsOf(z) \subseteq shared
       /\ \A z \in (U \cup {v}) \ {w} : B2[z] = B2[w] => CellsOf(w) \cap CellsOf(z) \subseteq shared
  <2>1. \A z \in Present(n) : B2[z] = Block(n, z)
    BY <1>16 DEF BlockIn
  <2>2. v \in Present(n) /\ w \in Present(n) /\ U \subseteq Present(n)
    BY <1>5, <1>7, <1>15
  <2>3. ASSUME NEW x \in {v, w}
        PROVE  /\ Contested(n, x) \in SUBSET Cells /\ Entangled(n, x) \in SUBSET Cells
               /\ \A z \in (D \cup {v, w}) \ {x} : CellsOf(x) \cap CellsOf(z) \subseteq Contested(n, x)
               /\ \A z \in (U \cup {v, w}) \ {x} : B2[z] = B2[x] => CellsOf(x) \cap CellsOf(z) \subseteq Entangled(n, x)
    <3>1. x \in Present(n)
      BY <2>2
    <3>2. /\ Contested(n, x) \in SUBSET Cells /\ Entangled(n, x) \in SUBSET Cells
          /\ \A z \in Present(n) \ {x} : Block(n, z) = Block(n, x) => CellsOf(x) \cap CellsOf(z) \subseteq Entangled(n, x)
          /\ \A z \in PendingIn(n) \ {x} : CellsOf(x) \cap CellsOf(z) \subseteq Contested(n, x)
      BY <1>3, <1>15, <3>1, UndefinedCells
    <3> QED BY <1>15, <2>1, <2>2, <3>1, <3>2
  <2> QED BY <1>18, <2>3
<1>21. PICK q, u : q = Traded(copy, v, w) /\ u = VoidAfterTrade(Gone, doubtful, v, w, shared)
  OBVIOUS
<1>22. cache' = n
  BY <1>1, <1>2, <1>8, <1>10, <1>12, <1>14 DEF SwapState, Swapped
<1>23. Leaves(q, n, u) /\ view' = view /\ UNCHANGED <<saved, recorded>>
  <2>1. PICK contested : contested = Contested(c, v) \cup Contested(c, w)
    OBVIOUS
  <2>2. PICK undefined, older : undefined = Trade(void \cup contested, v, w) \cup shared /\ older = Trade(lost \cup stale, v, w)
    OBVIOUS
  <2>3. Values(q, cache', Trade(void \cup Contested(c, v) \cup Contested(c, w), v, w) \cup Contested(cache', v) \cup Contested(cache', w)
                            \cup Entangled(cache', v) \cup Entangled(cache', w),
               Trade(lost \cup Outdated(v) \cup Outdated(w), v, w))
    BY <1>1, <1>2, <1>21 DEF SwapState, OfAll, Traded
  <2>4. void \cup contested = void \cup Contested(c, v) \cup Contested(c, w) /\ lost \cup stale = lost \cup Outdated(v) \cup Outdated(w)
    BY <1>18, <2>1
  <2>5. undefined = Trade(void \cup Contested(c, v) \cup Contested(c, w), v, w) \cup Contested(n, v) \cup Contested(n, w)
                      \cup Entangled(n, v) \cup Entangled(n, w)
    BY <1>18, <2>2, <2>4
  <2>6. Values(q, n, undefined, older)
    BY <1>22, <2>2, <2>3, <2>4, <2>5
  <2>7. u = undefined \cup older
    <3>1. Gone \cup doubtful = (void \cup contested) \cup (lost \cup stale)
      BY <1>18, <2>1 DEF Gone
    <3>2. Trade(Gone \cup doubtful, v, w) = Trade(void \cup contested, v, w) \cup Trade(lost \cup stale, v, w)
      BY <3>1, TradedUnion
    <3> QED BY <1>21, <2>2, <3>2 DEF VoidAfterTrade
  <2> QED BY <2>6, <2>7, ValuesLeave DEF SwapState
<1>24. Latest(U \cup {v, w}, D \cup {v, w}, B2, q, u)
  <2>1. view \in Layouts /\ v.bytes = w.bytes
    BY <1>3
  <2> QED BY <1>7, <1>17, <1>19, <1>20, <1>21, <2>1, LatestOfSwap
<1>25. Current(n, q, u)
  BY <1>15, <1>16, <1>24 DEF Current
<1> QED BY <1>15, <1>22, <1>23, <1>25, CallKeepsValues DEF Ends, SameBlocks

-------------------------------------------------------------------------------
LEMMA ValueInvInitially == Init => ValueInv
<1> SUFFICES ASSUME Init PROVE ValueInv
  OBVIOUS
<1>1. /\ view \in Layouts /\ cache.handle = {} /\ cache.keep = {} /\ cache.replica = [v \in {} |-> Empty]
      /\ recorded = {} /\ Gone = {} /\ ~Recording
      /\ copy = [p \in Cells \cup (Blocks \X (0..BlockCells - 1)) |-> IF p \in Cells THEN {p} ELSE {}]
  BY DEF Init, Recording, Gone
<1>2. Present(cache) = {}
  BY <1>1 DEF Present
<1>3. UsableIn(cache) = {} /\ PendingIn(cache) = {} /\ Typed(cache)
  BY <1>1, <1>2 DEF UsableIn, PendingIn, Typed
<1>4. Memory(copy) /\ \A x \in Cells : x \in copy[x]
  BY <1>1 DEF Memory, Places
<1>5. Latest({}, {}, BlockIn(cache), copy, Gone)
  BY <1>1, <1>4 DEF Latest, Domains, HostLatest, DeviceLatest, PendingApart, SharersApart
<1> QED BY <1>1, <1>3, <1>5 DEF ValueInv, Current

LEMMA ValueInvPreserved == CacheInv /\ ValueInv /\ [Next]_vars => ValueInv'
<1> SUFFICES ASSUME CacheInv, ValueInv, [Next]_vars PROVE ValueInv'
  OBVIOUS
<1>1. ASSUME NEW t \in Tensors, Upload(t) \/ KernelWrite(t) \/ OutOfMemory(t) \/ ReadHost(t) PROVE ValueInv'
  BY <1>1, UploadKeepsValues, KernelWriteKeepsValues, OutOfMemoryKeepsValues, ReadHostKeepsValues
<1>2. ASSUME NEW t \in Tensors, Release(t) \/ Unregister(t) \/ Export(t) \/ FailedRead(t) PROVE ValueInv'
  BY <1>2, ReleaseKeepsValues, UnregisterKeepsValues, ExportKeepsValues, FailedReadKeepsValues
<1>3. ASSUME NEW t \in Tensors, NEW told \in BOOLEAN, HostWrite(t, told) PROVE ValueInv'
  BY <1>3, HostWriteKeepsValues
<1>4. ASSUME NEW s \in States, NEW b \in BOOLEAN, MarkPersistent(s, b) PROVE ValueInv'
  BY <1>4, MarkPersistentKeepsValues
<1>5. ASSUME NEW s \in Tensors, NEW t \in Tensors, Alias(s, t) PROVE ValueInv'
  BY <1>5, AliasKeepsValues
<1>6. ASSUME NEW s \in States, NEW o \in Tensors, CopyState(s, o) \/ AppendState(s, o) \/ SwapState(s, o) PROVE ValueInv'
  BY <1>6, CopyStateKeepsValues, AppendStateKeepsValues, SwapStateKeepsValues
<1>7. CASE Borrow \/ BeginCapture \/ Abandon
  BY <1>7, BorrowKeepsValues, BeginCaptureKeepsValues, AbandonKeepsValues
<1>8. CASE \/ \E b \in Blocks : GiveBack(b) \/ DropExport(b)
           \/ \E l \in Leases : Retain(l) \/ EndLease(l)
           \/ UNCHANGED vars
  BY <1>8, QuietKeepsValues
<1> QED BY <1>1, <1>2, <1>3, <1>4, <1>5, <1>6, <1>7, <1>8 DEF Next

(* The index of replicas, the pool and the captures stay consistent: a replica for exactly the
   views that have a handle, a block behind every valid copy, and a place for what each cell holds
   (runtime.cu, BindTensorReplica to EraseHandle). *)
THEOREM DeviceTypes == Spec => []TypeOK
<1>1. CacheInv /\ ValueInv => TypeOK
  <2> SUFFICES ASSUME CacheInv, ValueInv PROVE TypeOK
    OBVIOUS
  <2>1. Shape(cache) /\ exported \subseteq Blocks /\ lease \in [Leases -> SUBSET Blocks] /\ recorded \subseteq Blocks
    BY DEF CacheInv, Fit
  <2>2. cache.handle \subseteq Tensors /\ cache.keep \subseteq cache.handle /\ Present(cache) = {view[t] : t \in cache.handle}
    BY DEF ValueInv, Current, Typed
  <2>3. /\ cache.replica \in [Present(cache) -> Entry]
        /\ \A v \in Present(cache) : cache.replica[v].device => Block(cache, v) # None
    BY <2>1 DEF Shape, Replicas, Present, Block
  <2>4. \A v \in Present(cache) : cache.replica[v] \in [block : Blocks \cup {None}, device : BOOLEAN, host : BOOLEAN, current : BOOLEAN]
    BY <2>3 DEF Entry
  <2>5. cache.owned \subseteq Blocks /\ ToSet(cache.free) \cup cache.lent \subseteq cache.owned
    BY <2>1 DEF Shape
  <2>6. copy \in [DOMAIN copy -> SUBSET Cells] /\ Gone \subseteq Cells
    BY DEF ValueInv, Current, Latest, Memory
  <2>7. recorded # {} => Recording
    BY DEF ValueInv
  <2> QED BY <2>1, <2>2, <2>3, <2>4, <2>5, <2>6, <2>7 DEF TypeOK, Gone
<1> QED BY <1>1, CacheInvInitially, CacheInvPreserved, ValueInvInitially, ValueInvPreserved, PTL DEF Spec

(* Whatever uploads, kernels, host writes, downloads, aliases, state updates, releases and abandoned
   captures came before, a kernel that reads a tensor and a caller that reads it on the host get its
   latest value, but for cells another view has pending, without a defined value, or whose latest
   value was lost by a read that failed in a capture or by an exchange of an outdated device copy
   (runtime.cu, AcquireTensorDevice, SyncTensorToHostIfNeeded and SwapTensorDeviceStorage). *)
THEOREM EveryReadFindsTheLatest == Spec => []EveryReadIsCurrent
<1>1. CacheInv /\ ValueInv => EveryReadIsCurrent
  <2> SUFFICES ASSUME CacheInv, ValueInv PROVE EveryReadIsCurrent
    OBVIOUS
  <2>1. PICK U, D, B : U = UsableIn(cache) /\ D = PendingIn(cache) /\ B = BlockIn(cache)
    OBVIOUS
  <2>2. view \in Layouts /\ Latest(U, D, B, copy, Gone) /\ U \subseteq Present(cache)
    BY <2>1 DEF ValueInv, Current, UsableIn
  <2>3. ASSUME NEW t \in Tensors, NEW v, v = view[t], NEW x \in CellsOf(v) \ (Gone \cup Contested(cache, v))
        PROVE  /\ Usable(cache, v) => x \in copy[<<Block(cache, v), x[2] - v.offset>>]
               /\ ~Pending(cache, v) => x \in copy[x]
    <3>1. x \in Cells
      BY <2>2, <2>3, ViewFacts DEF Views
    <3>2. Alone(D, v, x)
      BY <2>1, <2>3 DEF Alone, PendingIn, Contested
    <3>3. ASSUME Usable(cache, v) PROVE x \in copy[<<Block(cache, v), x[2] - v.offset>>]
      <4>1. v \in U /\ B[v] = Block(cache, v)
        BY <2>1, <3>3 DEF UsableIn, BlockIn, Usable
      <4>2. x \in copy[At(B[v], v, x)]
        BY <2>2, <2>3, <3>2, <4>1 DEF Latest, DeviceLatest
      <4> QED BY <4>1, <4>2 DEF At
    <3>4. ASSUME ~Pending(cache, v) PROVE x \in copy[x]
      <4>1. \A w \in D : x \notin CellsOf(w)
        BY <2>1, <3>2, <3>4 DEF Alone, PendingIn
      <4> QED BY <2>2, <2>3, <3>1, <4>1 DEF Latest, HostLatest
    <3> QED BY <3>3, <3>4
  <2>4. \A v : Pending(cache, v) => Usable(cache, v)
    BY DEF Pending
  <2> QED BY <2>3, <2>4 DEF EveryReadIsCurrent, Gone
<1> QED BY <1>1, CacheInvInitially, CacheInvPreserved, ValueInvInitially, ValueInvPreserved, PTL DEF Spec
=============================================================================
