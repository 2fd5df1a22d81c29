-------------------------- MODULE TensorMemoryProofs --------------------------
(***************************************************************************)
(* Alias groups keep their values, kernels multiply by present weights and *)
(* the pool lends a block once, for any number of tensors, kernels, blocks *)
(* and values.  Every call is shown to make a Sound state, and Become to   *)
(* turn a Sound state into one that satisfies MemoryInv.                   *)
(***************************************************************************)
EXTENDS TensorMemory, FiniteSetTheorems, TLAPS

USE StoragesAssumption, BlocksAssumption, ValuesAssumption

LEMMA LiveIsStorage ==
  ASSUME NEW tn \in [Tensors -> [storage : Storages \cup {None}, immutable : BOOLEAN]]
  PROVE  /\ LiveIn(tn) \subseteq Storages
         /\ \A t \in Tensors : tn[t].storage # None => tn[t].storage \in LiveIn(tn)
         /\ None \notin LiveIn(tn)
BY DEF LiveIn

(* A tensor less than there are identities: the next Storage has a fresh one. *)
LEMMA NewIsFresh ==
  ASSUME tensor \in [Tensors -> [storage : Storages \cup {None}, immutable : BOOLEAN]],
         NEW t \in Tensors
  PROVE  New \in Storages /\ New \notin Live
<1> DEFINE image == {tensor[u].storage : u \in Tensors}
           f == [u \in Tensors |-> tensor[u].storage]
<1>1. f \in Surjection(Tensors, image)
  BY DEF Surjection
<1>2. IsFiniteSet(image) /\ Cardinality(image) <= Cardinality(Tensors)
  <2> HIDE DEF f, image
  <2> QED BY <1>1, FS_Surjection
<1>3. Cardinality(Tensors) \in Nat
  BY FS_CardinalityType
<1>4. IsFiniteSet(Storages) /\ Cardinality(Storages) = Cardinality(Tensors) + 1
  <2> DEFINE n == Cardinality(Tensors) + 1
  <2>1. n \in Int /\ 1 \in Int /\ n >= 1
    BY <1>3
  <2>2. IsFiniteSet(1..n) /\ Cardinality(1..n) = IF 1 > n THEN 0 ELSE n - 1 + 1
    <3> HIDE DEF n
    <3> QED BY <2>1, FS_Interval
  <2> QED BY <2>1, <2>2
<1>5. ~(Storages \subseteq image)
  <2>1. SUFFICES ASSUME Storages \subseteq image PROVE FALSE
    OBVIOUS
  <2>2. Cardinality(Storages) <= Cardinality(image)
    <3> HIDE DEF image
    <3> QED BY <1>2, <2>1, FS_Subset
  <2>3. Cardinality(image) \in Nat
    <3> HIDE DEF image
    <3> QED BY <1>2, FS_CardinalityType
  <2> QED BY <1>2, <1>3, <1>4, <2>2, <2>3
<1>6. \E s \in Storages : s \notin Live
  BY <1>5 DEF Live, LiveIn
<1> QED BY <1>6 DEF New

-------------------------------------------------------------------------------
(* The pool takes back the blocks nobody uses, each once. *)
LEMMA ReleaseKeepsPool ==
  ASSUME NEW p \in [made : SUBSET PoolBlocks, free : Seq(PoolBlocks)],
         IsInjective(p.free), \A i \in DOMAIN p.free : p.free[i] \in p.made,
         NEW used, \A i \in DOMAIN p.free : p.free[i] \notin used,
         NEW q \in Released(p, used)
  PROVE  /\ q \in [made : SUBSET PoolBlocks, free : Seq(PoolBlocks)] /\ q.made = p.made
         /\ IsInjective(q.free)
         /\ \A i \in DOMAIN q.free : q.free[i] \in q.made /\ q.free[i] \notin used
         /\ \A b \in q.made \ used : IsFree(b, q)
<1> DEFINE given == {b \in p.made \ used : ~IsFree(b, p)}
           n == Cardinality(given)
<1>1. PICK order \in Bijection(1..n, given) : q = [p EXCEPT !.free = order \o @]
  BY DEF Released
<1>2. n \in Nat
  <2>1. IsFiniteSet(given)
    <3>1. given \in SUBSET PoolBlocks
      OBVIOUS
    <3> HIDE DEF given
    <3> QED BY <3>1, FS_Subset
  <2> HIDE DEF given
  <2> QED BY <2>1, FS_CardinalityType
<1>3. /\ order \in [1..n -> given]
      /\ \A i, j \in 1..n : order[i] = order[j] => i = j
      /\ \A b \in given : \E i \in 1..n : order[i] = b
  <2> HIDE DEF given, n
  <2> QED BY DEF Bijection, Injection, Surjection, IsInjective
<1>4. order \in Seq(PoolBlocks) /\ Len(order) = n
  <2>1. given \subseteq PoolBlocks
    OBVIOUS
  <2> HIDE DEF given, n
  <2> QED BY <1>2, <1>3, <2>1
<1>5. \A i \in 1..n : order[i] \in p.made /\ order[i] \notin used /\ ~IsFree(order[i], p)
  BY <1>3
<1>6. \A b \in p.made \ used : IsFree(b, p) \/ \E i \in 1..n : order[i] = b
  BY <1>3
<1> HIDE DEF given, n
<1> DEFINE m == Len(p.free)
<1>7. m \in Nat /\ DOMAIN p.free = 1..m
  OBVIOUS
<1>8. /\ q.made = p.made /\ q.free = order \o p.free
      /\ q \in [made : SUBSET PoolBlocks, free : Seq(PoolBlocks)]
      /\ DOMAIN q.free = 1..(n + m)
      /\ \A i \in 1..n : q.free[i] = order[i]
      /\ \A i \in 1..m : q.free[n + i] = p.free[i]
  <2>1. q = [made |-> p.made, free |-> order \o p.free]
    BY <1>1
  <2> DEFINE r == p.free
  <2>2. r \in Seq(PoolBlocks) /\ m = Len(r)
    OBVIOUS
  <2> HIDE DEF r, m
  <2>3. order \o r \in Seq(PoolBlocks) /\ DOMAIN (order \o r) = 1..(n + m)
    BY <1>2, <1>4, <2>2
  <2>4. \A i \in 1..n : (order \o r)[i] = order[i]
    BY <1>2, <1>4, <2>2
  <2>5. \A i \in 1..m : (order \o r)[n + i] = r[i]
    BY <1>2, <1>4, <2>2
  <2> QED BY <2>1, <2>3, <2>4, <2>5 DEF r
<1> HIDE DEF m
<1>9. \A i \in 1..(n + m) : i \in 1..n \/ (i - n \in 1..m /\ q.free[i] = p.free[i - n])
  BY <1>2, <1>7, <1>8
<1>10. \A i \in DOMAIN q.free : q.free[i] \in q.made /\ q.free[i] \notin used
  BY <1>5, <1>7, <1>8, <1>9
<1>11. \A i \in 1..n, j \in 1..m : order[i] # p.free[j]
  BY <1>5, <1>7 DEF IsFree
<1>12. IsInjective(q.free)
  <2>1. SUFFICES ASSUME NEW i \in 1..(n + m), NEW j \in 1..(n + m), q.free[i] = q.free[j] PROVE i = j
    BY <1>8 DEF IsInjective
  <2>2. CASE i \in 1..n /\ j \in 1..n
    BY <1>3, <1>8, <2>1, <2>2
  <2>3. CASE i \notin 1..n /\ j \notin 1..n
    <3>1. p.free[i - n] = p.free[j - n] /\ i - n \in 1..m /\ j - n \in 1..m
      BY <1>9, <2>1, <2>3
    <3>2. i - n = j - n
      BY <1>7, <3>1 DEF IsInjective
    <3> QED BY <1>2, <3>2
  <2>4. CASE i \in 1..n /\ j \notin 1..n
    <3>1. j - n \in 1..m /\ q.free[j] = p.free[j - n] /\ q.free[i] = order[i]
      BY <1>8, <1>9, <2>4
    <3> QED BY <1>11, <2>1, <2>4, <3>1
  <2>5. CASE i \notin 1..n /\ j \in 1..n
    <3>1. i - n \in 1..m /\ q.free[i] = p.free[i - n] /\ q.free[j] = order[j]
      BY <1>8, <1>9, <2>5
    <3> QED BY <1>11, <2>1, <2>5, <3>1
  <2> QED BY <2>2, <2>3, <2>4, <2>5
<1>13. ASSUME NEW b \in q.made \ used PROVE IsFree(b, q)
  <2>1. CASE IsFree(b, p)
    <3>1. PICK i \in 1..m : p.free[i] = b
      BY <1>7, <2>1 DEF IsFree
    <3>2. n + i \in 1..(n + m) /\ q.free[n + i] = b
      BY <1>2, <1>7, <1>8, <3>1
    <3> QED BY <1>8, <3>2 DEF IsFree
  <2>2. CASE \E i \in 1..n : order[i] = b
    <3>1. PICK i \in 1..n : order[i] = b
      BY <2>2
    <3>2. i \in 1..(n + m) /\ q.free[i] = b
      BY <1>2, <1>7, <1>8, <3>1
    <3> QED BY <1>8, <3>2 DEF IsFree
  <2> QED BY <1>6, <1>8, <1>13, <2>1, <2>2
<1> QED BY <1>8, <1>10, <1>12, <1>13

-------------------------------------------------------------------------------
KernelType == [source : Blocks \cup {None}, version : Storages \cup {None},
               shared : BOOLEAN, data : Values \cup {Junk}]

(* A kernel whose weight is outdated keeps only what the shared cache owns. *)
LEMMA OutdatedKernels ==
  ASSUME NEW kn \in [Kernels -> KernelType], NEW gone
  PROVE  /\ Outdated(kn, gone) \in [Kernels -> KernelType]
         /\ \A k \in Kernels :
              /\ Outdated(kn, gone)[k].shared = kn[k].shared
              /\ kn[k].shared => /\ Outdated(kn, gone)[k].source = kn[k].source
                                 /\ Outdated(kn, gone)[k].data = kn[k].data
              /\ Outdated(kn, gone)[k].version # None =>
                   Outdated(kn, gone)[k] = kn[k] /\ kn[k].version \notin gone
<1>1. Unpacked \in KernelType /\ Unpacked.version = None /\ Unpacked.shared = FALSE
  BY DEF Unpacked, KernelType
<1>2. ASSUME NEW k \in Kernels
      PROVE  /\ Outdated(kn, gone)[k] \in KernelType
             /\ Outdated(kn, gone)[k].shared = kn[k].shared
             /\ kn[k].shared => /\ Outdated(kn, gone)[k].source = kn[k].source
                                /\ Outdated(kn, gone)[k].data = kn[k].data
             /\ Outdated(kn, gone)[k].version # None =>
                  Outdated(kn, gone)[k] = kn[k] /\ kn[k].version \notin gone
  <2>1. kn[k] \in KernelType
    OBVIOUS
  <2>2. CASE kn[k].version \notin gone
    <3>1. Outdated(kn, gone)[k] = kn[k]
      BY <2>2 DEF Outdated
    <3> QED BY <2>1, <2>2, <3>1
  <2>3. CASE kn[k].version \in gone /\ kn[k].shared
    <3>1. Outdated(kn, gone)[k] = [kn[k] EXCEPT !.version = None]
      BY <2>3 DEF Outdated
    <3> QED BY <2>1, <2>3, <3>1 DEF KernelType
  <2>4. CASE kn[k].version \in gone /\ ~kn[k].shared
    <3>1. Outdated(kn, gone)[k] = Unpacked
      BY <2>4 DEF Outdated
    <3> QED BY <1>1, <2>1, <2>4, <3>1 DEF KernelType
  <2> QED BY <2>2, <2>3, <2>4
<1>3. Outdated(kn, gone) \in [Kernels -> KernelType]
  BY <1>2 DEF Outdated
<1> QED BY <1>2, <1>3

(* What a call leaves after Become has tidied up. *)
LEMMA BecomeKeeps ==
  ASSUME NEW tn, NEW st, NEW kn, NEW p, NEW bytes, NEW ex,
         Sound(tn, st, kn, p, bytes, ex), Become(tn, st, kn, p, bytes, ex)
  PROVE  MemoryInv'
<1> DEFINE live == LiveIn(tn)
           used == UsedBy(tn, st, kn)
           kn2 == Outdated(kn, Storages \ live)
<1>1. /\ tn \in [Tensors -> [storage : Storages \cup {None}, immutable : BOOLEAN]]
      /\ st \in [Storages -> [block : Blocks \cup {None}, readOnly : BOOLEAN]]
      /\ kn \in [Kernels -> KernelType]
      /\ bytes \in [Blocks -> Values \cup {Junk}]
      /\ ex \in [Storages -> Values \cup {Junk}]
  BY DEF Sound, Types, KernelType
<1>2. live \subseteq Storages /\ None \notin live
  BY <1>1, LiveIsStorage
<1>3. /\ \A s \in live : st[s].block \in used
      /\ \A k \in Kernels : kn[k].shared => kn[k].source \in used
      /\ \A b \in used : (\E s \in live : b = st[s].block) \/ \E k \in Kernels : kn[k].shared /\ b = kn[k].source
  BY DEF UsedBy
<1>4. /\ tensor' = tn
      /\ storage' = [s \in Storages |-> IF s \in live THEN st[s] ELSE Unused]
      /\ kernel' = kn2
      /\ pool' \in Released(p, used)
      /\ mem' = [b \in Blocks |-> IF b \in used THEN bytes[b] ELSE Junk]
      /\ expected' = [s \in Storages |-> IF s \in live THEN ex[s] ELSE Junk]
  BY DEF Become
<1>5. /\ kn2 \in [Kernels -> KernelType]
      /\ \A k \in Kernels :
           /\ kn2[k].shared = kn[k].shared
           /\ kn[k].shared => kn2[k].source = kn[k].source /\ kn2[k].data = kn[k].data
           /\ kn2[k].version # None => kn2[k] = kn[k] /\ kn[k].version \notin Storages \ live
  <2> HIDE DEF live
  <2> QED BY <1>1, OutdatedKernels
<1>6. LiveIn(tensor') = live
  BY <1>4
<1>7. UsedBy(tensor', storage', kernel') = used
  <2>1. kernel' = kn2 /\ \A s \in live : storage'[s] = st[s]
    BY <1>2, <1>4
  <2> HIDE DEF live, kn2
  <2>2. {storage'[s].block : s \in live} = {st[s].block : s \in live}
    BY <2>1
  <2>3. {kn2[k].source : k \in {j \in Kernels : kn2[j].shared}}
          = {kn[k].source : k \in {j \in Kernels : kn[j].shared}}
    BY <1>5
  <2> QED BY <1>6, <2>1, <2>2, <2>3 DEF UsedBy, live
<1> HIDE DEF live, used, kn2
<1>8. /\ \A s \in live : storage'[s] = st[s] /\ expected'[s] = ex[s]
      /\ \A b \in Blocks : mem'[b] = IF b \in used THEN bytes[b] ELSE Junk
  BY <1>2, <1>4
<1>9. Types(tensor', storage', kernel', mem', expected')
  <2>1. Unused \in [block : Blocks \cup {None}, readOnly : BOOLEAN]
    BY DEF Unused, Memory
  <2> QED BY <1>1, <1>4, <1>5, <2>1 DEF Types, KernelType
<1>10. GroupsSound(tn, st, bytes, ex)
  BY DEF Sound
<1>11. GroupsSound(tensor', storage', mem', expected')
  <2>1. SUFFICES ASSUME NEW s \in live
                 PROVE  /\ storage'[s].block = None => expected'[s] = Junk
                        /\ storage'[s].block # None => mem'[storage'[s].block] = expected'[s]
                        /\ storage'[s].readOnly => storage'[s].block \in HeapBlocks
                        /\ \A q \in live : q # s /\ storage'[q].block = storage'[s].block /\ storage'[s].block # None
                                             => storage'[s].readOnly
    BY <1>6 DEF GroupsSound
  <2>2. st[s].block \in Blocks \cup {None}
    BY <1>1, <1>2
  <2>3. st[s].block \in used /\ storage'[s] = st[s] /\ expected'[s] = ex[s]
    BY <1>3, <1>8
  <2>4. /\ st[s].block = None => ex[s] = Junk
        /\ st[s].block # None => bytes[st[s].block] = ex[s]
        /\ st[s].readOnly => st[s].block \in HeapBlocks
        /\ \A q \in live : q # s /\ st[q].block = st[s].block /\ st[s].block # None => st[s].readOnly
    BY <1>10 DEF GroupsSound, live
  <2>5. st[s].block # None => mem'[st[s].block] = ex[s]
    BY <1>8, <2>2, <2>3, <2>4
  <2>6. ASSUME NEW q \in live, q # s, storage'[q].block = storage'[s].block, storage'[s].block # None
        PROVE  storage'[s].readOnly
    BY <1>8, <2>3, <2>4, <2>6
  <2> QED BY <2>3, <2>4, <2>5, <2>6
<1>12. KernelsSound(tn, st, kn, bytes, ex)
  BY DEF Sound
<1>13. KernelsSound(tensor', storage', kernel', mem', expected')
  <2>1. SUFFICES ASSUME NEW k \in Kernels
                 PROVE  /\ kn2[k].shared => /\ kn2[k].source \in HeapBlocks /\ mem'[kn2[k].source] = kn2[k].data
                                            /\ \A s \in live : storage'[s].block = kn2[k].source => storage'[s].readOnly
                        /\ kn2[k].version \in live => kn2[k].data = expected'[kn2[k].version]
    BY <1>4, <1>6 DEF KernelsSound
  <2>2. ASSUME kn2[k].shared
        PROVE  /\ kn2[k].source \in HeapBlocks /\ mem'[kn2[k].source] = kn2[k].data
               /\ \A s \in live : storage'[s].block = kn2[k].source => storage'[s].readOnly
    <3>1. kn[k].shared /\ kn2[k].source = kn[k].source /\ kn2[k].data = kn[k].data
      BY <1>5, <2>2
    <3>2. /\ kn[k].source \in HeapBlocks /\ bytes[kn[k].source] = kn[k].data
          /\ \A s \in live : st[s].block = kn[k].source => st[s].readOnly
      BY <1>12, <3>1 DEF KernelsSound, live
    <3>3. kn[k].source \in Blocks /\ kn[k].source \in used
      BY <1>3, <3>1, <3>2 DEF Blocks
    <3> QED BY <1>8, <3>1, <3>2, <3>3
  <2>3. ASSUME kn2[k].version \in live
        PROVE  kn2[k].data = expected'[kn2[k].version]
    <3>1. kn2[k] = kn[k]
      BY <1>2, <1>5, <2>3
    <3>2. kn[k].data = ex[kn[k].version]
      BY <1>12, <2>3, <3>1 DEF KernelsSound, live
    <3> QED BY <1>8, <2>3, <3>1, <3>2
  <2> QED BY <2>2, <2>3
<1>14. PoolSound(tn, st, p)
  BY DEF Sound
<1>15. \A i \in DOMAIN p.free : p.free[i] \notin used
  <2>1. SUFFICES ASSUME NEW i \in DOMAIN p.free, p.free[i] \in used PROVE FALSE
    OBVIOUS
  <2>2. p.free[i] \in PoolBlocks /\ IsFree(p.free[i], p)
    BY <1>14 DEF PoolSound, IsFree
  <2>3. CASE \E s \in live : p.free[i] = st[s].block
    BY <1>14, <2>2, <2>3 DEF PoolSound, live
  <2>4. CASE \E k \in Kernels : kn[k].shared /\ p.free[i] = kn[k].source
    BY <1>12, <2>2, <2>4 DEF KernelsSound
  <2> QED BY <1>3, <2>1, <2>3, <2>4
<1>16. /\ pool' \in [made : SUBSET PoolBlocks, free : Seq(PoolBlocks)] /\ pool'.made = p.made
       /\ IsInjective(pool'.free)
       /\ \A i \in DOMAIN pool'.free : pool'.free[i] \in pool'.made /\ pool'.free[i] \notin used
       /\ \A b \in pool'.made \ used : IsFree(b, pool')
  <2>1. /\ p \in [made : SUBSET PoolBlocks, free : Seq(PoolBlocks)]
        /\ IsInjective(p.free) /\ \A i \in DOMAIN p.free : p.free[i] \in p.made
    BY <1>14 DEF PoolSound
  <2>2. PICK q \in Released(p, used) : pool' = q
    BY <1>4
  <2> QED BY <1>15, <2>1, <2>2, ReleaseKeepsPool
<1>17. PoolSound(tensor', storage', pool')
  <2>1. SUFFICES ASSUME NEW s \in live, storage'[s].block \in PoolBlocks
                 PROVE  storage'[s].block \in pool'.made /\ ~IsFree(storage'[s].block, pool')
    BY <1>6, <1>16 DEF PoolSound
  <2>2. storage'[s].block = st[s].block /\ st[s].block \in used
    BY <1>3, <1>8
  <2>3. st[s].block \in p.made
    BY <1>14, <2>1, <2>2 DEF PoolSound, live
  <2> QED BY <1>16, <2>2, <2>3 DEF IsFree
<1>18. Tidy'
  <2>1. \A k \in Kernels : kernel'[k].version \in live \cup {None}
    BY <1>4, <1>5 DEF KernelType
  <2> QED BY <1>6, <1>7, <1>8, <1>16, <2>1 DEF Tidy, Live, InUse
<1> QED BY <1>9, <1>11, <1>13, <1>17, <1>18 DEF MemoryInv, Sound

-------------------------------------------------------------------------------
TensorType == [storage : Storages \cup {None}, immutable : BOOLEAN]
StorageType == [block : Blocks \cup {None}, readOnly : BOOLEAN]

(* MemoryInv, part by part. *)
LEMMA InvParts ==
  ASSUME MemoryInv
  PROVE  /\ tensor \in [Tensors -> TensorType] /\ storage \in [Storages -> StorageType]
         /\ kernel \in [Kernels -> KernelType]
         /\ mem \in [Blocks -> Values \cup {Junk}] /\ expected \in [Storages -> Values \cup {Junk}]
         /\ Live \subseteq Storages /\ None \notin Live
         /\ \A t \in Tensors : Bound(t) => tensor[t].storage \in Live
         /\ \A s \in Live : storage[s].block \in InUse
         /\ GroupsSound(tensor, storage, mem, expected)
         /\ KernelsSound(tensor, storage, kernel, mem, expected)
         /\ PoolSound(tensor, storage, pool) /\ Tidy
<1>1. /\ tensor \in [Tensors -> TensorType] /\ storage \in [Storages -> StorageType]
      /\ kernel \in [Kernels -> KernelType]
      /\ mem \in [Blocks -> Values \cup {Junk}] /\ expected \in [Storages -> Values \cup {Junk}]
  BY DEF MemoryInv, Sound, Types, TensorType, StorageType, KernelType
<1>2. /\ Live \subseteq Storages /\ None \notin Live
      /\ \A t \in Tensors : Bound(t) => tensor[t].storage \in Live
  BY <1>1, LiveIsStorage DEF TensorType, Live, Bound
<1>3. \A s \in Live : storage[s].block \in InUse
  BY DEF InUse, UsedBy, Live
<1> QED BY <1>1, <1>2, <1>3 DEF MemoryInv, Sound

(* Tensors are bound anew among the storages there are, and kernels change. *)
LEMMA ReboundIsSound ==
  ASSUME MemoryInv, NEW tn \in [Tensors -> TensorType], LiveIn(tn) \subseteq Live,
         NEW kn \in [Kernels -> KernelType], KernelsSound(tensor, storage, kn, mem, expected)
  PROVE  Sound(tn, storage, kn, pool, mem, expected)
<1>1. Types(tn, storage, kn, mem, expected)
  BY InvParts DEF Types, TensorType, StorageType, KernelType
<1>2. GroupsSound(tn, storage, mem, expected)
  BY InvParts DEF GroupsSound, Live
<1>3. KernelsSound(tn, storage, kn, mem, expected)
  BY DEF KernelsSound, Live
<1>4. PoolSound(tn, storage, pool)
  BY InvParts DEF PoolSound, Live
<1> QED BY <1>1, <1>2, <1>3, <1>4 DEF Sound

(* A tensor is bound to a storage of its own. *)
LEMMA BindIsSound ==
  ASSUME MemoryInv, NEW t \in Tensors, ~Bound(t), NEW immutable \in BOOLEAN,
         NEW made \in StorageType, NEW p, NEW bytes \in [Blocks -> Values \cup {Junk}], NEW v \in Values \cup {Junk},
         made.block = None => v = Junk, made.block # None => bytes[made.block] = v,
         made.readOnly => made.block \in HeapBlocks,
         \A b \in Blocks \cap InUse : bytes[b] = mem[b],
         \A s \in Live : storage[s].block = made.block /\ made.block # None => made.readOnly /\ storage[s].readOnly,
         \A k \in Kernels : kernel[k].shared /\ kernel[k].source = made.block => made.readOnly,
         p \in [made : SUBSET PoolBlocks, free : Seq(PoolBlocks)], IsInjective(p.free),
         \A i \in DOMAIN p.free : p.free[i] \in p.made,
         \A s \in Live : storage[s].block \in PoolBlocks =>
             storage[s].block \in p.made /\ ~IsFree(storage[s].block, p),
         made.block \in PoolBlocks => made.block \in p.made /\ ~IsFree(made.block, p)
  PROVE  Sound([tensor EXCEPT ![t] = [storage |-> New, immutable |-> immutable]],
               [storage EXCEPT ![New] = made], kernel, p, bytes, [expected EXCEPT ![New] = v])
<1> DEFINE tn == [tensor EXCEPT ![t] = [storage |-> New, immutable |-> immutable]]
           st == [storage EXCEPT ![New] = made]
           ex == [expected EXCEPT ![New] = v]
<1>1. New \in Storages /\ New \notin Live
  BY InvParts, NewIsFresh DEF TensorType
<1>2. /\ tn \in [Tensors -> TensorType] /\ st \in [Storages -> StorageType]
      /\ ex \in [Storages -> Values \cup {Junk}]
  BY <1>1, InvParts DEF TensorType
<1>3. /\ st[New] = made /\ ex[New] = v
      /\ \A s \in Live : st[s] = storage[s] /\ ex[s] = expected[s]
  BY <1>1, InvParts
<1>4. LiveIn(tn) = Live \cup {New}
  <2>1. tn[t].storage = New /\ tensor[t].storage = None /\ \A u \in Tensors \ {t} : tn[u] = tensor[u]
    BY <1>1, InvParts DEF TensorType, Bound
  <2>2. New # None
    BY <1>1
  <2> HIDE DEF tn
  <2> QED BY <2>1, <2>2 DEF LiveIn, Live
<1>5. Types(tn, st, kernel, bytes, ex)
  BY <1>2, InvParts DEF Types, TensorType, StorageType, KernelType
<1> HIDE DEF tn, st, ex
<1>6. ASSUME NEW s \in Live
      PROVE  /\ st[s].block = None => ex[s] = Junk
             /\ st[s].block # None => bytes[st[s].block] = ex[s]
             /\ st[s].readOnly => st[s].block \in HeapBlocks
             /\ \A q \in Live : q # s /\ st[q].block = st[s].block /\ st[s].block # None => st[s].readOnly
  <2>1. storage[s].block \in InUse /\ storage[s].block \in Blocks \cup {None}
    BY InvParts DEF StorageType
  <2>2. /\ storage[s].block = None => expected[s] = Junk
        /\ storage[s].block # None => mem[storage[s].block] = expected[s]
        /\ storage[s].readOnly => storage[s].block \in HeapBlocks
        /\ \A q \in Live : q # s /\ storage[q].block = storage[s].block /\ storage[s].block # None
                             => storage[s].readOnly
    BY InvParts DEF GroupsSound, Live
  <2> QED BY <1>3, <2>1, <2>2
<1>7. GroupsSound(tn, st, bytes, ex)
  <2>1. SUFFICES ASSUME NEW s \in Live \cup {New}
                 PROVE  /\ st[s].block = None => ex[s] = Junk
                        /\ st[s].block # None => bytes[st[s].block] = ex[s]
                        /\ st[s].readOnly => st[s].block \in HeapBlocks
                        /\ \A q \in Live \cup {New} :
                             q # s /\ st[q].block = st[s].block /\ st[s].block # None => st[s].readOnly
    BY <1>4 DEF GroupsSound
  <2>2. CASE s \in Live
    BY <1>3, <1>6, <2>2
  <2>3. CASE s = New
    BY <1>3, <2>3
  <2> QED BY <2>1, <2>2, <2>3
<1>8. KernelsSound(tn, st, kernel, bytes, ex)
  <2>1. SUFFICES ASSUME NEW k \in Kernels
                 PROVE  /\ kernel[k].shared =>
                             /\ kernel[k].source \in HeapBlocks /\ bytes[kernel[k].source] = kernel[k].data
                             /\ \A s \in Live \cup {New} : st[s].block = kernel[k].source => st[s].readOnly
                        /\ kernel[k].version \in Live \cup {New} => kernel[k].data = ex[kernel[k].version]
    BY <1>4 DEF KernelsSound
  <2>2. ASSUME kernel[k].shared
        PROVE  /\ kernel[k].source \in HeapBlocks /\ bytes[kernel[k].source] = kernel[k].data
               /\ \A s \in Live \cup {New} : st[s].block = kernel[k].source => st[s].readOnly
    <3>1. /\ kernel[k].source \in HeapBlocks /\ mem[kernel[k].source] = kernel[k].data
          /\ \A s \in Live : storage[s].block = kernel[k].source => storage[s].readOnly
      BY <2>2, InvParts DEF KernelsSound, Live
    <3>2. kernel[k].source \in Blocks \cap InUse
      BY <2>2, <3>1 DEF Blocks, InUse, UsedBy
    <3> QED BY <1>3, <2>2, <3>1, <3>2
  <2>3. ASSUME kernel[k].version \in Live \cup {New}
        PROVE  kernel[k].data = ex[kernel[k].version]
    <3>1. kernel[k].version \in Live
      <4>1. kernel[k].version \in Live \cup {None}
        BY InvParts DEF Tidy
      <4> QED BY <1>1, <2>3, <4>1
    <3>2. kernel[k].data = expected[kernel[k].version]
      BY <3>1, InvParts DEF KernelsSound, Live
    <3> QED BY <1>3, <3>1, <3>2
  <2> QED BY <2>2, <2>3
<1>9. PoolSound(tn, st, p)
  <2>1. \A s \in Live \cup {New} : st[s].block \in PoolBlocks => st[s].block \in p.made /\ ~IsFree(st[s].block, p)
    BY <1>3
  <2> QED BY <1>4, <2>1 DEF PoolSound
<1> QED BY <1>5, <1>7, <1>8, <1>9 DEF Sound, tn, st, ex

-------------------------------------------------------------------------------
(* A block that the pool lends was in nobody's hands. *)
LEMMA AllocationIsFresh ==
  ASSUME MemoryInv, NEW x \in Allocations
  PROVE  /\ x[1] \in PoolBlocks /\ x[1] \notin InUse
         /\ x[2] \in [made : SUBSET PoolBlocks, free : Seq(PoolBlocks)] /\ IsInjective(x[2].free)
         /\ \A i \in DOMAIN x[2].free : x[2].free[i] \in x[2].made
         /\ \A s \in Live : storage[s].block \in PoolBlocks =>
              storage[s].block \in x[2].made /\ ~IsFree(storage[s].block, x[2])
         /\ x[1] \in x[2].made /\ ~IsFree(x[1], x[2])
<1>1. /\ pool \in [made : SUBSET PoolBlocks, free : Seq(PoolBlocks)]
      /\ IsInjective(pool.free) /\ \A i \in DOMAIN pool.free : pool.free[i] \in pool.made
      /\ \A s \in Live : storage[s].block \in PoolBlocks =>
           storage[s].block \in pool.made /\ ~IsFree(storage[s].block, pool)
  BY InvParts DEF PoolSound, Live
<1>2. ASSUME NEW b \in PoolBlocks, b \in InUse PROVE b \in pool.made /\ ~IsFree(b, pool)
  <2>1. CASE \E s \in Live : b = storage[s].block
    BY <1>1, <1>2, <2>1
  <2>2. CASE \E k \in Kernels : kernel[k].shared /\ b = kernel[k].source
    BY <1>2, <2>2, InvParts DEF KernelsSound
  <2> QED BY <1>2, <2>1, <2>2 DEF InUse, UsedBy, Live
<1>3. CASE pool.free # <<>>
  <2> DEFINE f == pool.free
             b == Head(f)
             p == [pool EXCEPT !.free = Tail(f)]
  <2>1. x = <<b, p>>
    BY <1>3 DEF Allocations
  <2>2. f \in Seq(PoolBlocks) /\ f # <<>> /\ Len(f) \in Nat \ {0}
    BY <1>1, <1>3
  <2>3. b = f[1] /\ 1 \in DOMAIN f /\ b \in PoolBlocks
    <3> HIDE DEF f
    <3> QED BY <2>2
  <2>4. /\ Tail(f) \in Seq(PoolBlocks) /\ DOMAIN Tail(f) = 1..(Len(f) - 1)
        /\ \A i \in DOMAIN Tail(f) : i + 1 \in DOMAIN f /\ Tail(f)[i] = f[i + 1] /\ i # 0 /\ i \in Nat
    <3> HIDE DEF f, b
    <3> QED BY <2>2
  <2>5. p.made = pool.made /\ p.free = Tail(f) /\ p \in [made : SUBSET PoolBlocks, free : Seq(PoolBlocks)]
    BY <1>1, <2>4
  <2>6. IsFree(b, pool)
    BY <2>3 DEF IsFree
  <2>7. IsInjective(p.free)
    <3>1. \A i, j \in DOMAIN Tail(f) : Tail(f)[i] = Tail(f)[j] => i + 1 = j + 1
      BY <1>1, <2>4 DEF IsInjective
    <3> QED BY <2>4, <2>5, <3>1 DEF IsInjective
  <2>8. \A i \in DOMAIN p.free : p.free[i] \in p.made
    BY <1>1, <2>4, <2>5
  <2>9. \A c \in PoolBlocks : ~IsFree(c, pool) => ~IsFree(c, p)
    BY <2>4, <2>5 DEF IsFree
  <2>10. ~IsFree(b, p)
    <3>1. \A i \in DOMAIN Tail(f) : f[i + 1] # f[1]
      BY <1>1, <2>3, <2>4 DEF IsInjective
    <3> QED BY <2>3, <2>4, <2>5, <3>1 DEF IsFree
  <2>11. b \in pool.made /\ b \notin InUse
    BY <1>1, <1>2, <2>3, <2>6
  <2> HIDE DEF f, b, p
  <2> QED BY <1>1, <2>1, <2>3, <2>5, <2>7, <2>8, <2>9, <2>10, <2>11
<1>4. CASE pool.free = <<>>
  <2>1. PICK b \in PoolBlocks \ pool.made : x = <<b, [pool EXCEPT !.made = @ \cup {b}]>>
    BY <1>4 DEF Allocations
  <2> DEFINE p == [pool EXCEPT !.made = @ \cup {b}]
  <2>2. p.made = pool.made \cup {b} /\ p.free = pool.free /\ p \in [made : SUBSET PoolBlocks, free : Seq(PoolBlocks)]
    BY <1>1
  <2>3. \A c \in PoolBlocks : ~IsFree(c, p)
    BY <1>4, <2>2 DEF IsFree
  <2> HIDE DEF p
  <2> QED BY <1>1, <1>2, <2>1, <2>2, <2>3 DEF p
<1> QED BY <1>3, <1>4

(* A tensor gets memory of the heap that holds v. *)
LEMMA HeapBindIsSound ==
  ASSUME MemoryInv, NEW t \in Tensors, ~Bound(t), NEW immutable \in BOOLEAN, NEW readOnly \in BOOLEAN,
         NEW b \in FreeHeap, NEW v \in Values
  PROVE  Sound([tensor EXCEPT ![t] = [storage |-> New, immutable |-> immutable]],
               [storage EXCEPT ![New] = Memory(b, readOnly)], kernel, pool, [mem EXCEPT ![b] = v],
               [expected EXCEPT ![New] = v])
<1> DEFINE made == Memory(b, readOnly)
           bytes == [mem EXCEPT ![b] = v]
<1>1. b \in HeapBlocks /\ b \in Blocks /\ b \notin PoolBlocks /\ b \notin InUse /\ b # None
  BY DEF FreeHeap, Blocks
<1>2. made \in StorageType /\ made.block = b /\ made.readOnly = readOnly
  BY <1>1 DEF Memory, StorageType
<1>3. /\ bytes \in [Blocks -> Values \cup {Junk}] /\ bytes[b] = v
      /\ \A c \in Blocks \cap InUse : bytes[c] = mem[c]
  BY <1>1, InvParts
<1>4. /\ \A s \in Live : storage[s].block # b
      /\ \A k \in Kernels : kernel[k].shared => kernel[k].source # b
  BY <1>1, InvParts DEF InUse, UsedBy
<1>5. /\ pool \in [made : SUBSET PoolBlocks, free : Seq(PoolBlocks)] /\ IsInjective(pool.free)
      /\ \A i \in DOMAIN pool.free : pool.free[i] \in pool.made
      /\ \A s \in Live : storage[s].block \in PoolBlocks =>
           storage[s].block \in pool.made /\ ~IsFree(storage[s].block, pool)
  BY InvParts DEF PoolSound, Live
<1> HIDE DEF made, bytes
<1> DEFINE goal == Sound([tensor EXCEPT ![t] = [storage |-> New, immutable |-> immutable]],
                         [storage EXCEPT ![New] = made], kernel, pool, bytes, [expected EXCEPT ![New] = v])
<1>6. goal
  BY <1>1, <1>2, <1>3, <1>4, <1>5, BindIsSound
<1> QED BY <1>6 DEF made, bytes

(* FrozenBytes in place: a storage of its own over read-only memory. *)
LEMMA ShareIsSound ==
  ASSUME MemoryInv, NEW t \in Tensors, ~Bound(t), NEW immutable \in BOOLEAN,
         NEW s \in Live, storage[s].readOnly
  PROVE  Sound([tensor EXCEPT ![t] = [storage |-> New, immutable |-> immutable]],
               [storage EXCEPT ![New] = storage[s]], kernel, pool, mem,
               [expected EXCEPT ![New] = mem[storage[s].block]])
<1> DEFINE made == storage[s]
           v == mem[made.block]
<1>1. /\ made \in StorageType /\ made.readOnly /\ made.block \in HeapBlocks /\ made.block \in Blocks
      /\ made.block # None /\ made.block \notin PoolBlocks
  BY InvParts DEF GroupsSound, Live, StorageType, Blocks
<1>2. mem \in [Blocks -> Values \cup {Junk}] /\ v \in Values \cup {Junk}
  BY <1>1, InvParts
<1>3. \A q \in Live : storage[q].block = made.block => storage[q].readOnly
  BY <1>1, InvParts DEF GroupsSound, Live
<1>4. /\ pool \in [made : SUBSET PoolBlocks, free : Seq(PoolBlocks)] /\ IsInjective(pool.free)
      /\ \A i \in DOMAIN pool.free : pool.free[i] \in pool.made
      /\ \A q \in Live : storage[q].block \in PoolBlocks =>
           storage[q].block \in pool.made /\ ~IsFree(storage[q].block, pool)
  BY InvParts DEF PoolSound, Live
<1>5. v = mem[made.block]
  OBVIOUS
<1> HIDE DEF made, v
<1>6. Sound([tensor EXCEPT ![t] = [storage |-> New, immutable |-> immutable]],
            [storage EXCEPT ![New] = made], kernel, pool, mem, [expected EXCEPT ![New] = v])
  BY <1>1, <1>2, <1>3, <1>4, <1>5, BindIsSound
<1> QED BY <1>6 DEF made, v

-------------------------------------------------------------------------------
LEMMA OutdatedIsSound ==
  ASSUME MemoryInv, NEW gone
  PROVE  /\ Outdated(kernel, gone) \in [Kernels -> KernelType]
         /\ KernelsSound(tensor, storage, Outdated(kernel, gone), mem, expected)
<1> DEFINE kn == Outdated(kernel, gone)
<1>1. /\ kn \in [Kernels -> KernelType]
      /\ \A k \in Kernels :
           /\ kn[k].shared = kernel[k].shared
           /\ kernel[k].shared => kn[k].source = kernel[k].source /\ kn[k].data = kernel[k].data
           /\ kn[k].version # None => kn[k] = kernel[k]
  BY InvParts, OutdatedKernels
<1> HIDE DEF kn
<1>2. KernelsSound(tensor, storage, kn, mem, expected)
  <2>1. ASSUME NEW k \in Kernels, kn[k].version \in Live
        PROVE  kn[k].data = expected[kn[k].version]
    <3>1. kn[k] = kernel[k]
      BY <1>1, <2>1, InvParts
    <3> QED BY <2>1, <3>1, InvParts DEF KernelsSound, Live
  <2>2. ASSUME NEW k \in Kernels, kn[k].shared
        PROVE  /\ kn[k].source \in HeapBlocks /\ mem[kn[k].source] = kn[k].data
               /\ \A s \in Live : storage[s].block = kn[k].source => storage[s].readOnly
    BY <1>1, <2>2, InvParts DEF KernelsSound, Live
  <2> QED BY <2>1, <2>2 DEF KernelsSound, Live
<1> QED BY <1>1, <1>2 DEF kn

(* A group's value becomes w, in memory that nobody else has. *)
LEMMA WriteIsSound ==
  ASSUME MemoryInv, NEW s \in Live, NEW tn \in [Tensors -> TensorType], LiveIn(tn) = Live,
         NEW made \in StorageType, made.block # None, ~made.readOnly,
         NEW bytes \in [Blocks -> Values \cup {Junk}], NEW w \in Values \cup {Junk}, bytes[made.block] = w,
         \A c \in Blocks \cap InUse : c # made.block => bytes[c] = mem[c],
         \A q \in Live : q # s => storage[q].block # made.block,
         \A k \in Kernels : kernel[k].shared => kernel[k].source # made.block,
         made.block \in PoolBlocks => made.block = storage[s].block
  PROVE  Sound(tn, [storage EXCEPT ![s] = made], Outdated(kernel, {s}), pool, bytes, [expected EXCEPT ![s] = w])
<1> DEFINE st == [storage EXCEPT ![s] = made]
           ex == [expected EXCEPT ![s] = w]
           kn == Outdated(kernel, {s})
<1>1. /\ kn \in [Kernels -> KernelType]
      /\ \A k \in Kernels :
           /\ kn[k].shared = kernel[k].shared
           /\ kernel[k].shared => kn[k].source = kernel[k].source /\ kn[k].data = kernel[k].data
           /\ kn[k].version # None => kn[k] = kernel[k] /\ kn[k].version # s
  BY InvParts, OutdatedKernels
<1>2. st \in [Storages -> StorageType] /\ ex \in [Storages -> Values \cup {Junk}]
  BY InvParts
<1>3. /\ st[s] = made /\ ex[s] = w
      /\ \A q \in Live : q # s => st[q] = storage[q] /\ ex[q] = expected[q]
  BY InvParts
<1> HIDE DEF st, ex, kn
<1>4. Types(tn, st, kn, bytes, ex)
  BY <1>1, <1>2 DEF Types, TensorType, StorageType, KernelType
<1>5. GroupsSound(tn, st, bytes, ex)
  <2>1. SUFFICES ASSUME NEW r \in Live
                 PROVE  /\ st[r].block = None => ex[r] = Junk
                        /\ st[r].block # None => bytes[st[r].block] = ex[r]
                        /\ st[r].readOnly => st[r].block \in HeapBlocks
                        /\ \A q \in Live : q # r /\ st[q].block = st[r].block /\ st[r].block # None => st[r].readOnly
    BY DEF GroupsSound
  <2>2. CASE r = s
    BY <1>3, <2>2
  <2>3. CASE r # s
    <3>1. st[r] = storage[r] /\ ex[r] = expected[r]
      BY <1>3, <2>3
    <3>2. /\ storage[r].block \in InUse /\ storage[r].block \in Blocks \cup {None}
          /\ storage[r].block # made.block
      BY <2>3, InvParts DEF StorageType
    <3>3. /\ storage[r].block = None => expected[r] = Junk
          /\ storage[r].block # None => mem[storage[r].block] = expected[r]
          /\ storage[r].readOnly => storage[r].block \in HeapBlocks
          /\ \A q \in Live : q # r /\ storage[q].block = storage[r].block /\ storage[r].block # None
                               => storage[r].readOnly
      BY InvParts DEF GroupsSound, Live
    <3>4. \A q \in Live : q # r /\ st[q].block = st[r].block /\ st[r].block # None => st[r].readOnly
      BY <1>3, <3>1, <3>2, <3>3
    <3> QED BY <3>1, <3>2, <3>3, <3>4
  <2> QED BY <2>2, <2>3
<1>6. KernelsSound(tn, st, kn, bytes, ex)
  <2>1. ASSUME NEW k \in Kernels, kn[k].version \in Live
        PROVE  kn[k].data = ex[kn[k].version]
    <3>1. kn[k] = kernel[k] /\ kn[k].version # s
      BY <1>1, <2>1, InvParts
    <3>2. kernel[k].data = expected[kernel[k].version]
      BY <2>1, <3>1, InvParts DEF KernelsSound, Live
    <3> QED BY <1>3, <2>1, <3>1, <3>2
  <2>2. ASSUME NEW k \in Kernels, kn[k].shared
        PROVE  /\ kn[k].source \in HeapBlocks /\ bytes[kn[k].source] = kn[k].data
               /\ \A r \in Live : st[r].block = kn[k].source => st[r].readOnly
    <3>1. kernel[k].shared /\ kn[k].source = kernel[k].source /\ kn[k].data = kernel[k].data
      BY <1>1, <2>2
    <3>2. /\ kernel[k].source \in HeapBlocks /\ mem[kernel[k].source] = kernel[k].data
          /\ \A r \in Live : storage[r].block = kernel[k].source => storage[r].readOnly
      BY <3>1, InvParts DEF KernelsSound, Live
    <3>3. kernel[k].source \in Blocks \cap InUse /\ kernel[k].source # made.block
      BY <3>1, <3>2 DEF Blocks, InUse, UsedBy
    <3> QED BY <1>3, <3>1, <3>2, <3>3
  <2> QED BY <2>1, <2>2 DEF KernelsSound
<1>7. PoolSound(tn, st, pool)
  <2>1. \A r \in Live : st[r].block \in PoolBlocks => st[r].block = storage[r].block
    BY <1>3
  <2> QED BY <2>1, InvParts DEF PoolSound, Live
<1> QED BY <1>4, <1>5, <1>6, <1>7 DEF Sound, st, ex, kn

(* mutable_data and what it may have to do first. *)
LEMMA WriteKeeps ==
  ASSUME MemoryInv, NEW t \in Tensors, NEW v \in Values \cup {None}, mutable_data(t, v)
  PROVE  MemoryInv'
<1> DEFINE s == tensor[t].storage
           w == IF v = None THEN expected[s] ELSE v
           mark == tensor[t].immutable /\ ~storage[s].readOnly
           tn == [tensor EXCEPT ![t].immutable = mark]
           kn == Outdated(kernel, {s})
           ex == [expected EXCEPT ![s] = w]
<1>1. s \in Live /\ s \in Storages
  BY InvParts DEF mutable_data
<1>2. PICK x \in MakeWritable(s) :
        Become(tn, x[1], kn, pool,
               [x[2] EXCEPT ![x[1][s].block] = IF v = None THEN x[2][x[1][s].block] ELSE v], ex)
  BY DEF mutable_data
<1>3. tn \in [Tensors -> TensorType] /\ LiveIn(tn) = Live
  <2>1. mark \in BOOLEAN
    BY DEF TensorType
  <2> HIDE DEF mark
  <2>2. tn \in [Tensors -> TensorType] /\ \A u \in Tensors : tn[u].storage = tensor[u].storage
    BY <2>1, InvParts DEF TensorType
  <2> HIDE DEF tn
  <2> QED BY <2>2 DEF LiveIn, Live
<1>4. w \in Values \cup {Junk}
  BY <1>1, InvParts
<1>5. /\ storage[s].block \in Blocks \cup {None} /\ storage[s] \in StorageType
      /\ storage[s].block = None => expected[s] = Junk
      /\ storage[s].block # None => mem[storage[s].block] = expected[s]
      /\ storage[s].readOnly => storage[s].block \in HeapBlocks
  BY <1>1, InvParts DEF GroupsSound, Live, StorageType
<1>6. CASE storage[s].block # None /\ ~storage[s].readOnly
  <2> DEFINE b == storage[s].block
             bytes == [mem EXCEPT ![b] = w]
  <2>1. x = <<storage, mem>>
    BY <1>2, <1>6 DEF MakeWritable
  <2>2. Become(tn, storage, kn, pool, bytes, ex)
    <3>1. (IF v = None THEN mem[b] ELSE v) = w
      BY <1>5, <1>6
    <3> HIDE DEF tn, kn, ex, w
    <3> QED BY <1>2, <2>1, <3>1
  <2>3. /\ bytes \in [Blocks -> Values \cup {Junk}] /\ bytes[b] = w
        /\ \A c \in Blocks \cap InUse : c # b => bytes[c] = mem[c]
    <3> HIDE DEF w
    <3> QED BY <1>4, <1>5, <1>6, InvParts
  <2>4. /\ \A q \in Live : q # s => storage[q].block # b
        /\ \A k \in Kernels : kernel[k].shared => kernel[k].source # b
    BY <1>1, <1>6, InvParts DEF GroupsSound, KernelsSound, Live
  <2>5. storage = [storage EXCEPT ![s] = storage[s]]
    BY InvParts
  <2> HIDE DEF s, w, mark, tn, kn, ex, bytes
  <2>6. Sound(tn, [storage EXCEPT ![s] = storage[s]], Outdated(kernel, {s}), pool, bytes, [expected EXCEPT ![s] = w])
    BY <1>1, <1>3, <1>4, <1>5, <1>6, <2>3, <2>4, WriteIsSound
  <2>7. Sound(tn, storage, kn, pool, bytes, ex)
    BY <2>5, <2>6 DEF kn, ex
  <2> QED BY <2>2, <2>7, BecomeKeeps
<1>7. CASE storage[s].block = None \/ storage[s].readOnly
  <2>1. PICK b \in FreeHeap :
          x = <<[storage EXCEPT ![s] = Memory(b, FALSE)],
                [mem EXCEPT ![b] = IF storage[s].readOnly THEN mem[storage[s].block] ELSE Junk]>>
    BY <1>2, <1>7 DEF MakeWritable
  <2>2. b \in HeapBlocks /\ b \in Blocks /\ b \notin PoolBlocks /\ b \notin InUse /\ b # None
    BY DEF FreeHeap, Blocks
  <2> DEFINE made == Memory(b, FALSE)
             old == IF storage[s].readOnly THEN mem[storage[s].block] ELSE Junk
             bytes == [mem EXCEPT ![b] = w]
             st == [storage EXCEPT ![s] = made]
  <2>3. made \in StorageType /\ made.block = b /\ ~made.readOnly
    BY <2>2 DEF Memory, StorageType
  <2>4. old = expected[s]
    BY <1>5, <1>7
  <2>5. st[s] = made
    BY <1>1, InvParts
  <2>6. [[mem EXCEPT ![b] = old] EXCEPT ![b] = w] = bytes /\ [mem EXCEPT ![b] = old][b] = old
    <3> HIDE DEF w, old
    <3> QED BY <2>2, InvParts
  <2>7. Become(tn, st, kn, pool, bytes, ex)
    <3>1. x[1] = st /\ x[2] = [mem EXCEPT ![b] = old] /\ x[1][s].block = b
      BY <2>1, <2>3, <2>5
    <3>2. (IF v = None THEN old ELSE v) = w
      BY <2>4
    <3> HIDE DEF tn, kn, ex, w, st, old, bytes, made, s
    <3>3. (IF v = None THEN x[2][x[1][s].block] ELSE v) = w
      BY <2>6, <3>1, <3>2
    <3>4. [x[2] EXCEPT ![x[1][s].block] = IF v = None THEN x[2][x[1][s].block] ELSE v] = bytes
      BY <2>6, <3>1, <3>3
    <3> QED BY <1>2, <3>1, <3>4
  <2>8. /\ bytes \in [Blocks -> Values \cup {Junk}] /\ bytes[b] = w
        /\ \A c \in Blocks \cap InUse : c # b => bytes[c] = mem[c]
    <3> HIDE DEF w
    <3> QED BY <1>4, <2>2, InvParts
  <2>9. /\ \A q \in Live : q # s => storage[q].block # b
        /\ \A k \in Kernels : kernel[k].shared => kernel[k].source # b
    BY <2>2, InvParts DEF InUse, UsedBy
  <2> HIDE DEF s, w, mark, tn, kn, ex, made, old, bytes, st
  <2>10. Sound(tn, [storage EXCEPT ![s] = made], Outdated(kernel, {s}), pool, bytes, [expected EXCEPT ![s] = w])
    BY <1>1, <1>3, <1>4, <2>2, <2>3, <2>8, <2>9, WriteIsSound
  <2>11. Sound(tn, st, kn, pool, bytes, ex)
    BY <2>10 DEF kn, ex, st
  <2> QED BY <2>7, <2>11, BecomeKeeps
<1> QED BY <1>6, <1>7

(* A kernel packs a weight, takes a packing, or is destroyed. *)
LEMMA PackKeeps ==
  ASSUME MemoryInv, NEW k \in Kernels, NEW t \in Tensors, Pack(k, t)
  PROVE  MemoryInv'
<1> DEFINE s == tensor[t].storage
           a == Address(t)
           packed == AcquirePackedWeight(k, t)
           kn == [kernel EXCEPT ![k] = packed]
           own == IF Matches(k, t) THEN kernel[k] ELSE [Unpacked EXCEPT !.data = mem[a]]
           found == IF Shareable(t) /\ Holders(t) # {} THEN kernel[CHOOSE j \in Holders(t) : TRUE] ELSE own
<1>1. /\ s \in Live /\ s \in Storages /\ a = storage[s].block /\ a \in Blocks
      /\ mem[a] = expected[s] /\ expected[s] \in Values \cup {Junk}
      /\ storage[s].readOnly => a \in HeapBlocks
      /\ \A q \in Live : storage[q].block = a => q = s \/ storage[q].readOnly
  BY InvParts DEF Pack, HasMemory, Address, GroupsSound, Live, StorageType
<1>2. own.data = expected[s] /\ own.shared \in BOOLEAN /\ (own.shared => Matches(k, t) /\ own = kernel[k])
  <2>1. CASE Matches(k, t)
    <3>1. kernel[k].version = s
      BY <2>1 DEF Matches
    <3>2. kernel[k].data = expected[s]
      BY <1>1, <3>1, InvParts DEF KernelsSound, Live
    <3> QED BY <2>1, <3>2, InvParts DEF KernelType
  <2>2. CASE ~Matches(k, t)
    BY <1>1, <2>2 DEF Unpacked
  <2> QED BY <2>1, <2>2
<1>3. /\ found.data = expected[s] /\ found.shared \in BOOLEAN
      /\ found.shared => Shareable(t) \/ (Matches(k, t) /\ own.shared)
  <2>1. CASE Shareable(t) /\ Holders(t) # {}
    <3>1. PICK j \in Kernels : found = kernel[j] /\ kernel[j].shared /\ kernel[j].source = a
      BY <2>1 DEF Holders
    <3>2. mem[a] = kernel[j].data
      BY <3>1, InvParts DEF KernelsSound
    <3>3. kernel[j].shared \in BOOLEAN
      BY InvParts DEF KernelType
    <3> HIDE DEF found, own
    <3> QED BY <1>1, <2>1, <3>1, <3>2, <3>3
  <2>2. CASE ~(Shareable(t) /\ Holders(t) # {})
    <3>1. found = own
      BY <2>2
    <3> HIDE DEF found, own
    <3> QED BY <1>2, <3>1
  <2> QED BY <2>1, <2>2
<1>4. packed = [source |-> a, version |-> s, shared |-> Shareable(t) \/ found.shared, data |-> found.data]
  BY DEF AcquirePackedWeight
<1> HIDE DEF found, packed
<1>5. /\ packed.source = a /\ packed.version = s /\ packed.data = expected[s]
      /\ packed.shared <=> Shareable(t) \/ found.shared
  BY <1>3, <1>4
<1>6. packed \in KernelType
  <2>1. (Shareable(t) \/ found.shared) \in BOOLEAN
    OBVIOUS
  <2> HIDE DEF s, a, own
  <2> QED BY <1>1, <1>3, <1>4, <2>1 DEF KernelType
<1>7. packed.shared => a \in HeapBlocks /\ \A q \in Live : storage[q].block = a => storage[q].readOnly
  <2>1. CASE Shareable(t)
    BY <1>1, <2>1 DEF Shareable
  <2>2. CASE Matches(k, t) /\ own.shared
    <3>1. kernel[k].shared /\ kernel[k].source = a
      BY <1>2, <2>2 DEF Matches
    <3> HIDE DEF a, s, own
    <3> QED BY <3>1, InvParts DEF KernelsSound, Live
  <2> QED BY <1>3, <1>5, <2>1, <2>2
<1>8. kn \in [Kernels -> KernelType] /\ kn[k] = packed /\ \A j \in Kernels : j # k => kn[j] = kernel[j]
  BY <1>6, InvParts
<1> HIDE DEF a, s, own, kn
<1>9. KernelsSound(tensor, storage, kn, mem, expected)
  <2>1. ASSUME NEW j \in Kernels, kn[j].shared
        PROVE  /\ kn[j].source \in HeapBlocks /\ mem[kn[j].source] = kn[j].data
               /\ \A q \in Live : storage[q].block = kn[j].source => storage[q].readOnly
    <3>1. CASE j = k
      BY <1>1, <1>5, <1>7, <1>8, <2>1, <3>1
    <3>2. CASE j # k
      BY <1>8, <2>1, <3>2, InvParts DEF KernelsSound, Live
    <3> QED BY <3>1, <3>2
  <2>2. ASSUME NEW j \in Kernels, kn[j].version \in Live
        PROVE  kn[j].data = expected[kn[j].version]
    <3>1. CASE j = k
      BY <1>5, <1>8, <3>1
    <3>2. CASE j # k
      BY <1>8, <2>2, <3>2, InvParts DEF KernelsSound, Live
    <3> QED BY <3>1, <3>2
  <2> QED BY <2>1, <2>2 DEF KernelsSound, Live
<1>10. Sound(tensor, storage, kn, pool, mem, expected)
  BY <1>8, <1>9, InvParts, ReboundIsSound DEF Live
<1>11. Become(tensor, storage, kn, pool, mem, expected)
  BY DEF Pack, kn, packed
<1> QED BY <1>10, <1>11, BecomeKeeps

LEMMA DropKeeps ==
  ASSUME MemoryInv, NEW k \in Kernels, Drop(k)
  PROVE  MemoryInv'
<1> DEFINE kn == [kernel EXCEPT ![k] = Unpacked]
<1>1. Unpacked \in KernelType /\ Unpacked.version = None /\ Unpacked.shared = FALSE
  BY DEF Unpacked, KernelType
<1>2. kn \in [Kernels -> KernelType] /\ kn[k] = Unpacked /\ \A j \in Kernels : j # k => kn[j] = kernel[j]
  BY <1>1, InvParts
<1> HIDE DEF kn
<1>3. KernelsSound(tensor, storage, kn, mem, expected)
  <2>1. ASSUME NEW j \in Kernels, kn[j].shared
        PROVE  /\ kn[j].source \in HeapBlocks /\ mem[kn[j].source] = kn[j].data
               /\ \A q \in Live : storage[q].block = kn[j].source => storage[q].readOnly
    BY <1>1, <1>2, <2>1, InvParts DEF KernelsSound, Live
  <2>2. ASSUME NEW j \in Kernels, kn[j].version \in Live
        PROVE  kn[j].data = expected[kn[j].version]
    BY <1>1, <1>2, <2>2, InvParts DEF KernelsSound, Live
  <2> QED BY <2>1, <2>2 DEF KernelsSound, Live
<1>4. Sound(tensor, storage, kn, pool, mem, expected)
  BY <1>2, <1>3, InvParts, ReboundIsSound DEF Live
<1>5. Become(tensor, storage, kn, pool, mem, expected)
  BY DEF Drop, kn
<1> QED BY <1>4, <1>5, BecomeKeeps

-------------------------------------------------------------------------------
(* Calls that move tensors among the groups there are. *)
LEMMA ShareDataWithKeeps ==
  ASSUME MemoryInv, NEW t \in Tensors, NEW u \in Tensors, ShareDataWith(t, u)
  PROVE  MemoryInv'
<1> DEFINE tn == [tensor EXCEPT ![t] = tensor[u]]
<1>1. tn \in [Tensors -> TensorType] /\ LiveIn(tn) \subseteq Live
  <2>1. tn \in [Tensors -> TensorType] /\ tn[t] = tensor[u] /\ \A w \in Tensors : w # t => tn[w] = tensor[w]
    BY InvParts
  <2> HIDE DEF tn
  <2> QED BY <2>1 DEF LiveIn, Live
<1>2. Become(tn, storage, kernel, pool, mem, expected)
  BY DEF ShareDataWith
<1> HIDE DEF tn
<1>3. Sound(tn, storage, kernel, pool, mem, expected)
  BY <1>1, InvParts, ReboundIsSound
<1> QED BY <1>2, <1>3, BecomeKeeps

LEMMA ClearKeeps ==
  ASSUME MemoryInv, NEW t \in Tensors, Clear(t)
  PROVE  MemoryInv'
<1> DEFINE tn == [tensor EXCEPT ![t] = NoTensor]
<1>1. tn \in [Tensors -> TensorType] /\ LiveIn(tn) \subseteq Live
  <2>1. /\ tn \in [Tensors -> TensorType] /\ tn[t].storage = None
        /\ \A w \in Tensors : w # t => tn[w] = tensor[w]
    BY InvParts DEF NoTensor, TensorType
  <2> HIDE DEF tn
  <2> QED BY <2>1 DEF LiveIn, Live
<1>2. Become(tn, storage, kernel, pool, mem, expected)
  BY DEF Clear
<1> HIDE DEF tn
<1>3. Sound(tn, storage, kernel, pool, mem, expected)
  BY <1>1, InvParts, ReboundIsSound
<1> QED BY <1>2, <1>3, BecomeKeeps

LEMMA SwapStorageKeeps ==
  ASSUME MemoryInv, NEW t \in Tensors, NEW u \in Tensors, SwapStorage(t, u)
  PROVE  MemoryInv'
<1> DEFINE gone == {tensor[t].storage, tensor[u].storage}
           kn == Outdated(kernel, gone)
           tn == [tensor EXCEPT ![t].storage = tensor[u].storage, ![u].storage = tensor[t].storage]
<1>1. tn \in [Tensors -> TensorType] /\ LiveIn(tn) \subseteq Live
  <2>1. /\ tn \in [Tensors -> TensorType] /\ tn[u].storage = tensor[t].storage /\ tn[t].storage = tensor[u].storage
        /\ \A w \in Tensors : w # t /\ w # u => tn[w] = tensor[w]
    BY InvParts DEF SwapStorage, TensorType
  <2> HIDE DEF tn
  <2> QED BY <2>1 DEF LiveIn, Live
<1>2. Become(tn, storage, kn, pool, mem, expected)
  BY DEF SwapStorage
<1> HIDE DEF gone, tn
<1>3. kn \in [Kernels -> KernelType] /\ KernelsSound(tensor, storage, kn, mem, expected)
  BY OutdatedIsSound
<1> HIDE DEF kn
<1>4. Sound(tn, storage, kn, pool, mem, expected)
  BY <1>1, <1>3, ReboundIsSound
<1> QED BY <1>2, <1>4, BecomeKeeps

-------------------------------------------------------------------------------
(* Calls that bind a tensor to a storage of its own. *)
LEMMA CreateKeeps ==
  ASSUME MemoryInv, NEW t \in Tensors, Create(t)
  PROVE  MemoryInv'
<1>1. ASSUME NEW x \in Allocations, Bind(t, FALSE, Memory(x[1], FALSE), x[2], mem, Junk)
      PROVE  MemoryInv'
  <2> DEFINE b == x[1]
             p == x[2]
             made == Memory(b, FALSE)
  <2>1. /\ b \in PoolBlocks /\ b \notin InUse
        /\ p \in [made : SUBSET PoolBlocks, free : Seq(PoolBlocks)] /\ IsInjective(p.free)
        /\ \A i \in DOMAIN p.free : p.free[i] \in p.made
        /\ \A s \in Live : storage[s].block \in PoolBlocks =>
             storage[s].block \in p.made /\ ~IsFree(storage[s].block, p)
        /\ b \in p.made /\ ~IsFree(b, p)
    BY AllocationIsFresh
  <2>2. Bind(t, FALSE, made, p, mem, Junk)
    BY <1>1
  <2> HIDE DEF b, p
  <2>3. made \in StorageType /\ made.block = b /\ ~made.readOnly /\ b # None
    BY <2>1 DEF Memory, StorageType, Blocks
  <2>4. mem[b] = Junk /\ mem \in [Blocks -> Values \cup {Junk}] /\ Junk \in Values \cup {Junk}
    BY <2>1, InvParts DEF Tidy, Blocks
  <2>5. /\ \A s \in Live : storage[s].block # b
        /\ \A k \in Kernels : kernel[k].shared => kernel[k].source # b
    BY <2>1, InvParts DEF InUse, UsedBy
  <2>6. /\ ~Bound(t) /\ FALSE \in BOOLEAN
        /\ Become([tensor EXCEPT ![t] = [storage |-> New, immutable |-> FALSE]], [storage EXCEPT ![New] = made],
                  kernel, p, mem, [expected EXCEPT ![New] = Junk])
    BY <2>2 DEF Bind
  <2> HIDE DEF made
  <2>7. Sound([tensor EXCEPT ![t] = [storage |-> New, immutable |-> FALSE]], [storage EXCEPT ![New] = made],
              kernel, p, mem, [expected EXCEPT ![New] = Junk])
    BY <2>1, <2>3, <2>4, <2>5, <2>6, BindIsSound
  <2> QED BY <2>6, <2>7, BecomeKeeps
<1>2. ASSUME Bind(t, FALSE, Memory(None, FALSE), pool, mem, Junk)
      PROVE  MemoryInv'
  <2> DEFINE made == Memory(None, FALSE)
  <2>1. made \in StorageType /\ made.block = None /\ ~made.readOnly /\ None \notin PoolBlocks
    BY DEF Memory, StorageType, Blocks
  <2>2. /\ ~Bound(t) /\ FALSE \in BOOLEAN
        /\ Become([tensor EXCEPT ![t] = [storage |-> New, immutable |-> FALSE]], [storage EXCEPT ![New] = made],
                  kernel, pool, mem, [expected EXCEPT ![New] = Junk])
    BY <1>2 DEF Bind
  <2>3. /\ pool \in [made : SUBSET PoolBlocks, free : Seq(PoolBlocks)] /\ IsInjective(pool.free)
        /\ \A i \in DOMAIN pool.free : pool.free[i] \in pool.made
        /\ \A s \in Live : storage[s].block \in PoolBlocks =>
             storage[s].block \in pool.made /\ ~IsFree(storage[s].block, pool)
    BY InvParts DEF PoolSound, Live
  <2>4. \A k \in Kernels : kernel[k].shared => kernel[k].source # None
    BY InvParts DEF KernelsSound, Blocks
  <2>5. mem \in [Blocks -> Values \cup {Junk}] /\ Junk \in Values \cup {Junk}
    BY InvParts
  <2> HIDE DEF made
  <2>6. Sound([tensor EXCEPT ![t] = [storage |-> New, immutable |-> FALSE]], [storage EXCEPT ![New] = made],
              kernel, pool, mem, [expected EXCEPT ![New] = Junk])
    BY <2>1, <2>2, <2>3, <2>4, <2>5, BindIsSound
  <2> QED BY <2>2, <2>6, BecomeKeeps
<1> QED BY <1>1, <1>2 DEF Create

LEMMA HeapBindKeeps ==
  ASSUME MemoryInv, NEW t \in Tensors, NEW immutable \in BOOLEAN, NEW readOnly \in BOOLEAN,
         NEW b \in FreeHeap, NEW v \in Values,
         Bind(t, immutable, Memory(b, readOnly), pool, [mem EXCEPT ![b] = v], v)
  PROVE  MemoryInv'
<1>1. /\ ~Bound(t)
      /\ Become([tensor EXCEPT ![t] = [storage |-> New, immutable |-> immutable]],
                [storage EXCEPT ![New] = Memory(b, readOnly)], kernel, pool, [mem EXCEPT ![b] = v],
                [expected EXCEPT ![New] = v])
  BY DEF Bind
<1>2. Sound([tensor EXCEPT ![t] = [storage |-> New, immutable |-> immutable]],
            [storage EXCEPT ![New] = Memory(b, readOnly)], kernel, pool, [mem EXCEPT ![b] = v],
            [expected EXCEPT ![New] = v])
  BY <1>1, HeapBindIsSound
<1> QED BY <1>1, <1>2, BecomeKeeps

LEMMA FreezeKeeps ==
  ASSUME MemoryInv, NEW t \in Tensors, NEW u \in Tensors, Freeze(t, u)
  PROVE  MemoryInv'
<1> DEFINE s == tensor[u].storage
           mark == tensor[u].immutable
           v == mem[storage[s].block]
<1>1. s \in Live /\ mark \in BOOLEAN /\ storage[s].block \in Blocks /\ v \in Values
  BY InvParts DEF Freeze, HasMemory, Address, StorageType, TensorType
<1>2. CASE storage[s].readOnly /\ Bind(t, mark, storage[s], pool, mem, v)
  <2>1. /\ ~Bound(t) /\ storage[s].readOnly
        /\ Become([tensor EXCEPT ![t] = [storage |-> New, immutable |-> mark]],
                  [storage EXCEPT ![New] = storage[s]], kernel, pool, mem, [expected EXCEPT ![New] = v])
    BY <1>2 DEF Bind
  <2> HIDE DEF s, mark
  <2>2. Sound([tensor EXCEPT ![t] = [storage |-> New, immutable |-> mark]],
              [storage EXCEPT ![New] = storage[s]], kernel, pool, mem, [expected EXCEPT ![New] = v])
    BY <1>1, <2>1, ShareIsSound
  <2> HIDE DEF v
  <2> QED BY <2>1, <2>2, BecomeKeeps
<1>3. CASE \E b \in FreeHeap : Bind(t, mark, Memory(b, TRUE), pool, [mem EXCEPT ![b] = v], v)
  <2>1. PICK b \in FreeHeap : Bind(t, mark, Memory(b, TRUE), pool, [mem EXCEPT ![b] = v], v)
    BY <1>3
  <2>2. TRUE \in BOOLEAN
    OBVIOUS
  <2> HIDE DEF s, mark, v
  <2> QED BY <1>1, <2>1, <2>2, HeapBindKeeps
<1> QED BY <1>2, <1>3 DEF Freeze

-------------------------------------------------------------------------------
LEMMA DeallocateAllKeeps ==
  ASSUME MemoryInv, DeallocateAll
  PROVE  MemoryInv'
<1>1. /\ tensor' = tensor /\ storage' = storage /\ kernel' = kernel /\ mem' = mem /\ expected' = expected
      /\ pool' = [made |-> {}, free |-> <<>>] /\ \A b \in pool.made : IsFree(b, pool)
  BY DEF DeallocateAll, Occupied
<1>2. PoolSound(tensor', storage', pool')
  <2>1. pool' \in [made : SUBSET PoolBlocks, free : Seq(PoolBlocks)] /\ IsInjective(pool'.free) /\ DOMAIN pool'.free = {}
    BY <1>1 DEF IsInjective
  <2>2. \A s \in Live : storage[s].block \notin PoolBlocks
    BY <1>1, InvParts DEF PoolSound, Live
  <2> QED BY <1>1, <2>1, <2>2 DEF PoolSound, Live
<1>3. Tidy'
  <2>1. Live' = Live /\ InUse' = InUse
    BY <1>1 DEF Live, LiveIn, InUse, UsedBy
  <2> QED BY <1>1, <2>1, InvParts DEF Tidy
<1> QED BY <1>1, <1>2, <1>3 DEF MemoryInv, Sound

LEMMA MemoryInit == Init => MemoryInv
<1> SUFFICES ASSUME Init PROVE MemoryInv
  OBVIOUS
<1>1. Live = {} /\ LiveIn(tensor) = {}
  BY DEF Init, Live, LiveIn, NoTensor
<1>2. Types(tensor, storage, kernel, mem, expected)
  BY DEF Init, Types, NoTensor, Unused, Memory, Unpacked
<1>3. GroupsSound(tensor, storage, mem, expected) /\ KernelsSound(tensor, storage, kernel, mem, expected)
  BY <1>1 DEF Init, GroupsSound, KernelsSound, Unpacked
<1>4. PoolSound(tensor, storage, pool)
  BY <1>1 DEF Init, PoolSound, IsInjective
<1>5. Tidy
  BY <1>1 DEF Init, Tidy, Unpacked
<1> QED BY <1>2, <1>3, <1>4, <1>5 DEF MemoryInv, Sound

(* Every call keeps the invariant. *)
LEMMA MemoryStep == MemoryInv /\ [Next]_vars => MemoryInv'
<1> SUFFICES ASSUME MemoryInv, [Next]_vars PROVE MemoryInv'
  OBVIOUS
<1>1. ASSUME NEW t \in Tensors, NEW v \in Values, MapWeight(t, v)
      PROVE  MemoryInv'
  <2>1. PICK b \in FreeHeap : Bind(t, TRUE, Memory(b, TRUE), pool, [mem EXCEPT ![b] = v], v)
    BY <1>1 DEF MapWeight
  <2> QED BY <2>1, HeapBindKeeps
<1>2. ASSUME NEW t \in Tensors, NEW v \in Values, NEW mark \in BOOLEAN, Assign(t, v, mark)
      PROVE  MemoryInv'
  <2>1. PICK b \in FreeHeap : Bind(t, mark, Memory(b, FALSE), pool, [mem EXCEPT ![b] = v], v)
    BY <1>2 DEF Assign
  <2> QED BY <2>1, HeapBindKeeps
<1>3. CASE \E t \in Tensors : Create(t) \/ Clear(t)
  BY <1>3, CreateKeeps, ClearKeeps
<1>4. CASE \E t \in Tensors, v \in Values : MapWeight(t, v) \/ Assign(t, v, TRUE) \/ Assign(t, v, FALSE)
  BY <1>1, <1>2, <1>4
<1>5. CASE \E t, u \in Tensors : ShareDataWith(t, u) \/ Freeze(t, u) \/ SwapStorage(t, u)
  BY <1>5, ShareDataWithKeeps, FreezeKeeps, SwapStorageKeeps
<1>6. CASE \E t \in Tensors, v \in Values \cup {None} : mutable_data(t, v)
  BY <1>6, WriteKeeps
<1>7. CASE \E k \in Kernels, t \in Tensors : Pack(k, t)
  BY <1>7, PackKeeps
<1>8. CASE \E k \in Kernels : Drop(k)
  BY <1>8, DropKeeps
<1>9. CASE DeallocateAll
  BY <1>9, DeallocateAllKeeps
<1>10. CASE UNCHANGED vars
  BY <1>10 DEF vars, MemoryInv, Sound, Types, GroupsSound, KernelsSound, PoolSound, Tidy, Live, LiveIn,
               InUse, UsedBy, IsFree
<1> QED BY <1>3, <1>4, <1>5, <1>6, <1>7, <1>8, <1>9, <1>10 DEF Next

LEMMA MemoryInvariant == Spec => []MemoryInv
BY MemoryInit, MemoryStep, PTL DEF Spec

-------------------------------------------------------------------------------
(* For any number of tensors, kernels, blocks and values: every variable keeps
   its type, a free block is listed once, and the blocks the pool has lent are
   those that a tensor reaches (tensor.h, buffer.cc, buffer_pool.cc). *)
THEOREM MemoryTypes == Spec => []TypeOK
<1>1. MemoryInv => TypeOK
  <2> SUFFICES ASSUME MemoryInv PROVE TypeOK
    OBVIOUS
  <2>1. /\ pool \in [made : SUBSET PoolBlocks, free : Seq(PoolBlocks)]
        /\ IsInjective(pool.free) /\ \A i \in DOMAIN pool.free : pool.free[i] \in pool.made
        /\ \A s \in Live : storage[s].block \in PoolBlocks =>
             storage[s].block \in pool.made /\ ~IsFree(storage[s].block, pool)
    BY InvParts DEF PoolSound, Live
  <2>2. ASSUME NEW b \in InUse \cap PoolBlocks PROVE b \in Occupied
    <3>1. CASE \E s \in Live : b = storage[s].block
      BY <2>1, <3>1 DEF Occupied
    <3>2. CASE \E k \in Kernels : kernel[k].shared /\ b = kernel[k].source
      BY <2>2, <3>2, InvParts DEF KernelsSound
    <3> QED BY <3>1, <3>2 DEF InUse, UsedBy, Live
  <2>3. ASSUME NEW b \in Occupied PROVE b \in InUse \cap PoolBlocks
    BY <2>1, <2>3, InvParts DEF Occupied, Tidy
  <2>4. Occupied = InUse \cap PoolBlocks
    BY <2>2, <2>3
  <2>5. Range(pool.free) \subseteq pool.made
    BY <2>1 DEF Range
  <2> QED BY <2>1, <2>4, <2>5, InvParts DEF TypeOK, TensorType, StorageType, KernelType
<1> QED BY <1>1, MemoryInvariant, PTL

(* Whoever shares, swaps, freezes, copies on write or returns memory, the views
   of a group read what was last written through one of them. *)
THEOREM GroupsKeepValues == Spec => []GroupsKeepTheirValues
<1>1. MemoryInv => GroupsKeepTheirValues
  BY InvParts DEF GroupsKeepTheirValues, GroupsSound, Live
<1> QED BY <1>1, MemoryInvariant, PTL

(* No reuse of an address and no write makes a kernel take a packing of other
   bytes than the weight has now. *)
THEOREM PackedWeightsAreCurrent == Spec => []PackedWeightIsCurrent
<1>1. MemoryInv => PackedWeightIsCurrent
  <2> SUFFICES ASSUME MemoryInv, NEW k \in Kernels, NEW t \in Tensors, HasMemory(t),
                      Matches(k, t) \/ (Shareable(t) /\ k \in Holders(t))
               PROVE  kernel[k].data = expected[tensor[t].storage]
    BY DEF PackedWeightIsCurrent
  <2>1. /\ tensor[t].storage \in Live /\ Address(t) # None
        /\ mem[Address(t)] = expected[tensor[t].storage]
    BY InvParts DEF HasMemory, Address, GroupsSound, Live
  <2>2. CASE Matches(k, t)
    BY <2>1, <2>2, InvParts DEF Matches, KernelsSound, Live
  <2>3. CASE k \in Holders(t)
    BY <2>1, <2>3, InvParts DEF Holders, KernelsSound
  <2> QED BY <2>2, <2>3
<1> QED BY <1>1, MemoryInvariant, PTL
===============================================================================
