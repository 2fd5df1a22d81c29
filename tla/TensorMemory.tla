----------------------------- MODULE TensorMemory -----------------------------
(* Host memory below the sessions: a tensor is a view of a Storage, the alias
   group; a Storage has a Buffer, which keeps a block of the pool or of the heap
   alive; read-only Buffers are shared by the Storages of several sessions and
   copied before the first write; kernels keep packed weights, shared through a
   weak cache that is keyed by address.

   All views of a Storage are of the whole of it.  Ownership is counted, so a
   block is in use exactly while a tensor or a shared packing reaches it, and the
   last owner returns it within the same call.  The pool, the cache and the copy
   hold a mutex each, and a session's own objects are used by one thread at a
   time, so calls of several sessions are steps. *)
EXTENDS Integers, Sequences, FiniteSets, Functions

CONSTANTS
  Tensors,      \* variables of the program that hold a Tensor
  Kernels,      \* kernels that keep a packed weight
  Storages,     \* identities a Storage can have
  PoolBlocks, HeapBlocks,   \* addresses
  Values, Junk, None

(* One identity more than tensors: a new Storage always has one. *)
ASSUME StoragesAssumption == IsFiniteSet(Tensors) /\ Storages = 1..(Cardinality(Tensors) + 1)
ASSUME BlocksAssumption ==
  /\ IsFiniteSet(PoolBlocks) /\ PoolBlocks \cap HeapBlocks = {}
  /\ None \notin PoolBlocks \cup HeapBlocks \cup Storages
ASSUME ValuesAssumption == Junk \notin Values /\ None \notin Values

VARIABLES
  tensor,     \* Tensor: the storage and the immutable mark
  storage,    \* Storage: the memory of its Buffer, if it has one yet
  kernel,     \* the packed weight of each kernel and what it was packed from
  pool,       \* BufferPool: all blocks it has made and the free list
  mem,        \* the bytes
  expected    \* what the views of each storage have written, or it began with

vars == <<tensor, storage, kernel, pool, mem, expected>>

Blocks == PoolBlocks \cup HeapBlocks
NoTensor == [storage |-> None, immutable |-> FALSE]
(* block is None while the allocation is deferred *)
Memory(b, readOnly) == [block |-> b, readOnly |-> readOnly]
Unused == Memory(None, FALSE)
Unpacked == [source |-> None, version |-> None, shared |-> FALSE, data |-> Junk]

Bound(t) == tensor[t].storage # None
LiveIn(tn) == {tn[t].storage : t \in Tensors} \ {None}
(* The blocks that a storage, or a packing that others may take, retains. *)
BugUsedBy(tn, st, kn) == {st[s].block : s \in LiveIn(tn)}
UsedBy(tn, st, kn) ==
  {st[s].block : s \in LiveIn(tn)} \cup {kn[k].source : k \in {j \in Kernels : kn[j].shared}}
Live == LiveIn(tensor)
InUse == UsedBy(tensor, storage, kernel)
FreeHeap == HeapBlocks \ InUse
IsFree(b, p) == \E i \in DOMAIN p.free : p.free[i] = b
Occupied == {b \in pool.made : ~IsFree(b, pool)}

Address(t) == storage[tensor[t].storage].block
HasMemory(t) == Bound(t) /\ Address(t) # None
New == CHOOSE s \in Storages : s \notin Live

(* ------------------------- what every call leaves ------------------------- *)

(* A version is never given twice, so a kernel's stands for one storage until
   the storage is written to or gone; a private packing then matches nothing. *)
Outdated(kn, gone) ==
  [k \in Kernels |-> IF kn[k].version \notin gone THEN kn[k]
                     ELSE IF kn[k].shared THEN [kn[k] EXCEPT !.version = None] ELSE Unpacked]

(* release_block, by the deleters of the Buffers that nobody owns any more. *)
BugReleased(p, used) ==
  LET given == p.made \ used
  IN  {[p EXCEPT !.free = order \o @] : order \in Bijection(1..Cardinality(given), given)}
Released(p, used) ==
  LET given == {b \in p.made \ used : ~IsFree(b, p)}
  IN  {[p EXCEPT !.free = order \o @] : order \in Bijection(1..Cardinality(given), given)}

(* The tensors, storages, kernels and bytes become these; what is unreachable
   by then is gone. *)
Become(tn, st, kn, p, bytes, ex) ==
  /\ tensor' = tn
  /\ storage' = [s \in Storages |-> IF s \in LiveIn(tn) THEN st[s] ELSE Unused]
  /\ kernel' = Outdated(kn, Storages \ LiveIn(tn))
  /\ pool' \in Released(p, UsedBy(tn, st, kn))
  /\ mem' = [b \in Blocks |-> IF b \in UsedBy(tn, st, kn) THEN bytes[b] ELSE Junk]
  /\ expected' = [s \in Storages |-> IF s \in LiveIn(tn) THEN ex[s] ELSE Junk]

(* t is bound to a new Storage that begins with v; it is cleared before that. *)
Bind(t, immutable, made, p, bytes, v) ==
  /\ ~Bound(t)
  /\ Become([tensor EXCEPT ![t] = [storage |-> New, immutable |-> immutable]],
            [storage EXCEPT ![New] = made], kernel, p, bytes, [expected EXCEPT ![New] = v])

-------------------------------------------------------------------------------
Init ==
  /\ tensor = [t \in Tensors |-> NoTensor]
  /\ storage = [s \in Storages |-> Unused]
  /\ kernel = [k \in Kernels |-> Unpacked]
  /\ pool = [made |-> {}, free |-> <<>>]
  /\ mem = [b \in Blocks |-> Junk]
  /\ expected = [s \in Storages |-> Junk]

(* BufferPool::allocate: the block released last, or a new one. *)
Allocations ==
  IF pool.free # <<>> THEN {<<Head(pool.free), [pool EXCEPT !.free = Tail(@)]>>}
  ELSE {<<b, [pool EXCEPT !.made = @ \cup {b}]>> : b \in PoolBlocks \ pool.made}

(* A new tensor, with memory of the pool or none yet. *)
Create(t) ==
  \/ \E x \in Allocations : Bind(t, FALSE, Memory(x[1], FALSE), x[2], mem, Junk)
  \/ Bind(t, FALSE, Memory(None, FALSE), pool, mem, Junk)

(* CreateTensorView: a weight in a mapped file. *)
MapWeight(t, v) ==
  \E b \in FreeHeap : Bind(t, TRUE, Memory(b, TRUE), pool, [mem EXCEPT ![b] = v], v)

(* A session's tensor over an alias group it has. *)
ShareDataWith(t, u) ==
  ~Bound(t) /\ Bound(u) /\ Become([tensor EXCEPT ![t] = tensor[u]], storage, kernel, pool, mem, expected)

(* FrozenBytes: the plan keeps u's bytes, in place if nobody can write them, and
   a session's own group begins with them. *)
Freeze(t, u) ==
  LET held == storage[tensor[u].storage]
      v == mem[held.block]
  IN  /\ HasMemory(u) /\ v # Junk
      /\ \/ held.readOnly /\ Bind(t, tensor[u].immutable, held, pool, mem, v)
         \/ /\ ~held.readOnly
            /\ \E b \in FreeHeap : Bind(t, tensor[u].immutable, Memory(b, TRUE), pool, [mem EXCEPT ![b] = v], v)

(* Assign to a tensor without storage, which its maker may then mark. *)
Assign(t, v, mark) ==
  \E b \in FreeHeap : Bind(t, mark, Memory(b, FALSE), pool, [mem EXCEPT ![b] = v], v)

(* clear, or the end of the tensor: a mark that is left is one Assign may set. *)
Clear(t) == Bound(t) /\ Become([tensor EXCEPT ![t] = NoTensor], storage, kernel, pool, mem, expected)

(* SwapStorage keeps the marks of the tensors. *)
SwapStorage(t, u) ==
  /\ Bound(t) /\ Bound(u) /\ t # u
  /\ Become([tensor EXCEPT ![t].storage = tensor[u].storage, ![u].storage = tensor[t].storage],
            storage, Outdated(kernel, {tensor[t].storage, tensor[u].storage}), pool, mem, expected)

(* Storage::MakeWritable copies a read-only Buffer for all views of the group at
   once, and makes an allocation that was deferred. *)
BugMakeWritable(s) ==
  IF storage[s].block # None THEN {<<[storage EXCEPT ![s].readOnly = FALSE], mem>>}
  ELSE {<<[storage EXCEPT ![s] = Memory(b, FALSE)], mem>> : b \in FreeHeap}
MakeWritable(s) ==
  IF storage[s].block # None /\ ~storage[s].readOnly THEN {<<storage, mem>>}
  ELSE {<<[storage EXCEPT ![s] = Memory(b, FALSE)],
          [mem EXCEPT ![b] = IF storage[s].readOnly THEN mem[storage[s].block] ELSE Junk]>> : b \in FreeHeap}

(* mutable_data and the write that follows, of every byte or (None) of none. *)
mutable_data(t, v) ==
  LET s == tensor[t].storage IN
  /\ Bound(t)
  /\ \E x \in MakeWritable(s) :
       LET old == x[2][x[1][s].block]
           new == IF v = None THEN old ELSE v
       IN  Become([tensor EXCEPT ![t].immutable = @ /\ ~storage[s].readOnly], x[1], Outdated(kernel, {s}), pool,
                  [x[2] EXCEPT ![x[1][s].block] = new], [expected EXCEPT ![s] = IF v = None THEN @ ELSE v])

(* ---------------------------- packed weights ----------------------------- *)

Matches(k, t) == kernel[k].source = Address(t) /\ kernel[k].version = tensor[t].storage
Shareable(t) == tensor[t].immutable /\ storage[tensor[t].storage].readOnly
(* The cache's entry for this address, which lives while a kernel has it. *)
Holders(t) == {k \in Kernels : kernel[k].shared /\ kernel[k].source = Address(t)}

(* Pack, before a kernel multiplies by t: the packing it has, the cache's, or a
   new one. *)
AcquirePackedWeight(k, t) ==
  LET own == IF Matches(k, t) THEN kernel[k] ELSE [Unpacked EXCEPT !.data = mem[Address(t)]]
      found == IF Shareable(t) /\ Holders(t) # {} THEN kernel[CHOOSE j \in Holders(t) : TRUE] ELSE own
  IN  [source |-> Address(t), version |-> tensor[t].storage, shared |-> Shareable(t) \/ found.shared,
       data |-> found.data]
Pack(k, t) ==
  /\ HasMemory(t)
  /\ Become(tensor, storage, [kernel EXCEPT ![k] = AcquirePackedWeight(k, t)], pool, mem, expected)

(* The kernel is destroyed with its session. *)
Drop(k) ==
  kernel[k] # Unpacked /\ Become(tensor, storage, [kernel EXCEPT ![k] = Unpacked], pool, mem, expected)

(* deallocate_all refuses while a block is out. *)
DeallocateAll ==
  /\ pool.made # {} /\ Occupied = {}
  /\ pool' = [made |-> {}, free |-> <<>>]
  /\ UNCHANGED <<tensor, storage, kernel, mem, expected>>

Next ==
  \/ \E t \in Tensors : Create(t) \/ Clear(t)
  \/ \E t \in Tensors, v \in Values : MapWeight(t, v) \/ Assign(t, v, TRUE) \/ Assign(t, v, FALSE)
  \/ \E t, u \in Tensors : ShareDataWith(t, u) \/ Freeze(t, u) \/ SwapStorage(t, u)
  \/ \E t \in Tensors, v \in Values \cup {None} : mutable_data(t, v)
  \/ \E k \in Kernels, t \in Tensors : Pack(k, t)
  \/ \E k \in Kernels : Drop(k)
  \/ DeallocateAll
Spec == Init /\ [][Next]_vars

-------------------------------------------------------------------------------
(* Types, and the pool's own order: a free block is of the pool, listed once and
   used by nobody, and every block that is not free is used. *)
TypeOK ==
  /\ tensor \in [Tensors -> [storage : Storages \cup {None}, immutable : BOOLEAN]]
  /\ storage \in [Storages -> [block : Blocks \cup {None}, readOnly : BOOLEAN]]
  /\ kernel \in [Kernels -> [source : Blocks \cup {None}, version : Storages \cup {None},
                             shared : BOOLEAN, data : Values \cup {Junk}]]
  /\ mem \in [Blocks -> Values \cup {Junk}]
  /\ IsInjective(pool.free) /\ Range(pool.free) \subseteq pool.made
  /\ Occupied = InUse \cap PoolBlocks

(* Views of one alias group see what was written through any of them and nothing
   else: no other session's writes to a weight they share, and no other owner of
   the same block (docs/execution_architecture.md:33, docs/runtime_safety.md:7). *)
GroupsKeepTheirValues ==
  \A s \in Live : storage[s].block # None => mem[storage[s].block] = expected[s]

(* A kernel that would multiply by a packing it has, or finds in the shared
   cache, multiplies by the weight's present value, although addresses are
   reused and groups are swapped, copied and written between the calls
   (docs/execution_architecture.md:111). *)
PackedWeightIsCurrent ==
  \A k \in Kernels, t \in Tensors :
    /\ HasMemory(t)
    /\ Matches(k, t) \/ (Shareable(t) /\ k \in Holders(t))
    => kernel[k].data = expected[tensor[t].storage]

-------------------------------------------------------------------------------
(* The strengthening under which the properties above are inductive: first what
   every call asks of the state it makes, then what Become adds to it. *)

Types(tn, st, kn, bytes, ex) ==
  /\ tn \in [Tensors -> [storage : Storages \cup {None}, immutable : BOOLEAN]]
  /\ st \in [Storages -> [block : Blocks \cup {None}, readOnly : BOOLEAN]]
  /\ kn \in [Kernels -> [source : Blocks \cup {None}, version : Storages \cup {None},
                         shared : BOOLEAN, data : Values \cup {Junk}]]
  /\ bytes \in [Blocks -> Values \cup {Junk}]
  /\ ex \in [Storages -> Values \cup {Junk}]

(* A group's memory holds what it should, and only read-only memory has two groups. *)
GroupsSound(tn, st, bytes, ex) ==
  \A s \in LiveIn(tn) :
    /\ st[s].block = None => ex[s] = Junk
    /\ st[s].block # None => bytes[st[s].block] = ex[s]
    /\ st[s].readOnly => st[s].block \in HeapBlocks
    /\ \A q \in LiveIn(tn) : q # s /\ st[q].block = st[s].block /\ st[s].block # None => st[s].readOnly

(* A shared packing is of bytes that nobody can write; a version stands for the
   present value of its storage. *)
KernelsSound(tn, st, kn, bytes, ex) ==
  \A k \in Kernels :
    /\ kn[k].shared => /\ kn[k].source \in HeapBlocks /\ bytes[kn[k].source] = kn[k].data
                       /\ \A s \in LiveIn(tn) : st[s].block = kn[k].source => st[s].readOnly
    /\ kn[k].version \in LiveIn(tn) => kn[k].data = ex[kn[k].version]

(* A block that a storage has is not on the free list. *)
PoolSound(tn, st, p) ==
  /\ p \in [made : SUBSET PoolBlocks, free : Seq(PoolBlocks)]
  /\ IsInjective(p.free) /\ \A i \in DOMAIN p.free : p.free[i] \in p.made
  /\ \A s \in LiveIn(tn) : st[s].block \in PoolBlocks => st[s].block \in p.made /\ ~IsFree(st[s].block, p)

Sound(tn, st, kn, p, bytes, ex) ==
  /\ Types(tn, st, kn, bytes, ex) /\ GroupsSound(tn, st, bytes, ex)
  /\ KernelsSound(tn, st, kn, bytes, ex) /\ PoolSound(tn, st, p)

(* Nothing is left of what is gone. *)
Tidy ==
  /\ \A k \in Kernels : kernel[k].version \in Live \cup {None}
  /\ \A b \in Blocks \ InUse : mem[b] = Junk
  /\ \A b \in pool.made \ InUse : IsFree(b, pool)

MemoryInv == Sound(tensor, storage, kernel, pool, mem, expected) /\ Tidy
===============================================================================
