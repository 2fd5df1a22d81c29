----------------------------- MODULE DeviceCache ------------------------------
(* The device copies of tensors that one CUDA execution context keeps: the
   index of replicas, the pool of memory blocks and the captures, with host
   reads deferred.  Every call holds the context's mutex, so a call is a step.
   A place is a cell of a host storage or of a block; copy says which cells'
   latest values a place holds, so that a write takes its cells away from every
   other place.  Blocks are of one size class. *)
EXTENDS Integers, FiniteSets, SequencesExt

CONSTANTS
  Blocks, Leases,
  BlockCells,       \* cells in a block
  Layouts,          \* functions from tensors to the parts of storages they are
  States,           \* tensors that carry state from run to run
  WorkspaceLimit,   \* blocks a kernel may borrow at once
  MaxExports(_),    \* bound, by layout: blocks held by outsiders at once
  MaxCalls(_),      \* bound, by layout: calls that one capture records
  None

\* Host storages are no blocks; the size class of the blocks fits every tensor.
ASSUME DeviceAssumption ==
  /\ IsFiniteSet(Blocks) /\ None \notin Blocks /\ BlockCells \in Nat
  /\ \A l \in Layouts :
       /\ States \subseteq DOMAIN l
       /\ \A t \in DOMAIN l : l[t].storage \notin Blocks /\ l[t].offset \in Nat /\ l[t].bytes \in 1..BlockCells

VARIABLES
  view,      \* the part of a storage that each tensor is; it never changes
  cache,     \* what a snapshot covers: replicas, handles, persistent handles, pool
  exported,  \* blocks whose Storage somebody outside the context holds
  saved,     \* the snapshot while a capture records, else nothing
  recorded,  \* the blocks that the recording capture has used
  lease,     \* for each live capture the blocks it pins
  copy,      \* for each place the cells whose latest value it holds
  void,      \* cells without a defined value until they are written again
  lost       \* cells whose latest value the cache lost and takes an older copy for

vars == <<view, cache, exported, saved, recorded, lease, copy, void, lost>>

Tensors == DOMAIN view
Recording == saved # <<>>
CellsOf(v) == {<<v.storage, v.offset + i>> : i \in 0..v.bytes - 1}
Cells == UNION {CellsOf(view[t]) : t \in Tensors}
Overlaps(v, w) == CellsOf(v) \cap CellsOf(w) # {}
Covers(v, w) == CellsOf(w) \subseteq CellsOf(v)

(* ------------------------------ the replicas ------------------------------ *)

Present(c) == DOMAIN c.replica
Block(c, v) == c.replica[v].block
Held(c) == {Block(c, v) : v \in Present(c)} \ {None}
Sharing(c, v) == {w \in Present(c) \ {v} : Block(c, w) = Block(c, v)}
Persistent(c, v) == \E t \in c.handle \cap c.keep : view[t] = v
Usable(c, v) == v \in Present(c) /\ c.replica[v].device /\ c.replica[v].current
(* The device alone has the value of the view. *)
Pending(c, v) == Usable(c, v) /\ ~c.replica[v].host

Empty == [block |-> None, device |-> FALSE, host |-> TRUE, current |-> FALSE]
Bind(c, t) ==
  [c EXCEPT !.handle = @ \cup {t},
            !.replica = [v \in DOMAIN @ \cup {view[t]} |-> IF v \in DOMAIN @ THEN @[v] ELSE Empty]]
(* The device has the latest value, the host maybe; or the host alone has. *)
Mark(c, v, host) == [c EXCEPT !.replica[v] = [block |-> @.block, device |-> TRUE, host |-> host, current |-> TRUE]]
Invalid(r) == [Empty EXCEPT !.block = r.block]
Invalidate(c, v) == [c EXCEPT !.replica[v] = Invalid(@)]
(* A new version of a storage leaves all its replicas behind. *)
Outdate(c, storage) ==
  [c EXCEPT !.replica = [v \in DOMAIN @ |-> IF v.storage = storage THEN [@[v] EXCEPT !.current = FALSE] ELSE @[v]]]
(* The last handle of a view takes the replica with it. *)
IsLast(c, t) == \A u \in c.handle \ {t} : view[u] # view[t]
BugEraseHandle(c, t) ==
  [c EXCEPT !.handle = @ \ {t}, !.replica = [v \in DOMAIN @ \ {view[t]} |-> @[v]]]
EraseHandle(c, t) ==
  [c EXCEPT !.handle = @ \ {t},
            !.replica = [v \in DOMAIN @ \ (IF IsLast(c, t) THEN {view[t]} ELSE {}) |-> @[v]]]

(* ------------------------------- the blocks ------------------------------- *)

Pinned == UNION {lease[l] : l \in Leases}
Record(bs) ==
  IF Recording
  THEN /\ saved.calls < MaxCalls(view)
       /\ saved' = [saved EXCEPT !.calls = @ + 1] /\ recorded' = recorded \cup bs
  ELSE UNCHANGED <<saved, recorded>>

BugReleaseBlock(c, v) ==
  LET b == Block(c, v) IN
  [c EXCEPT !.replica[v] = Empty,
            !.free = IF b # None /\ Sharing(c, v) = {} /\ b \notin exported THEN Append(@, b) ELSE @]
ReleaseBlock(c, v) ==
  LET b == Block(c, v)
      pooled == b # None /\ Sharing(c, v) = {} /\ b \notin exported \cup Pinned
  IN  [c EXCEPT !.replica[v] = Empty, !.free = IF pooled THEN Append(@, b) ELSE @]

(* The pool without the blocks bs, in its order. *)
Without(free, bs) ==
  {rest \in SetToSeqs(ToSet(free) \ bs) :
     \A i, j \in DOMAIN rest : i < j => \A k, l \in DOMAIN free : free[k] = rest[i] /\ free[l] = rest[j] => k < l}

(* Every way to get a block: the last one freed, or a new one of the driver's. *)
Allocate(c) ==
  IF c.free # <<>> THEN {[block |-> Last(c.free), cache |-> [c EXCEPT !.free = Front(@)]]}
  ELSE {[block |-> b, cache |-> [c EXCEPT !.owned = @ \cup {b}]] : b \in Blocks \ (c.owned \cup exported \cup Pinned)}
Ensure(c, v) ==
  IF Block(c, v) # None THEN {c}
  ELSE {[x.cache EXCEPT !.replica[v].block = x.block] : x \in Allocate(c)}

(* ------------------------------- the values ------------------------------- *)

Host(v) == <<v.storage, v.offset>>
Device(c, v) == <<Block(c, v), 0>>
Get(m, at, v) == [i \in 0..v.bytes - 1 |-> m[<<at[1], at[2] + i>>]]
Put(m, at, contents) ==
  [p \in DOMAIN m |-> IF p[1] = at[1] /\ p[2] - at[2] \in DOMAIN contents THEN contents[p[2] - at[2]] ELSE m[p]]
(* New values of view v, written at one place only. *)
Renew(m, at, v) ==
  Put([p \in DOMAIN m |-> m[p] \ CellsOf(v)], at, [i \in 0..v.bytes - 1 |-> {<<v.storage, v.offset + i>>}])
(* View w takes over the values of view v: what held x's counterpart holds x. *)
Counterpart(v, w, x) == <<v.storage, v.offset + x[2] - w.offset>>
Follow(s, v, w) == (s \ CellsOf(w)) \cup {x \in CellsOf(w) : Counterpart(v, w, x) \in s}
Trade(s, v, w) == (Follow(s, v, w) \ CellsOf(v)) \cup {x \in CellsOf(v) : Counterpart(w, v, x) \in s}
OfAll(m, Op(_)) == [p \in DOMAIN m |-> Op(m[p])]

(* Cells without a defined value after a device write: those of views that
   borrow the block written to, and those that another view has pending; and
   after a view took over the values of another one. *)
Borrowed(c, v) == UNION {CellsOf(w) : w \in Sharing(c, v)}
Contested(c, v) == UNION {CellsOf(v) \cap CellsOf(w) : w \in {x \in Present(c) \ {v} : Pending(c, x)}}
Inherited(v, w) == (void \ CellsOf(w)) \cup (CellsOf(w) \cap Follow(void \cup Contested(cache, v), v, w))

(* Two views of one block have a place each for a cell that both are. *)
Entangled(c, v) == CellsOf(v) \cap Borrowed(c, v)

(* What the places hold after a step.  A host cell is read as itself, a block
   as the views that hold it; what nobody will look for is left out. *)
Readers(c, b) == {v \in Present(c) : Block(c, v) = b}
Values(m, c, undefined, older) ==
  /\ void' = undefined /\ lost' = older \ undefined
  /\ copy' = [p \in DOMAIN m |->
       (IF p[1] \in Blocks THEN m[p] \cap UNION {CellsOf(v) : v \in Readers(c, p[1])} ELSE m[p] \cap {p})
         \ (undefined \cup older)]

-------------------------------------------------------------------------------
Init ==
  /\ view \in Layouts
  /\ cache = [handle |-> {}, keep |-> {}, replica |-> [v \in {} |-> Empty], free |-> <<>>, owned |-> {}, lent |-> {}]
  /\ exported = {} /\ saved = <<>> /\ recorded = {}
  /\ lease = [l \in Leases |-> {}]
  /\ copy = [p \in Cells \cup (Blocks \X (0..BlockCells - 1)) |-> IF p \in Cells THEN {p} ELSE {}]
  /\ void = {} /\ lost = {}

(* AcquireTensorDevice: a kernel is about to read t. *)
Upload(t) ==
  LET v == view[t] IN
  \E c \in Ensure(Bind(cache, t), v) :
    /\ IF Usable(c, v)
       THEN cache' = c /\ UNCHANGED <<copy, void, lost>>
       ELSE /\ cache' = Mark(c, v, TRUE)
            /\ Values(Put(copy, Device(c, v), Get(copy, Host(v), v)), c, void \cup Borrowed(c, v), lost)
    /\ Record({Block(c, v)})
    /\ UNCHANGED <<view, exported, lease>>

(* AcquireOutputTensorDevice, and the kernel that writes t. *)
KernelWrite(t) ==
  LET v == view[t] IN
  \E c \in Ensure(Bind(cache, t), v) :
    /\ cache' = Mark(c, v, FALSE)
    /\ Values(Renew(copy, Device(c, v), v), c, (void \ CellsOf(v)) \cup Borrowed(c, v) \cup Contested(c, v),
              lost \ CellsOf(v))
    /\ Record({Block(c, v)})
    /\ UNCHANGED <<view, exported, lease>>

(* Either of them when the device has no block left: the handle stays bound. *)
OutOfMemory(t) ==
  /\ Ensure(Bind(cache, t), view[t]) = {}
  /\ cache' = Bind(cache, t)
  /\ Record({}) /\ UNCHANGED <<view, exported, lease, copy, void, lost>>

(* A host kernel or the caller writes t; callers that write while another view
   of the storage is pending are left out.  Graphs and sessions tell the cache. *)
NoOtherPending(c, t) == \A v \in Present(c) \ {view[t]} : v.storage = view[t].storage => ~Pending(c, v)
HostWrite(t, told) ==
  LET v == view[t]
      after == Outdate(cache, v.storage)
  IN  /\ NoOtherPending(cache, t)
      /\ Recording => told /\ NoOtherPending(saved.cache, t) /\ saved.calls < MaxCalls(view)
      /\ cache' = IF told /\ v \in Present(cache) THEN Invalidate(Bind(after, t), v) ELSE after
      /\ Values(Renew(copy, Host(v), v), cache', void \ CellsOf(v), lost \ CellsOf(v))
      /\ saved' = IF Recording
                  THEN [saved EXCEPT !.calls = @ + 1, !.cache = Outdate(@, v.storage), !.copy = Renew(@, Host(v), v),
                                      !.void = @ \ CellsOf(v), !.lost = @ \ CellsOf(v)]
                  ELSE saved
      /\ UNCHANGED <<view, exported, recorded, lease>>

(* SyncTensorToHostIfNeeded. *)
CanDownload(c, v) ==
  \A w \in Present(c) \ {v} :
    Pending(c, w) /\ Block(c, w) # Block(c, v) /\ Overlaps(v, w) => Covers(v, w)
BugRefresh(c, v) == c
Refresh(c, v) ==
  [c EXCEPT !.replica = [w \in DOMAIN @ |->
     IF w # v /\ @[w].current /\ Overlaps(v, w) /\ @[w].block # Block(c, v) THEN Invalid(@[w]) ELSE @[w]]]
NeedsDownload(c, v) == v \in Present(c) /\ c.replica[v].device /\ ~c.replica[v].host
ReadHost(t) ==
  LET v == view[t]
      c == Bind(cache, t)
  IN  /\ v \in Present(cache)
      /\ \/ /\ ~NeedsDownload(cache, v) \/ (Pending(cache, v) /\ ~CanDownload(cache, v))
            /\ cache' = c /\ UNCHANGED <<copy, void, lost>>
         \/ /\ NeedsDownload(cache, v) /\ ~cache.replica[v].current   \* the host has a newer value
            /\ cache' = Invalidate(c, v) /\ UNCHANGED <<copy, void, lost>>
         \/ /\ Pending(cache, v) /\ CanDownload(cache, v) /\ ~Recording
            /\ cache' = Mark(Refresh(c, v), v, TRUE)
            /\ Values(Put(copy, Host(v), Get(copy, Device(cache, v), v)), cache', void, lost)
      /\ Record({}) /\ UNCHANGED <<view, exported, lease>>

MarkPersistent(t, persistent) ==
  /\ ~Recording
  /\ cache' = [Bind(cache, t) EXCEPT !.keep = IF persistent THEN @ \cup {t} ELSE @ \ {t}]
  /\ UNCHANGED <<view, exported, saved, recorded, lease, copy, void, lost>>

(* A value only the device had is gone with its replica. *)
Dropped(t) == IF IsLast(cache, t) /\ Pending(cache, view[t]) THEN CellsOf(view[t]) ELSE {}

(* ReleaseTensorDevice: the graph has no use left for t in this run. *)
Release(t) ==
  LET v == view[t] IN
  /\ v \in Present(cache) /\ ~Persistent(cache, v)
  /\ cache' = EraseHandle(IF IsLast(cache, t) THEN ReleaseBlock(cache, v) ELSE cache, t)
  /\ Values(copy, cache', void \cup Dropped(t), lost)
  /\ Record({}) /\ UNCHANGED <<view, exported, lease>>

(* The last graph that uses t is gone; its block goes back to the driver. *)
Unregister(t) ==
  LET v == view[t]
      kept == {} # Sharing(cache, v) \/ Block(cache, v) \in exported
  IN  /\ ~Recording /\ t \in cache.handle
      /\ cache' = [EraseHandle(cache, t) EXCEPT
                     !.keep = @ \ {t},
                     !.owned = IF IsLast(cache, t) /\ ~kept THEN @ \ {Block(cache, v)} ELSE @]
      /\ Values(copy, cache', void \cup Dropped(t), lost)
      /\ UNCHANGED <<view, exported, saved, recorded, lease>>

(* AliasTensorDeviceStorage: t's value is s's, without a copy. *)
Alias(s, t) ==
  LET v == view[s]
      w == view[t]
      c == Bind(Bind(cache, s), t)
      d == IF Block(c, w) # Block(c, v) THEN ReleaseBlock(c, w) ELSE c
  IN  /\ s # t /\ v.bytes = w.bytes /\ Usable(cache, v)
      /\ cache' = Mark([d EXCEPT !.replica[w].block = Block(d, v)], w, FALSE)
      /\ Values(OfAll(copy, LAMBDA x : Follow(x, v, w)), cache',
                Inherited(v, w) \cup Contested(cache', w) \cup Entangled(cache', w), Follow(lost, v, w))
      /\ Record({Block(c, v)})
      /\ UNCHANGED <<view, exported, lease>>

(* CopyTensorStateOnDevice: state s takes the value of output o. *)
CopyState(s, o) ==
  LET v == view[s]
      w == view[o]
  IN  /\ ~Recording /\ s # o /\ v.bytes = w.bytes /\ Usable(cache, w)
      /\ \E c \in Ensure(Bind(Bind(cache, s), o), v) :
           LET m == OfAll(copy, LAMBDA x : Follow(x, w, v)) IN
           /\ cache' = Mark(c, v, FALSE)
           /\ Values(Put(m, Device(c, v), Get(m, Device(c, w), v)), cache',
                     Inherited(w, v) \cup Contested(c, v) \cup (IF w \in Sharing(c, v) THEN Entangled(c, v) ELSE Borrowed(c, v)),
                     Follow(lost, w, v))
      /\ UNCHANGED <<view, exported, saved, recorded, lease>>

(* AppendTensorStateOnDevice: the rows of s move up by one and o is the last. *)
AppendState(s, o) ==
  LET v == view[s]
      w == view[o]
  IN  /\ ~Recording /\ w.bytes < v.bytes /\ Usable(cache, w)
      /\ \E c \in Ensure(Bind(Bind(cache, s), o), v) :
           /\ cache' = Mark(c, v, FALSE)
           /\ Values(Renew(copy, Device(c, v), v), c, (void \ CellsOf(v)) \cup Borrowed(c, v) \cup Contested(c, v),
              lost \ CellsOf(v))
      /\ UNCHANGED <<view, exported, saved, recorded, lease>>

(* SwapTensorDeviceStorage asks for two valid device copies and not whether a
   host write has outdated them; it marks both as current.  What such a block
   does not hold of the latest value is lost. *)
Outdated(v) == IF Usable(cache, v) THEN {} ELSE {x \in CellsOf(v) : x \notin copy[<<Block(cache, v), x[2] - v.offset>>]}
SwapState(s, o) ==
  LET v == view[s]
      w == view[o]
      c == Bind(Bind(cache, s), o)
      both == IF Persistent(c, v) \/ Persistent(c, w) THEN {s, o} ELSE {}
  IN  /\ ~Recording /\ s # o /\ v.bytes = w.bytes
      /\ {v, w} \subseteq Present(cache) /\ cache.replica[v].device /\ cache.replica[w].device
      /\ cache' = Mark(Mark([c EXCEPT !.replica[v] = c.replica[w], !.replica[w] = c.replica[v], !.keep = @ \cup both],
                            v, FALSE), w, FALSE)
      /\ Values(OfAll(copy, LAMBDA x : Trade(x, v, w)), cache',
                Trade(void \cup Contested(c, v) \cup Contested(c, w), v, w) \cup Contested(cache', v) \cup Contested(cache', w)
                  \cup Entangled(cache', v) \cup Entangled(cache', w),
                Trade(lost \cup Outdated(v) \cup Outdated(w), v, w))
      /\ UNCHANGED <<view, exported, saved, recorded, lease>>

(* A kernel's scratch memory: AcquireTemporaryDeviceBuffer and its release. *)
Borrow ==
  /\ Cardinality(cache.lent) < WorkspaceLimit
  /\ \E x \in Allocate(cache) :
       /\ cache' = [x.cache EXCEPT !.lent = @ \cup {x.block}]
       /\ Record({x.block})
  /\ UNCHANGED <<view, exported, lease, copy, void, lost>>
GiveBack(b) ==
  /\ b \in cache.lent
  /\ cache' = [cache EXCEPT !.lent = @ \ {b}, !.free = IF b \in Pinned THEN @ ELSE Append(@, b)]
  /\ UNCHANGED <<view, exported, saved, recorded, lease, copy, void, lost>>

(* GetTensorDeviceStorage hands out a block's Storage; later it is dropped. *)
Export(t) ==
  /\ ~Recording /\ view[t] \in Present(cache) /\ Block(cache, view[t]) # None
  /\ Cardinality(exported) < MaxExports(view)
  /\ cache' = Bind(cache, t)
  /\ exported' = exported \cup {Block(cache, view[t])}
  /\ UNCHANGED <<view, saved, recorded, lease, copy, void, lost>>
DropExport(b) ==
  /\ exported' = exported \ {b} /\ b \in exported
  /\ UNCHANGED <<view, cache, saved, recorded, lease, copy, void, lost>>

(* Captures run between kernels.  What a capture does is modelled as done at
   once; a retained one is launched next, an abandoned one never ran. *)
BeginCapture ==
  /\ ~Recording /\ cache.lent = {}
  /\ saved' = [cache |-> cache, copy |-> copy, void |-> void, lost |-> lost, calls |-> 0]
  /\ recorded' = {}
  /\ UNCHANGED <<view, cache, exported, lease, copy, void, lost>>
Rollback(c, older) ==
  /\ cache' = c /\ Values(saved.copy, c, saved.void, saved.lost \cup older)
  /\ saved' = <<>> /\ recorded' = {}
  /\ UNCHANGED <<view, exported, lease>>
Abandon == Recording /\ cache.lent = {} /\ Rollback(saved.cache, {})
(* A download cannot run while the stream records: the read fails, the run with
   it, and the storage already has a new version, which the snapshot has not:
   a value that only the device had is taken for outdated. *)
FailedRead(t) ==
  LET v == view[t] IN
  /\ Recording /\ cache.lent = {} /\ Pending(cache, v) /\ CanDownload(cache, v)
  /\ Rollback(Outdate(saved.cache, v.storage),
              UNION {CellsOf(w) : w \in {x \in Present(saved.cache) : x.storage = v.storage /\ Pending(saved.cache, x)}})
Retain(l) ==
  /\ Recording /\ cache.lent = {} /\ lease[l] = {}
  /\ lease' = [lease EXCEPT ![l] = recorded]
  /\ \E rest \in Without(cache.free, recorded) : cache' = [cache EXCEPT !.free = rest]
  /\ saved' = <<>> /\ recorded' = {}
  /\ UNCHANGED <<view, exported, copy, void, lost>>
EndLease(l) ==
  LET unpinned == lease[l] \ UNION {lease[k] : k \in Leases \ {l}}
      recycled == unpinned \ (cache.lent \cup Held(cache) \cup exported)
  IN  /\ ~Recording /\ lease[l] # {}
      /\ lease' = [lease EXCEPT ![l] = {}]
      /\ \E order \in SetToSeqs(recycled \ ToSet(cache.free)) :
           cache' = [cache EXCEPT !.owned = @ \cup recycled, !.free = @ \o order]
      /\ UNCHANGED <<view, exported, saved, recorded, copy, void, lost>>

Next ==
  \/ \E t \in Tensors : Upload(t) \/ KernelWrite(t) \/ OutOfMemory(t) \/ ReadHost(t) \/ Release(t) \/ Unregister(t)
                         \/ Export(t) \/ FailedRead(t)
  \/ \E t \in Tensors, told \in BOOLEAN : HostWrite(t, told)
  \/ \E s \in States, b \in BOOLEAN : MarkPersistent(s, b)
  \/ \E s, t \in Tensors : Alias(s, t)
  \/ \E s \in States, o \in Tensors : CopyState(s, o) \/ AppendState(s, o) \/ SwapState(s, o)
  \/ Borrow \/ BeginCapture \/ Abandon
  \/ \E b \in Blocks : GiveBack(b) \/ DropExport(b)
  \/ \E l \in Leases : Retain(l) \/ EndLease(l)
Spec == Init /\ [][Next]_vars

-------------------------------------------------------------------------------
(* The index is consistent: a view has a replica exactly while a handle is bound
   to it, a valid copy has a block, and blocks come from the context. *)
TypeOK ==
  /\ cache.handle \subseteq Tensors /\ cache.keep \subseteq cache.handle
  /\ Present(cache) = {view[t] : t \in cache.handle}
  /\ \A v \in Present(cache) :
       /\ cache.replica[v] \in [block : Blocks \cup {None}, device : BOOLEAN, host : BOOLEAN, current : BOOLEAN]
       /\ cache.replica[v].device => Block(cache, v) # None
  /\ cache.owned \subseteq Blocks /\ ToSet(cache.free) \cup cache.lent \subseteq cache.owned
  /\ exported \subseteq Blocks /\ lease \in [Leases -> SUBSET Blocks]
  /\ recorded \subseteq Blocks /\ (recorded # {} => Recording)
  /\ copy \in [DOMAIN copy -> SUBSET Cells] /\ void \cup lost \subseteq Cells

(* No block serves two purposes: the pool holds a block once, and only while no
   replica, no kernel's scratch memory, no exported Storage and no capture that
   may be replayed uses it; scratch memory is nobody's replica. *)
BlocksHaveOneUse ==
  /\ IsInjective(cache.free)
  /\ ToSet(cache.free) \cap (Held(cache) \cup cache.lent \cup exported \cup Pinned) = {}
  /\ cache.lent \cap (Held(cache) \cup exported) = {}

(* Whatever sequence of uploads, kernels, host writes, downloads, aliases, state
   updates, releases and abandoned captures came before: a kernel that reads a
   tensor now, and a caller that reads it on the host, get its latest value,
   except in cells that another view has pending, that have no defined value, or
   whose latest value the cache lost.  It loses one in two ways only: by a host
   read that fails inside a capture, and by an exchange of a device copy that a
   host write had outdated. *)
EveryReadIsCurrent ==
  \A t \in Tensors :
    LET v == view[t]
        inBlock(x) == <<Block(cache, v), x[2] - v.offset>>
    IN  \A x \in CellsOf(v) \ (void \cup lost \cup Contested(cache, v)) :
          /\ x \in copy[IF Usable(cache, v) THEN inBlock(x) ELSE x]
          /\ x \in copy[IF Pending(cache, v) THEN inBlock(x) ELSE x]
===============================================================================
