# concurrent-bst in TLA+

A verification development for the concurrent binary search trees of this
repository: the lock-based tree of `src/paper-version/main.cpp` (called PaVT
there), and the tree written with memory transactions over RSTM in
`src/transactional-version/rstm/bench/main.cpp`, with the parts of RSTM that tree
runs on. Each is modelled action by action, model-checked on small instances, and
partly proved with TLAPS for any number of threads, keys and nodes.

Paths below `rstm/` are short for `src/transactional-version/rstm/`.

## 1. Inventory

| Component | State | Operations | Interaction | Modelled in |
|---|---|---|---|---|
| **PaVT tree** `paper-version/main.cpp:37-553` | per node: value, `left`, `right`, `parent`, `leftSnapshot`, `rightSnapshot`, `marked`, a recursive mutex | `add`, `remove` (with `applyRemove`), `contains` | worker threads call it concurrently; they share nodes and mutexes | `PaVT` |
| PaVT test program `paper-version/main.cpp:576-790` | one tree, a list of operations per worker | `populateTree`, `run2`, `work`, `join` | main starts the workers and joins them | `TestCase` |
| **Transactional tree** `rstm/bench/main.cpp:85-376` | a root pointer; per node a key and two children | `add`, `remove`, `contains`, each one transaction | through the STM, with some plain reads | `TxTree` |
| Transactional test program, same file | a list per worker | `run2`, `work` | as above | `TxTestCase` |
| **NOrec** `rstm/libstm/algs/norec.cpp` | a sequence lock; per thread a start time, a log of values, a write set | `begin`, `read`, `write`, `validate`, `commit`, `rollback` | the algorithm in force when `STM_CONFIG` is unset, as in the scripts | `NOrec` |
| **Thread registration, switch, irrevocability** `rstm/libstm/{txthread,inst,irrevocability}.cpp` | global function pointers (`tmbegin` ...), the table of threads, the scope of each thread, its barriers | constructor of `TxThread`, `set_policy`, `become_irrevoc`, `begin_blocker` | close a gate (`tmbegin`) and wait for every scope to clear | `TxThread` |
| **Epoch allocator** `rstm/libstm/WBMMPolicy.*` | an epoch per thread; per thread: allocations, frees, a pool, stamped pools | `txAlloc`, `txFree`, `onTxBegin`, `onTxAbort`, `onTxCommit` | called around each transaction; reads the other threads' epochs | `WBMM` |
| Sequential tree `rstm/bench/main-2.cpp` | a tree | `insert`, `remove`, `destroy_tree` | one thread | `SeqTree` |
| PaVT helpers `size`, `deleteNodes`, `inorderPrint` | none | recursive walks | not called while workers run | - |
| Other RSTM algorithms, policies, adaptivity; libitm2stm, mesh, STAMP and other benchmarks; scripts | - | - | see section 7 | - |

### What is hard in the lock-based tree

* **Searches take no lock.** They read child pointers while a removal rewrites
  them, so they can pass through removed nodes, and they can miss a key whose
  node is moved above them. The neighbour pointers (snapshots) are what tells a
  real miss from such a one.
* **Snapshots have no lock.** They are written under whatever locks the
  operation took for the tree pointers, of different nodes for different
  operations. Whether two writers can meet is not visible at any one line.
* **Values are read before the lock that would protect them** (the parent in
  `remove`, both neighbours, the successor's parent) and re-validated after.
* **Lock order depends on the shape of the tree.** Up to nine mutexes are
  nested, several under two names (`rightNode` may be `left`, `succParent` may
  be `right`; the mutexes are recursive for this).
* **Updates are not atomic**: three stores publish a node, up to twelve move a
  successor, and every one is seen by the searches.
* **Nested unlocks are written out by hand** on each of seven early exits of `remove`.

What makes the tree correct: it is linearizable as a set; its shape and its
snapshots agree whenever no update is under way; nothing validated is stale when
it is used; no store hits a removed node or collides with another store; no null
pointer is followed; every lock is released; no deadlock; every call returns.

### What is hard on the transactional side

* **Validation is by value.** A location that changed and changed back passes, a
  validation may span commits of others, and a transaction that is going to
  abort keeps running on what it has read (`norec.cpp:54-79`).
* **Plain reads inside transactions.** `bench/main.cpp` follows and copies
  pointers without `TM_READ` (`:203-224`, `:231-235`, `:242`,
  `:252`, `:255`, `:347`). The log does not cover them unless the same location was
  also read with it, so neither a read nor a commit notices when they change, and they
  see half of another's commit.
* **The gate.** Threads raise their scope and then read `tmbegin`; who closes
  the gate writes `tmbegin` and then reads the scopes, one by one, while threads
  come and go. Registration, a switch of algorithm and irrevocability must
  exclude one another although each has its own code for it.
* **Reclamation.** A timestamp is collected one epoch at a time; a pool fills in
  the middle of a commit; an abort forgets frees and undoes allocations; the
  irrevocable path must keep begins and ends of transactions in pairs.

What makes it correct: transactions take effect one at a time and each sees one
instant of memory; an abort has a cause; every transaction commits in the end;
the tree on top is linearizable, stays a search tree and follows no null
pointer; an irrevocable transaction runs alone; the gate opens again; nothing is
freed in use, twice or never.

## 2. Modules

```
the lock-based tree                       the transactional tree
  OrderedSet       answers of a set         AtomicTM      transactions, one at a time
  KeySet           the set, concurrently    WordTM        ... with a commit in steps
  Linearizability  an observer              NOrec         the algorithm
  PaVT             the tree                 NOrecClient   threads that run transactions
  TestCase         the test program         TxTree        the tree over WordTM
  PaVTLin          ... with the observer    TxTestCase    its program, with the observer
  PaVTMutex        ... with the mutexes counted

registration and irrevocability           the allocator
  Rendezvous       what the gate is for     WBMM          epochs, pools, stamps
  TxThread         the gate                 WBMMClient    transactions that free
the sequential tree
  SeqTree
```

`*Properties` hold a component's properties, `*Proofs` its theorems, `MC*` the constants of the instances. Who stands on whom:

```
PaVT   ==> KeySet            (mapping in PaVTProperties; checked, proved)
NOrec  ==> WordTM ==> AtomicTM   (mappings in NOrecProperties, WordTM; checked, proved)
TxTree ==> WordTM            (uses its actions; that it adds none is proved)
TxThread ==> Rendezvous      (mapping in TxThreadProperties; checked, proved)
```

### PaVT

`link[f][n]` is pointer field `f` of node `n`; `marked`, `alloc` are the other
node state. Nodes are never freed (`deleteNodes` has no caller), so a node is
an element of `Node` that is used once; `value` is fixed with it. `held[t]` is
the set of mutexes a thread owns; a set is enough because every attempt releases
all its locks together, except those in `leaked[t]` (see Findings); that the code's
`unlock()` calls do so is checked with `PaVTMutex`. `pc`,
`op`, `reg`, `todo`, `result` are the thread: its place in the code, its call,
its local variables, the stores it has still to make, its last answer.

| Lines | Actions |
|---|---|
| 92-103 | `Init` |
| 115-131, 210-227, 506-522 | `Walk`, `Found` |
| 228-237, 526-535 | `MissSnapshot` |
| 137-142 | `AddLock` |
| 143-152 | `AddSnapshot` (with the constructor, 66-72) |
| 238-248 | `ReadParent`, `LockParent`, `Recheck` |
| 252-265 | `LockNode`, `RemovedMeanwhile` |
| 267-268, 281-282, 326-327 | `ReadPred`, `ReadSucc` |
| 279-306 | `LockChild`, `LockSnapshot` |
| 323-344 | `LockLeft`, `LockRight`, `LockRightNode` |
| 357-393 | `ReadSuccParent`, `LockSuccParent`, `RecheckSucc`, `LockSucc` |
| 394-432 | `LockSuccRight`, `LockSuccRightSnapshot` |
| 269, 307, 345, 466 | `UnlinkLeaf`, `UnlinkOneChild`, `PromoteRight`, `ApplyRemove` |
| 153-161, 270-278, 309-316, 346-355, 467-484 | `DoStore`, one store a step |

**Granularity.** A step makes at most one access to a location that none of the
thread's locks protects. A lock acquisition takes along the reads made right
after it under its protection; the last store of an operation takes along the
unlocks after it. An acquisition commutes to the right and a release to the left
of other threads' steps, and reads protected by a lock commute both ways. That
the child, parent and mark fields really are protected, i.e. nobody writes them
without the node's mutex, is not assumed: it is the property `GuardedWrites`,
checked and proved on this model. Locations it does not cover (all snapshots,
the mark and parent of an unlocked node) get a step of their own per access.

**Memory order.** The fields are plain or `volatile`, not atomic, so C++ calls
the races undefined. The build (`paper-version/test.sh`: g++ without -O, x86) performs every
access, in program order, and x86 only delays stores past later loads. Inside a
sequence of stores no operation loads shared data, and the unlock after it
drains the store buffer, so each store can be taken to happen when it becomes
visible. The models are sequentially consistent for that reason. A build with
another compiler setting or on a weaker machine is not covered.

**Searches.** `leftNode` and `rightNode`, which `remove` sets while it walks, are
always overwritten before use and are left out of `Walk`. The `res` codes and
`leftLast` are recomputed from the same comparison.

### PaVTMutex

The mutexes are recursive, and `remove` may lock one node under two names. `PaVTMutex`
puts a count beside `PaVT`, in the way of a history variable: every place that wants a
mutex (`Wants`) adds one, and every exit takes away what the `unlock()` calls written
there do (`Unlocks`, from lines 140, 147, 157, 163, 246, 257-258, 299-302, 317-319, 333-337,
364-369, 380-386, 406-414 and 422-449). `CountsBalance` says that the count is positive exactly for the
mutexes that `PaVT` has the thread own, which is what the model of ownership as a set rests on. `MCPaVTMutex` runs it
beside the observer of `PaVTLin`, for `deep_removals`.

### KeySet, Linearizability

`KeySet` says what the tree is as a set: a call of `add` or `remove` changes the
set once, at most, between its call and its return; the answer says whether it
did. `ImplementsKeySet` in `PaVTProperties` maps the live (constructed, unmarked) nodes to
that set: add takes effect when it constructs its node under the lock, remove when
it marks one. `KeySet` leaves open when a call that changes nothing looked at the
set. That is what linearizability adds: `Linearizability` keeps all accounts of
the history (a set of keys plus which pending calls have taken effect with which
answer), and `Linearizable` says one is always left.

### TestCase

`main` first populates the tree, then the workers run, each with a list of
operations, then it joins them. `run2` does not call `populateTree`; a populated
tree is what `run2` reaches when one worker's list begins with adds and it is
scheduled first, so starting there cuts out states without adding any. Random lists are
chosen element by element from `Menu`.

### AtomicTM, WordTM, NOrec

`AtomicTM` is what a program expects of transactions: they take effect one at a
time and even one that will be aborted only reads values that were all in memory
at one instant. `WordTM` adds what a plain reader can see: a commit takes a lock,
stores its writes one by one and releases it. `NOrec` is the code.

| Lines of `norec.cpp` | Actions of `NOrec` |
|---|---|
| 127-145 | `Begin` (an odd timestamp is rounded down) |
| 217-262 | `ReadOwn`, `Load`, `ReadReturns`, `ReadStale`, `Reload` |
| 264-279 | `Write` |
| 54-79 | `Sample`, `CheckEntry`, `Revalidate`, `Validated` |
| 281-298 | `Rollback` |
| 147-215 | `CommitReadOnly`, `CommitStale`, `Acquire`, `WriteBack`, `Release` |

A step makes at most one access to a word or to the timestamp; what follows it on
the thread's own data belongs to it. The order of the entries of the log and of
the write set is left open. `timestamp` is a natural number: a `uintptr_t` wraps
after 2^63 commits, and only if one transaction slept through all of them would
it matter. The build is the default one (RelWithDebInfo, word logging, no stack
protection); the contention manager it uses (HyperAggressiveCM) does nothing.

### TxTree, TxTestCase

One transactional access or one plain read a step, `reg` the local variables,
`pc` the place; a place is named after what is read there. `ReadThen`,
`PlainThen`, `WriteThen` and `CopyThen` are `TM_READ`, a read without it,
`TM_WRITE`, and a `TM_WRITE` of something read plainly. A null pointer that is
followed by a read is a `Crash`. The memory is `WordTM`'s, which `NOrec`
implements; a step of `NOrec` that `WordTM` lacks touches no shared word, so
nothing a plain read can see is lost. The write set stores keys before pointers,
as each operation writes them.

Nodes are never freed (`destroy_tree` is commented out), and a node under
construction is unreachable, so its constructor's stores are part of the initial
memory. `add` returns nothing, so any answer will do for the observer.

### TxThread, Rendezvous

A function pointer is represented by the algorithm whose function it holds.

| Lines | Actions |
|---|---|
| `txthread.cpp:80-86`, `:261-276` | `ReadAlgorithm`, `InstallBlocker`, `MissBlocker` |
| `txthread.cpp:110-151` | `Configure`, `Insert`, `Publish`, `Reopen` |
| `api/library.hpp:70-121` | `Begin`, `Start`, `Commit`, `End` |
| `algs/algs.hpp:293-311` | `Conflict`, `Unwind` |
| `irrevocability.cpp:75-99` | `CommitIrrevocable`, `SetIrrevocableBarriers`, `UnsetIrrevocableBarriers` |
| `irrevocability.cpp:120-189` | `CloseForIrrevocable`, `MissIrrevocable`, `Drain`, `InFlight`, `Restart` |
| `irrevocability.cpp:213-236` | `StartIrrevocable`, `Blocked`, `Clear`, `Wait`, `Rescope` |
| `txthread.cpp:277-298`, `inst.cpp:47-78` | `ChooseAlgorithm`, `InstallBarriers`, `InstallAlgorithm`, `Reopen` |

A transaction's inside is left to `NOrec`: here it commits, aborts or asks for
irrevocability, and the algorithm's `irrevoc` either succeeds in flight or not.
A switch may choose any algorithm at any time, which is more than the adaptivity
triggers do. `Rendezvous` says what all this is for in five actions.

### WBMM, WBMMClient

`WBMM` has one operator per operation of the allocator; `onTxCommit` and
`handle_full_prelimbo` are split into a step for each block replayed
(`schedForReclaim`), each epoch read (`ReadEpoch`) and the sweep (`Sweep`).
`onTxBegin` is a plain store, so a thread's epoch exists twice: `my_ts` as it
reads it itself, `trans_nums` as it is in memory; `Drain` brings one store from
the store buffer to memory, and an atomic instruction waits until the buffer is
empty (`Drained`). `malloc` returns fresh blocks only: reuse of an address would
hide a use after free. Objects allocated outside transactions (epoch even) are
not logged and are freed at once, as in the code.

`WBMMClient` is the least program that can go wrong: one shared pointer, and
transactions that look at the block behind it, remove and free it, or allocate
one. It follows `NOrecProperties`: a transaction that has read the pointer runs on
until it notices that it changed. `Abort` may come at any time, for a value that
changed or a gate lost to another thread.

### SeqTree

`insert`, `remove` and `destroy_tree`, one call a step, written as functions of the
path the search takes. The calls that the code makes recursively relink every node
of the path; all but the last link keep their value, so only that one is written.

## 3. Runs

| Run | Instance | Question |
|---|---|---|
| `pair_of_calls` | 2 workers, 1 call each with one of 4 keys, every insertion order of every subset of them, the trees of `deep_removals` and one more, fair | Are any two concurrent calls linearizable, with no key lost, duplicated or reborn, and do they return, also when a removal takes nine locks in an order given by the tree? |
| `deep_removals` | 2 workers, one update against two removals, three trees of six of 7 keys | With all nine locks in play and the leak present: is everything validated still true at the mark, does each exit unlock what was locked, do stores collide or reach removed nodes, is a null pointer followed, is the tree a `KeySet`, are the answers right? |
| `three_workers` | 1 remover, 2 adders or readers, 5 keys | Does a search that misses a moved key notice? |
| `norec` | 2 threads, 1 transaction of 3 accesses against 2 of 2, 2 words, fair | Does NOrec implement `WordTM` and `AtomicTM`, is a valid log a snapshot, does an abort mean a commit, does everything commit? |
| `tx_one_writer` | 2 workers, 1 call each, one writes, trees of every shape over 4 keys, fair | Is the transactional tree right when one thread writes? |
| `tx_races` | 2 workers, any calls, the same trees | What do the races leave intact? |
| `gate` | 2 threads, 2 algorithms, any order of registration, transactions, irrevocability, switches, fair | Exclusion, isolation, one algorithm, a complete table, and does the gate open again? |
| `epochs` | 2 threads, 3 transactions and 1, 5 blocks, pools of 2, irrevocability | Is anything freed in use, twice, or lost? |
| `sequential_tree` | 4 keys, 4 nodes, any sequence of calls | Does each call change its own key only, however long the sequence? (That the keys stay in order is proved, and lost order would show here as soon as a search goes astray.) |
| `join_hangs`, `lost_add`, `epoch_parity` | | the findings of section 4 |

**Bounds.** Common to the trees: `MaxKey` keys, `Generations` objects per key (how
often a run may construct a node for one key; chosen so that no run reaches the
end), `ListLength` calls per worker, `Menu` the calls it may make.
Four keys are the fewest with which a removal takes each of its branches and
another thread still has somewhere to interfere, but for the deepest (a successor
with a right child that is not its neighbour), which takes six: `deep_removals` and some trees of `pair_of_calls`.
Of the three trees of `deep_removals` one has a gap between the successor and its neighbour, so that an `add` can make the
last validation (`main.cpp:402`) fail.
Two threads do for every validation in the trees, since each guards against one
interfering update; the exception is the neighbour check of a missed search
combined with an add below the moved node, which takes three.
`norec`: `Transactions` and `Accesses` per thread. Three accesses let a validation
compare two entries with a commit in between; two transactions of the other
thread let the second undo the first, the case that validation by value must
survive. `gate`: nothing is counted, the state space is finite as it is, and its
safety properties are proved for any number of threads. `epochs`: `Transactions`
counts transactions begun (restarts included), `Blocks` the allocations. Two
blocks fill a pool, and a second full pool can dominate the first, which is how
anything is ever freed; that takes one thread three transactions.
`sequential_tree`: a removed node can be used again, so any length of sequence is
covered.
No symmetry is used: keys are ordered, and where threads differ they are named.

**Deadlock** is checked except in `deep_removals` and `join_hangs`, where the leaked
mutex is reachable and a worker may wait for ever.

**Fairness** is weak and per thread: the operating system runs each thread again
and again. For a mutex it means that one which stays free is granted to a waiting
thread; strong fairness of a contended mutex is not assumed. Where lists of
operations are finite, interference ends, and that is what the liveness rests on.
In `gate` nobody has to register, begin or switch: fairness covers the steps of a
thread that is in the middle of something. `EveryoneJoins` is about programs in
which the gate is closed for other reasons only finitely often, as in
`bench/main.cpp`, where it is closed by registrations only: a compare-and-swap in
a loop has no fairness of its own. That a thread blocked by `begin_blocker` gets
through is not claimed: another may close the gate whenever it looks.

**What `told` means in `epochs`.** `NoUseAfterFree`, `FreedOnce` and `Accounted` are
conditional on the history variable `told`: so far the epoch was odd inside each
transaction, and odd in memory before its thread got hold of a block. Both can
fail in the code: the first as `epoch_parity` shows (section 4), the second because
`onTxBegin` (`WBMMPolicy.hpp:147`) is a plain store, which x86 may delay past the
first loads of the transaction. Without the second half TLC finds a
block freed in use, without the first a block accounted for wrongly. In practice the delay would have to outlast a whole
pool of frees of another thread.

## 4. Findings

**`join_hangs`.** `return` at `paper-version/main.cpp:245` is the one exit of
`remove` whose unlocks are missing. It is taken when the node found was moved
below another parent (or its parent was removed) and the node itself is being
removed. If the old parent is still in the tree, its removal, or an add below it,
blocks for ever, and so does `join`. The model keeps the leak: `Recheck` returns
with `held` unchanged and records it in `leaked`, so the other properties are
checked, and proved, with it present. A call that does not take this exit
gives back all it locked: `CountsBalance`. (With one call per worker, as in `pair_of_calls`, the exit is out of reach: the worker
that moves the node and the one that removes it would both have to be the other one.
`deep_removals` reaches it.)

The same line reads the mark without the node's lock, between the mark and the
unlinking stores of the other removal. `remove` may so answer "absent" and a
`contains` after it still find the key. TLC finds this when `Linearizable` is
checked on the tree of `join_hangs` with a worker that calls `remove(3)` and
`contains(3)` against two removals; `pair_of_calls` and `three_workers` are too
short for it. No run keeps this result, because the repository says nowhere what
`contains` promises beside a removal. Without that exit it cannot happen (`ProgramLinearizable`), and
an update and two removals, which agree on the mark, answer rightly even with it: `deep_removals`.

**`lost_add`.** `add` (`rstm/bench/main.cpp:347`) decides by a plain read that there
is no right child. Two adds of different keys below one node both commit, and the
second overwrites the first.

**`epoch_parity`.** A transaction that cannot become irrevocable in flight aborts
(`onTxAbort`) and is let through by `begin_blocker`, which never calls
`onTxBegin`; its commit calls `onTxCommit`. From then on the thread's epoch is
even inside transactions: it frees at once what others may still read, and stamps
of others show it outside.

Seen while modelling, and left to prose because a run for it would ask nothing new:

* When the right child is the successor, `remove` links that child's right child in its
  place (`bench/main.cpp:235`), and finds it by plain reads. The left child of the successor
  has been read with `TM_READ`, so an `add` there is noticed; an `add` on its right is
  not, and the new node goes with the successor. Line `:255` does the same to the right child of
  a successor further down. TLC finds it when `QuiescentContents` is checked with a
  worker that removes 2 from the tree 2, 1, 3 and one that adds 4.
* `TM_READ(current->right->left)` (`:231`) reads `current->right` by a plain load. That it is
  not null has been read earlier in the transaction, but another removal may have committed
  since, and the null pointer is followed before anything is validated. TLC finds it when
  two workers remove keys from that tree. `CrashesDoomed`, in `tx_races`, is what is
  true: a removal that crashes has a log that no longer holds, so with `TM_READ` there it would
  have aborted instead. `add` can crash with a log that does hold: line `:347` leaves no entry, and the
  second read of `current->right` (`:348`) may return null.
* The other plain reads of `remove` do no harm. Where a node has one child (`:203-224`)
  the pointer read plainly is in the log from the test before it. The keys copied at
  `:234` and `:252` are not, but the left child of that node is in the log as null, and
  only a node with two children ever gets another key. `tx_races` states what is left under
  all the races, `SearchTree`, `NoWildWrite` and `CrashesDoomed`, and `tx_one_writer` that with one
  writer they do no harm.
* `remove(key)` of `main-2.cpp:130` drops the new root its helper returns, so a root
  with fewer than two children cannot be removed; `CallsChangeOneKey` leaves out
  that case.
* `PaVTBST(min, max)` (`paper-version/main.cpp:93`) uses `min`, `max` as the values
  of the sentinels and `min - 1` as no value: a key outside `(min, max)` breaks
  searches. The program never passes one. `run2` divides by `nThreads`
  (`bench/main.cpp:497`); `threads[id-1]` (`txthread.cpp:128`) has 256 entries and
  no check.

## 5. Proofs

44 theorems, proved with TLAPS for any sets of threads, keys, nodes, addresses and
values that satisfy the named assumptions: `NodeAssumption` (the sentinels are two
nodes, in order, whose values enclose the keys, as in `new PaVTBST(-1500000000,1500000000)`,
`paper-version/main.cpp:581`), `TestCaseAssumption`, `NOrecAssumption`,
`TreeAssumption`, `ThreadAssumption`, `WBMMAssumption`, `ClientAssumption` (the special values are different from the
ordinary ones, keys are integers, epochs and pools have a size, there is a block). `WordAssumption` is a hypothesis of the theorems
about `WordTM`.

| Module | Theorems | |
|---|---|---|
| `PaVTProofs` | `Typing`, `Locking`, `Storing`, `Guarding` | `TypeOK`; `LocksHeld`; every store still to be made is to a node the thread has locked; `GuardedWrites` |
| `PaVTProofs` | `HeapInOrder` | memory with the pending stores made is a search tree and a list in order |
| `PaVTProofs` | `Unique`, `SafeDereferences`, `FreshMarks`, `StoresApart`, `TargetsAlive`, `SettledShape` | its consequences `NoDuplicate`, `NoNullDereference`, `FreshWhenMarking`, `NoStoreRace`, `NoDeadTarget`, and, if `Node` is finite, `Consistent` |
| `PaVTProofs` | `TreeIsKeySet` | `ImplementsKeySet` |
| `PaVTProofs` | `ProgramRunsTree`, `ProgramGuarding`, `ProgramSafe`, `ProgramIsKeySet` | the program is a use of the tree, so the theorems carry over |
| `PaVTLinProofs` | `ProgramLinearizable`, `ProgramContents` | as long as no lock has been left behind: `Linearizable` and, if `Node` is finite, `QuiescentContents`; `Thread` is finite |
| `WordTMProofs` | `WordTyping`, `WordRefinesAtomic` | a commit in steps is atomic to other transactions |
| `NOrecProofs` | `Invariance`, `Typing`, `Exclusion`, `Snapshots`, `Comparison`, `AbortsAreLate` | `IInv` and its consequences `OneWriter`, `LogIsSnapshot`, `ComparedHold`, `AbortMeansCommit` |
| `NOrecProofs` | `NOrecRefinesWordTM`, `NOrecIsAtomic` | `ImplementsWordTM`, `ImplementsAtomicTM` |
| `TxTreeProofs` | `TreeTyping`, `WritesAreTame`, `TreeUsesWordTM` | types, `NoWildWrite`, and `Spec => TM!WordSpec` |
| `TxThreadProofs` | `ThreadTyping`, `OneAtATime`, `Solitary`, `Consistent`, `TableReady`, `NoRefusal`, `ThreadsRendezvous` | the type invariant, `OneBlocker`, `RunsAlone`, `OneAlgorithm`, `ReadyInTable`, `NeverRefused`, `ImplementsRendezvous` |
| `SeqTreeProofs` | `TreeStaysShaped`, `TreeIsOrdered`, `CallsChangeKeys` | the shape of the sequential tree, and from it `SearchTree` and `CallsChangeOneKey`, if `Node` is finite |
| `WBMMProofs` | `WBMMTyping`, `WBMMReclaimsSafely`, `WBMMFreesOnce`, `WBMMAccounts` | `TypeOK`, `NoUseAfterFree`, `FreedOnce`, `Accounted`, for any number of threads, blocks and transactions and any size of the pools |

**The locks of PaVT.** Neither `LocksHeld` nor `StoresLocked` is inductive. An update
puts its whole list of stores on `todo` when it marks or constructs, so
`StoresLocked` needs that the locks taken on the way cover the list: that is the
map `LockedAt` from places to locks. A thread that releases its locks must have no
store left, hence the third conjunct of `LockInv`. `TypeOK /\ LockInv` is
inductive. The steps fall into few kinds (proceed, acquire, retry, return, publish
stores), each with a lemma; the actions are instances. `GuardedWrites` follows step
by step. It is also what justifies the granularity of the model, so it matters that
it holds for any number of threads.

**The pointers of PaVT.** While updates are half made the pointers in memory are
neither a tree nor a list, so no invariant about memory alone is inductive. `HeapInv(g)`
is about memory and the heap `g` that memory becomes once all pending stores are
made (`InOrder` says there is such a `g`; none is kept in a variable):

* `g` is in order (`Shape`): children and parents agree, the neighbours of the
  unmarked nodes form a list in the order of the values, and each node lies between
  its bounds, the nearest ancestors on either side;
* memory differs from `g` only where a store is pending, and a pending store writes
  what `g` has; no two threads have a store to the same pointer pending;
* what a call has read is true of `g` as far as its locks protect it (`Knows`, place
  by place); what it read without a lock is at least null or a node that has been linked
  in (`Shown`, and `Seen` for what is read from a snapshot), and not null where it counts.

The neighbour pointers have no lock of their own, and this is what the invariant
has to explain. Between two neighbours of the order lies a gap, and in any search
tree exactly one of the two has no child on the side of the gap: that one owns the gap
(`Owns`). Whoever writes the pointers across a gap has locked its owner, or is the `add`
whose new, not yet linked node made the gap (`GapsOwned`). That is why two writers never meet (`NoStoreRace`) and why a neighbour validated
under the locks stays the neighbour until the mark (`FreshWhenMarking`).

A step is of one of four kinds: it changes only what one thread knows (`Quiet`,
`Advance`); it makes a pending store, which brings memory nearer to the same
`g` (`StoreHeap`); it constructs a node, and `g` becomes `Hanging` (`PlacedHeap`); or it marks one,
and `g` becomes `Unlinked` or `Replaced` (`PublishHeap`). For the last two the work is
to show that the new heap is in order and that the list of stores in the code is
exactly the difference: up to twelve stores for a successor further down
(`ReplacedStores`, `ApplyRemoveHeap`). Other threads' knowledge survives because
it rests on locks the mover does not hold. TLC checked `HeapInv`, with `g` computed from memory and
the pending stores, on small instances before it was proved.

`SettledShape` needs an induction along the search, which the library's induction theorems cannot
give (they take the predicate as a parameter). It is done with a least counterexample instead
(`Least`, from `WFMin`): the search goes from a node to a child that still has the sought one
between its bounds, there are fewer and fewer unmarked nodes between them (`Descends`, `Inside`), and
so it ends in time (`SearchFinds`). The same principle shows that the recursive function
in `Find` exists (`WayExists`, `WayOf`). Only this theorem and `ProgramContents` assume that `Node` is
finite, as memory is.

`TreeIsKeySet` follows step by step. Each step `Goes`, `Answers` or `Changes`: most change neither
the keys nor an answer; a construction adds a key that, because the node fits its gap, no
unmarked node has; a mark removes the key from the set because no other unmarked node has
it. An answer that nothing was changed is always allowed by `KeySet`. `IdleOp` says
that a thread without a call has none pending.

**Linearizability of PaVT.** `TreeIsKeySet` lets an update take effect when it constructs or
marks. A search that reads without locks cannot see that: it finds a marked node that is still
linked, and misses a new one that is not linked yet. So the set is taken from the linked
nodes instead (`Linked`, and `LinkInv` for what is true of them half way through an update):
`add` takes effect with its last store, `remove` with the one that takes its node from
its parent. A call that changes nothing may take effect at any moment since it began;
`History(u, X, P)` says that `X`, the nodes linked at some moment of the call of `u`, holds the node
the search is at and is closed under following pointers, and that `P`, the answers
that were true at one of these moments, has "present" if a node in `X` has the key, and "absent"
if such a node has been unlinked or a snapshot passes over the key. Every step of any thread keeps
it (`HistoryGrows`), and where a search ends it gives an answer in `P` (`AnswerKnown`): for `MissSnapshot` this is
the snapshot that passes over the key, which is what the snapshots are for.

The other half is about `Linearizability` alone. `Closure` is a recursive function; `ClosureGrows`
shows that it exists, `ClosureSaturated` that it is closed, `ClosureLeast` that it
is the least such set, by induction on a bounded number and on finite sets. `Granted` says
that the observer keeps every account made of the keys of the linked nodes and, for each call, any answer
its history allows (or none yet); `Applied`, `Accumulate`, `Answered` and `CallsCommute`
are what an effect, a moment, a return and a call do to it. Hence one account is always left. When no
call is in progress, `Linked` is the set of unmarked nodes, a search finds exactly these
(`SearchFinds`, `SearchEnds`), and the account with them is in `lin`: `ProgramContents`.

The condition that `leaked` is empty cannot be dropped: the exit at `main.cpp:245`, the one that fails to unlock, answers
"absent" of a node that may still be linked (section 4). Every behaviour that
avoids it is linearizable.

**NOrec.** `LogIsSnapshot` alone is not inductive: what `validate` has compared is a
snapshot only as long as the timestamp stays, and that nobody stores meanwhile
follows from the parity of the timestamp. `IInv` is `TypeOK`, `OneWriter` and, per
thread, `Control` (which of its variables mean something at its place; its times
are even and not in the future), `Snapshot` and `Compared`. A step of another thread
disturbs `Snapshot(t)` only by `WriteBack`, and then the timestamp is odd while
`start_time[t]` is even (`Undisturbed`, `OthersSame`). The refinement counts a
transaction as aborted from the first entry found different, and a commit from the
compare-and-swap; each action is one of `WordTM`'s or a stutter. `WordTM` in turn
implements `AtomicTM` with the owner's writes counted as made when it gets the lock.

**TxTree.** `WritesAreTame` holds although plain reads may return anything: `Sound`
says, for each place, which of the local pointers are not null, and for a pointer
whose non-nullness was decided by a transactional read, that the read is in the log.
`case 2` needs it: `parent` is what a second `TM_READ` of `current->right` returned,
and it is not null because the first one, in the log, said so and the second is only
answered while the log holds. `TreeUsesWordTM` is the composition: the tree's steps
on memory are `WordTM`'s, so what is proved of that memory holds beneath the tree.

**TxThread.** The heart is `Passed`: while a thread drains, no thread that it has
counted is inside a transaction, except itself. A thread was counted with its scope
clear, so outside (`InScope`), and to get inside it must read `tmbegin` after it has
raised its scope, when the gate has long been closed (`OneBlocker`). `Held` adds that the table is numbered (`Numbered`), who has the gate
(`Closed`, `GateIsForce`), and where the pointers and barriers stand on the way
through an installation or an irrevocable transaction (`IrrevocablePointers`,
`Barriers`, `Begun`). Every property is a consequence of `Held`.

**WBMM.** `WBMMInv` is about every block at once. A block is in one place only: the
shared pointer, the allocations or frees of a transaction, the pool, a stamped pool
or free (`Waiting`, `Once`); blocks allocated by a transaction that has not committed
are known to it alone (`Private`), and of the transactions that mean to free the
block behind the pointer only the one that commits first does. What makes
reclamation safe is `Stuck` with `Kept`: if `t` has unlinked a block that
`u` still holds, then every stamp made since shows `u`'s present, odd epoch, and a
sweep asks of a newer stamp that it shows a greater one. A stamp is made epoch by
epoch, so `Stuck` speaks of a stamp half made too, and of the pool that waits for
it. The epochs in memory may lag behind by one store (`Lag`). All but the types is
conditional on `told`, like the properties.

**SeqTree.** `TreeShaped` is about sets of nodes: to each node of the tree belongs the set of those
below it, the sets of two children are disjoint, and all keys in the left one are less and in the right
one greater. An insertion or removal changes the sets along one path only. The traversal `InOrderFrom`
and the search are recursive functions; that they exist, and what they compute, is shown by a
least counterexample on the size of the set below a node. A removal that moves the successor's key
is a removal of the least node of the right subtree, whose keys are then all greater than
the new one. `Node` is assumed finite.

**Only model-checked**: of the transactional tree, `Linearizable` and `QuiescentContents`
(true with one writer only, see Findings), `SearchTree` and `CrashesDoomed`: its races leave
little else to rely on.
Of PaVT, `CountsBalance`: what each `unlock()` undoes is compared exit by exit, and no theorem depends on
it but through the set of owned mutexes.
Liveness (`CallsReturn`, `AllCommit`, `GateOpens`, `EveryoneJoins`) is beyond the prover.

## 6. What could come next

1. An invariant of the transactional tree with one writer, for the absence of crashes and its
   linearizability.
2. The become-irrevocable paths of CGL, MCS, Ticket, Serial and TML, should a
   configuration ever select them.

## 7. Not modelled

* **The other algorithms of RSTM, its policies and adaptivity, libitm2stm, mesh,
  STAMP and the other benchmarks.** They are the greater part of the lines of this
  repository, and vendored: neither test program runs any of it with the settings of
  the scripts, which leave `STM_CONFIG` unset and so use NOrec. The models cover the
  repository's own programs and what of RSTM they execute, and nothing else; as
  a share of all lines in the tree that is little.
* **`run`, `adder`, `remover` of `bench/main.cpp`** (with the retries of `:613`): no
  code calls `run`. `size`, `deleteNodes`, `inorderPrint`, `search`: no one calls
  them while the tree is shared.
* **Timing, CSV output, printing, `setConfigRSTM`, the random generator**: no property
  is about them; random choice is nondeterminism. The shell scripts loop over
  parameters.
* **Allocation failure and errors of a mutex**: the code does not handle them.
* **Profiling and the statistics of transactions**, and `TxThread`'s `restart()`,
  which the programs do not call.
* **Weak memory** beyond the store buffer in front of an epoch: the paper version is
  built by g++ without optimization for x86 (see Memory order in section 2), and
  NOrec puts its fences and atomic instructions where x86 needs them.
