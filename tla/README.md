# CSAPP-Lab in TLA+

Specifications, model checking and proofs for the programs of this repository
(solutions of the labs of *Computer Systems: A Programmer's Perspective*, and
the book's example code). Everything is translated from the sources under
`src/`; line numbers are in `PROJECT.json` ("map").

## 1. Inventory

The repository is a set of independent C programs. Those with state and
behaviour of their own:

| part | state | operations | what is hard | what makes it correct |
|---|---|---|---|---|
| **tiny shell**, `labs/shlab-handout/tsh.c` | job table `jobs`, `nextjid`; the signal mask; children of the kernel | `eval`, `do_bgfg`, `waitfg`, SIGCHLD/SIGINT/SIGTSTP/SIGQUIT handlers | handlers interrupt the main program and each other anywhere; signals do not queue; fork fails; pointers into the table outlive their entry | one foreground job; the prompt only without one; an entry for every live process and for no reaped one; keys reach the foreground job only; zombies are reaped; `waitfg` returns |
| **web proxy**, `labs/proxylab-handout/proxy.c` | ten cache blocks, each with a readers-writers lock | one thread per connection: `doit`, `cache_find`, `connect_to_server`, `cache_eviction`, `cache_url`, `cache_update_stamp` | readers and writers interleave; an index is used after its lock is dropped; clients and servers fail | writers exclude everyone; a hit answers its URL; eviction finds a block; connections end |
| **cache simulator**, `labs/cachelab-handout/csim.c` | `cache[S][E]` of (valid, age, tag), three counters | load, store, modify; `visitCache`, the unused `visitCache2` | an age is kept by the way a loop is left: errors show after a sequence of accesses | no tag twice in a set; the summary adds up; the line replaced is the least recently used |
| **allocator**, `labs/malloclab-handout/mm.c` + `memlib.c` | heap of words, segregated lists threaded through free blocks, `previous_size` | `mm_init`, `mm_malloc`, `mm_free`, `mm_realloc` | long sequences of legal calls; boundary sizes; list and heap must agree | live blocks are disjoint and inside the heap; a block is free iff listed once; no two free neighbours |
| **book allocator**, `csapp-master/vm/malloc/mm.c` + `memlib.c` | heap of words; the rover of next fit | `mm_init`, `mm_malloc`, `mm_free`, `mm_realloc` | blocks that merge under a pointer kept from an earlier search | as for `mm.c` of the lab |
| **transpose**, `labs/cachelab-handout/trans.c` | none | `transpose_submit` | sizes that are no multiple of a block | B is A transposed, for each size documented |
| **bit puzzles**, `labs/data/bits.c` | none | one function per puzzle | width and overflow | equal to the arithmetic they stand for |
| **combining kernels**, `csapp-master/opt/combine.c` and the revisions saved beside it (`fpb-O1.c`, ...) | an index or pointer, the accumulators | sixty-five loops: unrolled, with several accumulators, with vectors | bounds and statements written by hand; lengths shorter than a round; unaligned vectors | every element combined once; no load outside the vector or off its alignment |
| **strided copies**, `csapp-master/mem/memperf/cpy.c`, `cpyr.c` | eight pointers | load, store, gather and scatter kernels | loops that take over from one another; pointers that wrap around at the end of a segment, only one of them being tested | every element touched once; nothing outside the segment |
| **barrier**, `csapp-master/mem/memperf/par.c` | a semaphore per process | `begin_parallel`, `barrier` | one set of semaphores for one barrier after another | nobody passes before everybody arrived; everybody passes |
| **rio**, `labs/proxylab-handout/csapp.c`, `csapp-master/io/rio/rio.c` | the buffer of a descriptor | `rio_readn`, `rio_readnb`, `rio_readlineb`, `rio_writen` | short counts, interrupted calls, end of input inside a line, lines and blocks read in turn | the bytes come out once and in order; a call is whole |
| **bounded buffer and prethreaded server**, `csapp-master/conc/sbuf.c`, `echoservert_pre.c`, `echo_cnt.c` | ring of slots, three semaphores, a counter | `sbuf_insert`, `sbuf_remove`, accept loop, worker loop | producers and consumers at the limits; a one-time initialisation; descriptors given out again | a queue; a connection has one owner and is served; no count is lost |
| **readers and writers**, `csapp-master/conc/rw0.c` ... `rw3.c` | semaphores and counters | reader, writer | who keeps whom out, and for how long | exclusion; who may starve |
| **event driven server**, `csapp-master/conc/echoservers.c` | `pool` of clients, the ready set | `add_client`, `check_clients` | slots and descriptors used again between two selects; a count that ends the scan | the parts of the pool agree; everybody gets a turn |
| **counters and sums**, `csapp-master/conc/badcnt.c`, `goodcnt.c`, `psum-*.c` | shared memory, a semaphore | the threads' loops | a load and a store with another thread between | the sum is right; what is lost without the semaphore is bounded |
| **signal examples**, `csapp-master/ecf` | the signal mask, a job list, flags | `procmask1/2`, `signal1/2`, `sigsuspend` | lost signals, delete before add | the job list after the child died; the wake-up is not lost |
| **earlier proxies**, `arc/9 Proxy Lab` | log, two mutexes | one thread per connection | early returns between lock and unlock | locks are given back |

The rest (drivers, timers, trace files, bomb and attack labs, book listings on
assembly, performance and linking, handouts) has no behaviour worth a model;
each is listed in `PROJECT.json` with its reason.

How parts interact. The programs do not call each other; the interactions are
inside each one. In the shell the main program, three handlers and the children
share one job table, and the kernel carries signals and exit statuses between
them. In the proxy the threads share the blocks, and each sits between a client
and a server. In the simulator the trace drives one set at a time. The proxy's
`csapp.c` supplies wrappers that exit the process when a call fails, which is
how one connection reaches all others.

In the prethreaded server the main thread and the workers share the buffer,
and `echo_cnt` a counter; `par.c` gives the memory benchmarks their barrier.

The hazards of the modelled programs, each at its line and with the property
that watches it, are listed in `PROJECT.json` ("hazards").

## 2. Plan

Order: the concurrent programs first, because a test reaches the least of them.

1. `JobList`, `Tsh`, `TshProofs`: the shell. **Done.**
2. `ProxyCache`, `ProxyProofs`: the proxy. **Done.**
3. `LRUCache`, `CacheSim`, `SequentialProofs`: the cache simulator against least
   recently used replacement. **Done.**
4. `Allocator` (abstract: disjoint live areas) and `MMalloc` (heap, boundary
   tags, lists), which refines it; `MallocProofs`: the heap stays consistent and the
   refinement holds for every heap. **Done.**
5. `Combine`, `CombineKernels`, `CombineRevisions`, `SequentialProofs`: the largest
   body of code of the repository, one loop with sixty-five variants. **Done.**
6. `BoundedQueue` (abstract) and `Sbuf`, composed with the prethreaded server in
   `EchoServer`; `EchoProofs`, with the refinement as a theorem. **Done.**
7. `ReadersWriters` for `rw0` to `rw3`, and `Counters`; `ConcProofs`. **Done.**
8. `Strided`, proved about in `SequentialProofs`, and `Barrier`, in `ConcProofs`. **Done.**
9. `Rio`, proved about in `EchoProofs`, and `EchoPool`, in `ConcProofs`. **Done.** To
   come: `ArcProxy`.
10. `TshProofs`: the job table against the processes. **Done.**
11. `BookAllocator`, which refines `Allocator` too; `BookProofs`. **Done.**
12. `MCPrograms`, the small programs side by side; `ProgramsProofs`: what is proved of each
    holds of the composition that is checked. **Done.**
13. To come: `Transpose` and `Bits`, pure operators against their definitions;
    `Procmask` and `Sigsuspend` from `csapp-master/ecf`.

Each module keeps its bounds and sizes as CONSTANTS with named assumptions, has
one action per operation, and uses recursive functions or folds instead of
RECURSIVE operators, so that it can be proved about.

## 3. The shell: `JobList`, `Tsh`, `TshProofs`

`JobList` is the job table: the array `jobs`, `nextjid`, and `initjobs`,
`addjob`, `deletejob`, `getjobpid`, `getjobjid`, `fgpid` and the writes of
`job->state`, as operators the shell's actions use. A job's command line is
left out.

`Tsh` is the whole program. There is one thread of control: `stack` holds the
handlers that run, the innermost last, and a step of the main program is
possible only when it is empty. `Deliver(s)` interrupts at any point where `s`
is pending and neither blocked nor running (`Signal` masks a handler's own
signal only). `mpc` and `hpc` say where the main program and each handler
stand; the steps are cut where shared state is read or written, so
`mpid`, `mslot`, `event` and `fpid`, the locals of `eval`, `do_bgfg`,
`sigchld_handler`, `sigint_handler` and `sigtstp_handler`, carry a value across
an interruption. `eval` never calls `parseline` and reads its arguments
uninitialized, so which command a line runs is a free choice.

The kernel and the programs are external: `waitpid` takes any child that died
or newly stopped, `kill` goes to a process group, a child moves through
`fresh` (forked), `running` or `shell` (`execve` failed and the child goes
on as a second shell), `stopping`, `stopped`, `exited`/`killed` and `gone`.

| run | shows |
|---|---|
| `tsh_safety` | with two children and two key strokes, every interleaving keeps: one foreground job at most (`AtMostOneFG`), none at the prompt (`PromptHasNoFG`), every live process listed (`LiveProcessIsJob`), no key forwarded to a background job (`KeySparesBackground`), no entry for a reaped process (`AddedBeforeReaped`) |
| `tsh_liveness` | with a table of one entry and two children, so that `addjob` refuses one: `sigchld_handler` returns (`ChldHandlerReturns`), and every zombie is reaped when fork does not fail (`ZombiesAreReaped`) |
| `tsh_discarded_status` | violated: the child reaped by the outer of the two nested `while` conditions keeps its FG entry, and `waitfg` waits for ever |
| `tsh_ctrl_z_crash` | violated: SIGCHLD between `fgpid` and `getjobpid` in `sigtstp_handler` leads to a read through NULL |

Three more defects have no run of their own. `WaitsForAJob` fails (put it in
`MCTshCtrlZ.cfg` in place of its invariant): `do_bgfg` writes through a pointer
to an entry that was cleared meanwhile, and waits for pid 0. With `ForkMayFail = TRUE` in
`MCTshLive.cfg` `ZombiesAreReaped` fails: `eval` blocks SIGCHLD before fork and
leaves it blocked when fork returns -1. And `nextjid` wraps to 1 without a look at
the table; with four entries, of which jobs 1 and 4 are left, two further jobs
make the id 1 appear twice, which takes six children. A key stroke may also reach a
job that another handler stopped or reaped after `fgpid`; `KeySparesBackground`
speaks of background jobs only.

Bounds. Two process ids suffice for every race between two children (one reaped
and one reported, one in the foreground and one in the background); two key
strokes allow ctrl-c and ctrl-z nested in each other. `Pids` are never reused:
reuse would need the kernel to wrap its counter.

Fairness (`FairSpec`). The shell's own code runs on (weak fairness of the main
program and of the handlers), and a signal that becomes deliverable again and
again is delivered (strong fairness: a handler may mask it in between).
Nothing is assumed of the user or of the children.

Proved (`TshProofs`), for every `MAXJOBS`, every finite or infinite set of
process ids and every number of key strokes: `TypeCorrect`,
`OneForegroundJob`, `PromptWithoutFG`. The inductive invariant `IInv` adds to the
three: `FGHasItsCommand` (an FG entry exists only while the main program is
between giving that state and the return of `waitfg`, and it is the entry of
that command), `SlotIsAnEntry` and `TargetKnown` (what the pointer and the pid
of the command refer to). `AtMostOneFG` alone is not inductive: `addjob` or
`do_bgfg` would create a second FG entry if the first could exist at the prompt.
The proof treats the main program's steps, the handlers' steps and the
environment's in one lemma each.

Proved (`TshProofs`), for every finite set of process ids: a live process
has its entry (`LiveProcessesListed`, for a table with room for every process),
the keys spare background jobs (`BackgroundSpared`), and a job is entered before
it can be reaped (`EnteredBeforeReaped`). They need what the first invariant says
nothing of, the table against the kernel. `UniquePids` and `EntriesForked`: no
process is listed twice, and only processes that were forked are. `NewJob`: while
`eval` stands between fork and `addjob` the new process is not listed and, SIGCHLD
being blocked, nobody can have reaped it. `HandlerOnStack`, `TargetNotBG`: a keyboard
handler between its lookup and its kill has a target whose state only SIGCHLD's
handler can have changed, and that one never makes a background job.
`EventGone`: the child whose status is being handled is the one whose entry goes.
That `addjob` finds a free slot is the pigeonhole principle: entries and
processes that are not listed are disjoint sets of at most `Cardinality(Pids)`.

## 4. The proxy: `ProxyCache`, `ProxyProofs`

One thread per connection. `at` is the function the thread works in, `blk` its
loop index, `stage` how far it is with the lock of that block; `idx`, `top` and
`want` are the block found, `max_stamp` and the URL. The lock is modelled by
its semaphores: `readerPre` counts the reader in and, when it is the first,
waits for `wmutex` while it holds `rdcntmutex`; every other section under
`rdcntmutex` is a single step, since nobody can see inside it.
`held` records that `cache_find` left its loop on a match, without
`readerAfter`. `isEmpty` is read and written where the code does it: under a
read lock in `cache_eviction`, under none in `cache_update_stamp`. A URL stands
for the request and its answer; an object is the URL it answers and whether it is
that answer byte for byte, which the uninitialized `cache_buf` leaves open.
Clients and servers fail at any time when `Faults` is set.

| run | shows |
|---|---|
| `proxy_safety` | three connections, two blocks, two URLs, faults: `WritersAreAlone`, `HitServesItsUrl` (the index returned by `cache_find` is still right under the second read lock), `VictimFound` |
| `proxy_misses_complete` | without a hit every search of the cache ends and every answer is stored and its connection closed, while other clients and servers are silent: the locks themselves do not wedge |
| `proxy_hit_blocks` | violated: a hit whose object has gone to the client never completes, because the thread waits for a `wmutex` its own forgotten read lock keeps |

`EmptyBlockFoundOnce`, `CacheHoldsResponses` and `ProxySurvives` fail as well
(put one of them in `MCProxySafety.cfg` in place of its invariants): two threads
under read locks claim the same empty block, the object is appended to an
uninitialized buffer, and one failing connection ends the process, since the
wrappers of `csapp.c` exit where `connect_to_server` means to go on.

`HitServesItsUrl` holds for the reason `proxy_hit_blocks` is violated: a block
that was ever matched can never be written again.

Bounds. Three threads are the least that let a reader enter while another
leaves and a writer waits; two blocks let an eviction choose. Threads are
interchangeable and no property names one, so the safety run uses their
symmetry. Fairness: each thread is scheduled (`WF` of `CacheStep`, what a thread
does without its client and its server); there are finitely many
connections, so nobody overtakes a waiting thread for ever. Clients and servers
are not assumed to send, to read or to answer (`Request`, `HitSend`, `Headers` and
`Fetch` have no fairness), so the two liveness properties speak of the places
where a thread depends on the other threads only.

Proved (`ProxyProofs`), for every finite set of threads, every number of blocks
and every set of URLs: `TypeCorrect`, `Exclusion`, `EvictionFinds`,
`HitIsFresh`. The invariant `IInv` says of each block that `readcnt` is the number
of threads counted in, that `rdcntmutex` is 0 exactly while one first reader
waits, and that `wmutex` is 0 exactly while it has one owner, a writer or the
group of the readers. Without the counting part, `LastOut` could give `wmutex`
back under another reader. `HitIsFresh` adds `DataInv`: a block that somebody
has matched keeps its URL, because the forgotten reader keeps writers out.

## 5. The cache simulator: `LRUCache`, `CacheSim`, `SequentialProofs`

`LRUCache` is the abstract cache: for each set the tags it holds, in the order
of their last use, and the counters. `CacheSim` is the code: lines with valid
bit, age and tag; `visitCache` with its loop expressed by what it has done
when it is left (the lines before a hit are aged, those after it are not; the
last empty line is filled; the first line of the greatest age is replaced), and
`visitCache2`, the variant with `<=`. `accesses` and `used` are history
variables: the number of accesses, and the order of last uses that the
refinement needs.

| run | shows |
|---|---|
| `programs_safety` (section 12) | six accesses on two sets of two lines, three tags, with either function: `TagsDistinct`, `SummaryAddsUp` (hits + misses = accesses, misses - evictions = lines in use); `visitCache2` implements `LRUCache` (`TwoWayImplementsLRU`) |
| `csim_two_way` | violated: E = 2, `visitCache`, which `simulate` calls, does not. The author's remark at line 241 asks why `<=` is needed |

For E = 1 there is nothing to choose, and `DirectMapped` below proves it for the
function that is called. For E = 3 TLC finds that `visitCache2` does not implement it either.

Bounds. Three tags in two lines force replacements, and six accesses are more
than the four or five that a wrong replacement needs. Ages and counters are
unbounded in the model (the code's `int` would need 2^31 accesses).

Proved (`SequentialProofs`), for every set of sets and tags: `TypesOfTheCache`,
`NoTagTwice` and `SummaryCorrect` for every E, `OtherVariantCounts` (the same of
`visitCache2`), `DirectMapped` (E = 1, `visitCache` refines
`LRUCache`) and `TwoWay` (E = 2, `visitCache2` does). The invariant `CacheInv` is typing,
`TagsDistinct`, the counting of lines in use, and that a line in use has the tag of
an access; a step is any visit whose victim is one of the lines, so that one lemma
(`StepPreserves`) serves both functions. For `TwoWay` the rank
invariant says that of two lines in use the one used later has the smaller age, or the
same age and the smaller index: that is the choice `<=` makes, and it is where
`visitCache` fails. The lemma `Largest` (a finite set of numbers has a
greatest one) replaces an induction.

## 6. The allocators: `Allocator`, `MMalloc`, `MallocProofs`, `MCMalloc`, `BookAllocator`, `BookProofs`

`Allocator` is the promise: the areas a client holds are inside the heap,
aligned to eight bytes and disjoint. `MMalloc` is
`mm.c` on `memlib.c`: `heap` is the sequence of words from the prolog's header
to the epilog's footer, each a tag (size and status), a link, a word of a client
or junk; `lists` gives for each class the blocks in the order their links have.
Every call of the client is one action, and each function of the code is an
operator on a heap with its lists. `find_free_block`, `coalesce`,
`alloc_free_block`, `extend_heap` and the two levels of `mm_realloc` follow the
code branch by branch; `previous_size`, the static variable of `mm_realloc`, is
part of the state. The code writes pointers as words, so it is meant for a
build with pointers of four bytes, and so is the model. The table of the list
heads, which precedes the prolog, is left out.

The client is external. It fills what it is granted with its own name, and
the model replaces by junk what no client asked for, so that two heaps that
differ only in such words are one state. `trapped` records that the
program was stopped by a signal.

| run | shows |
|---|---|
| `malloc_safety` | after every call: blocks tile the heap with equal headers and footers, the lists hold the free blocks and no other, each in its class, and no two free blocks are neighbours (`HeapIsConsistent`); the taken blocks are those the client holds, and contents survive splits, joins and moves (`ClientKeepsBlocks`); the block found is a smallest that fits (`BestFit`); and `MMalloc` implements `Allocator` (`ImplementsAllocator`) |
| `malloc_realloc_traps` | violated: the comment at line 616 lets `mm_realloc` with size zero behave as free, and it divides by zero when the size is that of the call before |

`BestFit` is more than the code promises to itself: it rests on every list being
sorted, with the larger first, and on the classes being the powers of two.

Three more defects, part of the model and without a run: `mm_realloc(NULL, n)`
calls `mm_malloc(NULL)` and returns NULL, against line 615 (`ReallocNull`); when
memory is exhausted it tests `NULL - 1` for NULL and copies to address 0
(`trapped = "copy to NULL"`); and realloc to size 0 returns the block, still taken,
when the buffer computed happens to be its size.

Bounds. Three names let a block have a neighbour on both sides, free or taken in
every combination. A heap of 36 words with CHUNK 8 is the first chunk and
several extensions, and then it is full. The sizes 0, 8 and 13 bytes give blocks
of two and four words, rests of 0, 2 and more words when a block is split, and
buffers of 0, 8 and 16 words, so that realloc keeps its block, joins it with either or both
neighbours, or moves it. The names are
interchangeable and no property tells one from another, so the run uses their
symmetry.

Proved (`MallocProofs`), for every heap, chunk, number of names and set of sizes:
`HeapStaysConsistent`, `NothingIsLost`, `SmallestFit`, `TypesOfTheHeap` and, as a
refinement, `KeepsThePromise`. Assumed of the constants: the heap has room for a
first chunk, and there is a list for every size that fits the heap, is asked for, or is
made of one that is asked for by `mm_realloc`'s buffer (`ClassesAssumption`; the
code has fifty lists for sizes of thirty-two bits).

The properties walk the heap from header to header with a recursive function, and a walk
cannot be followed through a step that changes headers. The inductive invariant `MInv`
says instead that there is a set T of headers whose blocks tile the heap (`Tiled`), that
the lists hold the free ones, sorted (`Listed`), that no two of those touch (`Apart`), and
that each name of the client has a taken block of its own with its words in it
(`Held`). A function of `mm.c` is a lemma that takes one T to another:

* `Replace` and `Around`: cutting the words between two headers anew leaves a tiling and the
  blocks around it. `coalesce` puts one block where two or three were
  (`JoinedRun`), `alloc_free_block` two where one was (`AllocCut`), and
  `extend_heap` adds at the end (`Extended`).
* In between the invariant is weaker: `Ordered(m, T, L, X)` lets the blocks of L be free
  and in no list, and those of X touch free ones. `coalesce` starts with both and ends
  with the first; `place_block_into_free_list` ends with neither.
* `Found`: where the walk down a sorted list stops, or the last block of the next class
  that has any, is a smallest one that fits, since classes grow with sizes (`ClassGrows`).
* `Moves` follows what the client holds through the calls that `mm_realloc` makes: the
  contents are still there when blocks joined before `memmove`
  reads them (`Unites`), and `memcpy` writes inside the new block only (`Copied`).

At the end `BlocksAre` shows that the walk meets T and nothing else. The walk and the
logarithm of `find_free_list_index` are recursive functions over numbers; that they are
defined, and what they are, follows from least sets closed under a step (`Met`, `Halved`)
and the well-foundedness of the natural numbers, without an induction theorem.

`BookAllocator` is the allocator of the book on the same abstract specification:
no lists, the heap is walked from header to header. `fit` says whether
`NEXT_FIT` was defined; the file as it is has it off. `BookImplementsAllocator`
(`programs_safety`) says that either version keeps `Allocator`'s promise, on a heap
where the walk meets every block, tags agree, free blocks are merged, what the
client wrote survives `mm_realloc`, and the rover is at the start of a block: a
free may merge the block it was left at into the one before, and `coalesce`
then moves it. The bounds are those above, on 28 words.

Proved (`BookProofs`), for both searches and every size of the memory, chunk, set of
names and set of sizes: `BookKeepsThePromise`, the refinement, and `TypesOfTheBook`. Assumed
of the constants (`BookAssumption`): the chunk is an even number of words and at least a
block, as `CHUNKSIZE` is, and the memory has room for it after `mm_init`. The invariant
`BInv` is that of `MallocProofs` without the lists: a set T of payloads tiles the words
from prologue to epilogue (`Tiled`), no two free blocks touch (`Apart`), the rover is at a
block of T (`RoverAt`), and each name has a taken block with its words in it
(`ClientHolds`). Without the tiling nothing says that a header is where `NEXT_BLKP` and
`PREV_BLKP` look for one; without `Apart` `coalesce` would leave a free block beside the one it
made. That `find_fit` is written with the walk makes one step come before all others:
the walk is T (`WalkIs`), from sets closed under a step (`Met`) and the
well-foundedness of the natural numbers. After that `coalesce` (`Coalesced`), `place`
(`Placed`), `extend_heap` (`Extended`) and the three entry points take one T to another,
and `RoverMoved` shows that where `coalesce` puts the rover is a block again.

Two theorems say what no property of the run does. `RefusesOnlyWhenFull`: `find_fit` misses
no block, from the start of the heap or from the rover around, so `mm_malloc` returns NULL
only when no free block has room and `mem_sbrk` has no memory. `GrowsOnlyWhenFull`: the break
moves only in a call for which no free block has room, so neither search wastes memory that
way.

## 7. The kernels: `Combine`, `CombineKernels`, `CombineRevisions`, `SequentialProofs`

`combine.c` combines the elements of a vector with OP in sixty-five ways,
to be timed against each other: the loop unrolled up to twenty times, into up to
twenty accumulators, through indexes, pointers, or vectors of the processor.
They are all one loop, and `Combine` is that loop: a prologue up to the first
aligned element, rounds of k statements, the elements that are left. A
statement is a step, so that "which element, into which accumulator, from which"
is in the state. A kernel is a record: its k, the width of its vectors, the
accumulator each statement writes and the one it reads, where the rest goes, and
which of the three conditions keeps it going (`i < length-(k-1)`, `data < dend` with
`dend` short by `length%k`, or both halves at once). `CombineKernels` gives that
record for every kernel of the file by name; `CombineRevisions` does for the eight
revisions that the Makefile saved beside their assembly, written as what each has of,
or changes in, a section of `combine.c`.

OP is taken as associative and commutative, so an accumulator is the set of
the elements in it: rounding, overflow of products, and the division that one
could define OP as, are left out. So is the instruction at which a vector of
accumulators is filled or drained.

| run | shows |
|---|---|
| `programs_safety` | every kernel, with lengths from none to two rounds and one element, at every kind of placement: each element is combined once (`EachElementOnce`); no load goes outside the vector or off its alignment (`LoadsAreLegal`) |

One kernel is left out of it, because it does lose elements. In the older
revisions `unroll8x8` has `acc6 = acc5 OP data[5]` (`fpb-O1.c` line 1258, likewise
`fpb-O2.c`, `lsb-O1.c`, `lpb-O1.c`, `ipb-O1.c`, `dpb.c`), so `acc5` is never advanced
and what `acc6` held is lost from the second round on: wrong for vectors of sixteen
elements or more. It is `Forgetful` in `CombineRevisions`; adding it to `MCProblems`
makes `EachElementOnce` fail. `combine.c` has it corrected.

Proved (`SequentialProofs`), for every kernel that is `Sound` (each statement reads the
accumulator it writes, and a round is whole vectors), every length and every
placement: `KernelTypes`, `EveryElementCombinedOnce`, `LoadsLegal`. TLC evaluates the
hypothesis for the kernels of the file (`KernelsAreSound` in `MCPrograms`), so between
them the two say that every kernel but that one is right for vectors of any length.
The invariant relates three things: where the loop stands (`PlaceInv`), the set of
the elements it has read by then, which for "halves" is two intervals, and the
accumulators, whose disjoint union that set is, with as many reads as it has
elements (`AccInv`). `EachElementOnce` alone says nothing before the end, so it is far
from inductive.

## 8. Strided copies and the barrier: `Strided`, `Barrier`, `SequentialProofs`, `ConcProofs`

`Strided` is `cpy.c` and `cpyr.c`: kernels that load, store, gather or scatter every
l-th double with one, two, four or eight pointers. Each pointer is state of its
own, since each moves with its own statement and is handed from the loop of eight
to those of four, two and one. In `cpyr.c` the array is a mapped segment, and the
pointers go back when the last of them has passed its end. The outer loop that
repeats a kernel for the clock starts each time from the same state, and one
round of it is modelled. `cpyr.c` compares pointers as `unsigned int` and is not built
by the Makefile; addresses are taken as they are meant.

`Barrier` is `par.c`: who arrives posts every semaphore, one step each, then takes
one unit per process from its own. The same semaphores serve the next barrier.

| run | shows |
|---|---|
| `programs_safety` | `EveryElementMoved` (each element of the columns once, and a copy is the transpose), `RemoteStaysMapped`, `NobodyPassesAlone` |
| `conc_liveness` | `EverybodyPasses` |

`RemoteStaysMapped` has the bound of `cpy_lc_r` as it is: the kernel looks for the
end of the segment only in its widest loop, after a round of eight, although the
narrower loops of every column move the same pointer, and it may write fourteen
elements past the end. The other three stay inside.

Bounds: columns of 0 to 51 elements pass through every combination of the four
loops, and 40 to 110 elements in a segment of 56 wrap in the first and in a later
column. Three processes and three barriers let a fast process post for the next
barrier while a slow one still waits in the last. A process that exits early
(`par.c:112`, `lcpy.c:398-400`) would leave the others waiting, which the fairness of
`EverybodyPasses` excludes; `par.c` ignores a failing `semop`, which is not modelled:
it has 16 semaphores, as many as the processes `lcpy.c:58` allows.

Proved (`ConcProofs`), for every number of processes and barriers: `NobodyAlone`,
`SemaphoresBounded`. A post says neither who made it nor for which barrier, so the
invariant counts: what is in semaphore p, and what p took at the barriers it passed,
is together the posts given to it (`PostsAreCounted`). With p past one barrier more
than q has arrived at, there would be more posts than processes made.

Proved (`SequentialProofs`), for every set of calls with any stride and size:
`EveryElementOnce` and `RemoteMapped`, from `CopiesAssumption` (the segment has room for
sixteen columns' strides) alone. `StridedInv` says where the pointers are in the middle
of a round: those of the statements that are through are one round ahead
(`Consecutive`), so that one number, `Base`, places them all. In `cpy.c` `Base` is the
row the loops have come to, whatever loops that were (`LocalInv`), and what has been
moved is the rectangle of columns that are through and the part of this one (`Done`).
In `cpyr.c` nothing says where `Base` is, only that what is left of this round or, in
the kernels that look in the widest loop alone, of this column ends below the end of
the segment (`PointersMapped`); that a column of 16 or fewer elements begins in the
loop of 4, where those kernels never look, is why the assumption says sixteen.
For `cpy_lc_r` `CopyBounded` adds up what the narrower loops can still write.
`NoMoreThanAll`, the types, says that no kernel goes through more than the l times mx
elements; `CountFits` ties the count to the row and column the loops have come to.

## 9. Robust I/O: `Rio`

The functions of the Rio package on one descriptor, called again and again with
any length. The bytes of the file are named by their place, so that "once
and in order" can be said; the kernel gives any part of what is asked for, is
interrupted, or fails. `rio_cnt` keeps the -1 of an interrupted read, as the code
does. `programs_safety` shows, for a file of four bytes with newlines anywhere and
a buffer of three: `BytesKept` (what the callers got and what is buffered is what was
read so far) and `CallsAreWhole` (lines end at newlines, n bytes are n bytes unless
the file ends, a write writes each byte once). A buffer shorter than the
file is refilled in the middle of a line and of a block.

Proved (`EchoProofs`), for every file, buffer and sequence of calls: `EveryByteOnce`,
`NoShortCalls` and `RioTypes`. The invariant `RioInv` says what each byte of the buffer
and of the caller's memory is (`BufferShape`, `BytesInPlace`: the bytes given out before,
those of this call and those left in the buffer are the first `at_byte - 1` of the file)
and why a call may have returned (`CallProgress`). Neither property is inductive: each
speaks of the end of a call, or of the concatenation only.

## 10. The prethreaded server: `BoundedQueue`, `Sbuf`, `EchoServer`

`BoundedQueue` is the promise of `sbuf.c`: threads put what they hold at the end of a
queue and take from its front, in one step each. `Sbuf` is the code, a step per
access to shared memory, with `mutex`, `slots` and `items` as counters. The mapping reads
the queue out of the ring between the two indexes, without the index that is
moved but whose slot is not yet written or read. `front` and `rear` grow for ever in
the code and are only used modulo n; the model keeps them modulo 2n, which still
tells a full buffer from an empty one.

`EchoServer` composes it with `echoservert_pre.c`, one main thread and its workers, and
`echo_cnt.c`, with the one-time initialisation that all workers race to. The kernel
gives out any descriptor that is not open, so numbers come back. Lines are one
byte; the byte count and its history are kept modulo `Wrap`. A
connection that is reset ends the process, as the wrappers of `csapp.c` do.

| run | shows |
|---|---|
| `programs_safety` | `ImplementsQueue` (the refinement), `OneOwner` (an open connection is with one thread or in the buffer once), `CountIsTotal` |
| `conc_liveness` | `AcceptedIsServed` (an accepted connection is served, unless a reset ends the process or clients keep all workers for ever) |

A worker inside `Rio_readlineb` (`echo_cnt.c:26`) or `Rio_writen` waits for its client, and
nothing makes a client send, read or hang up: `ClientActs` has no fairness. So idle
clients, as many as there are workers (four, `echoservert_pre.c:7`), keep every further
connection waiting for ever, and so does a set of clients that never stop
sending. `ClientsKeepTheWorkers` names this exception, and `AcceptedIsServed` says that
there is no other: no post is lost, no worker waits for ever for the
initialisation, the counter or the buffer. Without the exception the run fails with
two idle clients and a third connection left in the buffer.

Bounds: for safety buffers of one and two slots, two descriptors and two workers, so
that the buffer is full and empty, and a descriptor is closed and given out again while
another is in the buffer; for liveness one slot and three descriptors, one more than
there are workers, so that clients can keep them all while a connection waits, and
`Wrap` = 1, since nothing waits for a value of the count. Only
the main thread inserts, as in the program: two threads that insert at once are
possible in `Sbuf` and its lemmas, and never happen in this server.

Proved (`EchoProofs`), for any size of the buffer and any finite number of workers:
`BufferIsQueue` (`EchoSpec => ImplementsQueue`), `DescriptorsAreOwned`, `NoByteIsLost` and
`EchoTypes`. From `EchoAssumption` and `SbufAssumption` (sizes above 0, finitely many
threads, main is no worker). The argument: `Locking` says that one thread is between
P and V of `mutex`, so at most one index is moved without its slot having been used, and
`Indexes` that this thread's copy of the index is the current one. `Tokens` counts: the
items in the queue are those announced in `items`, those a thread has yet to announce,
and those a thread has waited for and not yet loaded; the free slots likewise.
Without it a thread at its store could meet a full ring. With it, `StoreStep` and
`LoadStep` show in arithmetic modulo n that a store is an `Append` to the mapped queue and a load takes
its `Head`, and every other step leaves the queue alone. `Owned`, on top of the
queue, says that no descriptor is in two places; `Counted`, that nobody counts
before the initialisation is over and one thread at a time after it.

## 11. The event driven server, readers and writers, counters

`EchoPool` is `echoservers.c`: one process that selects, accepts and walks through the
slots until `nready` is used up. `PoolAgrees` (`programs_safety`) relates the slots, the
highwater mark, the read set and the open connections, and says that `nready` is
exactly the number of reported descriptors in the slots still to come, although the
accept before them may have filled one; `TurnsCome` (`conc_liveness`) says that nobody is kept
waiting by the slots before its own, unless the server stays for ever with one client
inside `check_clients` (`StaysWithAClient`): one that does not send the rest of its line, or does
not read the echo. Without this exception it fails. Descriptors: three for two slots, so that one
too many connects, which ends the process, as the code does. Three defects are
part of the model and have no run: `check_clients` reads through a copy of the
slot's `rio_t`, so what was read ahead of the first line is lost with the copy; a
client that stops inside a line keeps the server from everybody else; and one
client too many ends it.

`ReadersWriters` is the four solutions, every P and V a step; `programs_safety` checks
`WritersTakeTurns` (exclusion in all four; in `rw2` one writer at most is ahead of the
writers' own semaphore, which is what "strong reader priority" comes to), and
`conc_liveness` `EverybodyGetsIn`: readers get in in all four, writers in `rw0` and `rw3`. In `rw1` and `rw2` readers
that overlap keep writers out for ever, and nothing says otherwise. Two readers
and two writers are the least with a first and a last reader, and with writers
that queue. Proved (`ConcProofs`), for all finite sets of readers and writers and every N
that has a permit for each reader: `RWTypes` and `TakeTurns`. Each semaphore has an
invariant that says who owns it; `readcnt` is the number of readers counted in; and in
`rw3` permits in the semaphore, with readers and with a writer that is collecting
them add up to N, so a writer that has all of them is alone.

Proved (`ConcProofs`), for every number of slots and every finite set of descriptors:
`PoolInAgreement` and `PoolTypes`. `PoolInv` weakens `PoolAgrees` while `check_clients` walks
(`PoolMatches`), and adds that between the select and the accept every descriptor it
reported is still watched (`StillWatched`); `nready` is then counted against the slots
still to come, one closed connection or one filled slot at a time. That the set of
descriptors is finite is an assumption (`PoolAssumption`): `select` counts them.

`Counters` is the programs that add up with threads, an addition as a load and a
store. `ResultIsRight` (`programs_safety`): `goodcnt.c` and the `psum` programs get the sum main
compares with; `badcnt.c`, without a semaphore, gets something between 2 and it (not
less: the last thread to store has loaded after some other store).
Proved (`ConcProofs`), for every number of threads and share of each: `SumsAreRight`. The
counts of `goodcnt.c` and `psum-mutex.c` are sizes of sets, of the additions that have been
stored and of pairs under a triangle (`StoredSums`, `Below`), which grow by what one store adds,
and in the end are the whole; the sums of `psum-array.c` and `psum-local.c` are kept
doubled, as i(i-1) (`OwnSums`). `LostUpdates` is why `badcnt.c` ends with 2 at least: a thread
that has stored before can never load 0 again, so what it stores is 2 or more. `SumsStayBelow` says the same of the way there: no cell,
register copy or value read by main ever exceeds the sum that main compares with. It needs
`Untouched`, which says what is still 0 in which program, and `SquaresGrow`, that a part
of the triangle is never more than all of it.

## 12. The runs of several programs: `MCPrograms`, `MCConc`

The programs of sections 5 and 7 to 11 and the book's allocator are small and independent, and the
questions asked of them are the same two: what may never happen, and what must.
So `programs_safety` and `conc_liveness` each check them side by side: `program` is chosen
at the start and never changes, its next-state relation drives its own
variables, and those of the others keep one initial value. The states are
the sum of the programs', not their product.

Proved (`ProgramsProofs`): every safety property and refinement of `programs_safety` for
`AllSpec` itself. A behaviour of `AllSpec` is one of each program's own specification, since
the others leave its variables alone (`EveryProgram`); the simulator, which has two
next-state relations, gets the invariant that both keep (`SimulatorInvariant`). So
`SequentialSafety`, `ConcurrentSafety` and `BookBesideOthers` follow from the
theorems of the sections above, `ProgramsTypes` (`ProgramsTypeOK`) from their type theorems,
and `TwoWayIsLRU`, for E = 2, from the steps of `TwoWay` whenever `program` is "csim 2". What is
assumed is what each section assumes and `KernelsAreSound`, which TLC evaluates.

Fairness (`MCConc`). Each thread or process is scheduled. A step that waits for a
semaphore may be enabled and disabled again and again, so fairness there is
strong: it is what a semaphore that does not favour anyone for ever gives.
Nothing makes clients connect, send, read or hang up, and nothing brings a reset: the calls
that wait for a client are actions of their own (`ClientActs`, `EchoClient`), outside the
fair steps, and the two servers' properties say what a client that never acts may cause.

## 13. What is only model checked, and what is not modelled

* Liveness depends on fairness and is checked with TLC only; the proof system here
  has no ENABLED.
* Every invariant, action property and refinement that a passing run checks is also a
  theorem. The defects of the violated runs are shown by TLC's counterexamples only.
* Induction over data. The induction theorems of the library take an operator as a
  parameter, which the provers cannot instantiate. What can be said of a set is
  proved from the well-foundedness of the natural numbers instead (`Least` and
  `AllOfNat` in `ConcProofs`, `LeastAddress` in `BookProofs`); what a recursive operator computes is not.
* Deadlock checking is off where the system may stop: the shell quits, the
  connections given are all closed, the proxy exits, the trace ends, the
  allocator's client is stopped by a signal, a kernel returns, the barriers are
  passed.
* Text is not modelled: command lines, messages, URIs, headers, option parsing.
* Of `csapp.c` only Rio has a module. The other wrappers call one function and exit
  when it fails; their exits are actions of the programs that call them.
* Of the select server, a connection that is aborted between select and accept is
  left out, and so is running out of descriptors before running out of slots.
* The components of section 1 without a module are not modelled yet; the
  drivers, listings and handouts will not be.

## 14. Running

    tlc -config MCTsh.cfg Tsh.tla
    tlc -config MCProxySafety.cfg MCProxyCache.tla
    tlc -config MCPrograms.cfg MCPrograms.tla
    tlc -config MCMalloc.cfg MCMalloc.tla
    tlapm TshProofs.tla
    tlapm ProgramsProofs.tla

Every other run is in `PROJECT.json` ("runs") with its module and
configuration. The operators marked "A fault" are mutated forms of the
definition that follows them: putting one in its place makes the property named
in `PROJECT.json` ("mutants") fail, which shows that the property depends on it.
