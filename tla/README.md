# Verification of anechka

Anechka is a search engine: a TCP server, written in C++17, that indexes text files into an
in-memory inverted index and answers token, context and query searches. This directory holds TLA+
models of its concurrent core, of its dumps and restarts, and of the algorithms on text in
between, the TLC configurations that check them on small instances, and proofs, checked by TLAPS,
of what holds for instances of every size. Paths of the form `src/...` are those of the
repository.

## Inventory

| part | state | operations | what has to be right |
|---|---|---|---|
| `SafeQueue` (`src/utility/safe_queue.h`) | `m_tasks`, `m_size`, `m_abort`, a mutex and a condition variable | `push`, `pop`, `signalAbort`, `getCurrentSize` | FIFO, nothing lost on a sleeping consumer, abort lets everybody out |
| `QueueDispatch` (`src/thread_pool/dispatch`) | `m_set`, ordered by live queue sizes; `m_map` from thread to queue | extract the least busy queue, push, put it back; pop by thread; `clear` | a queue is in the set or in one pusher's hands; the set never runs dry for good |
| `ThreadPool` (`src/thread_pool/pool`) | threads, `m_shutDown`, `m_isInitialized`, `m_jobCount`, `m_runningJobCount` | `submitTask`, `process`, `waitForAll`, destructor | each task runs once; a graceful destructor leaves nothing undone, and returns |
| futures, tasks (`src/thread_pool/primitives`) | a packaged task and its future | run; a waiting future waits in its destructor | a caller gets past its future only after the task |
| `SUMap`, `USet`, `IterableProxy` (`src/hash`) | buckets, each with a lock; a global lock; `m_size` | `mutate`, `insert`, `erase`, `drop`, `eraseRandom`, `iterate` | atomic per key; `m_size` is the number of elements; iteration sees each element once |
| `DocTrace` (`src/engine/doc_trace.cpp`) | `m_trace` (path to count), `m_stats` (view of a path to token count) | `addOrIncrement`, `eraseOrDecrement` | the count is the number of references; statistics exist for what is counted |
| `Shard` (`src/engine/shard.cpp`) | `m_record`, token to record of (document, position); a `DocTrace` | `insert`, `search`, `erase` | entries name counted documents; counts are entry counts |
| `Cache` (`src/engine/engine.cpp`) | a `SUMap` per kind of search, `m_clear` | `cache`, `search`, `invalidate` | what is cached is what the index holds |
| `SearchEngine` (`src/engine/engine.cpp`) | the parts above, a pool | index a file or a directory, search, rank, erase, `dump`, `restore` | a restart brings the whole dump back or fails; a stale dump is reported |
| tokenizer (`src/engine/engine.h`) | none | `tokenizeRange`, `rangeToStr` | a file's tokens are its words, and searches look for what was indexed |
| `contextualize` (`src/server/server.cpp`) | none | the text around a position | a range of the file as it is, with the token in it |
| server (`src/server`, `src/network/abstract/sstub.*`) | sockets, a packet queue, reader threads | accept, read, route, answer, `shutDown` | each request answered once; shutting down ends and leaves no request half done |
| client (`src/client`, `src/network/abstract/cstub.*`) | one connection per call | connect, write, read, close | an answer, or a failure |
| framing (`src/network/common`) | none | `split`, `serialize`, `deserialize`, `deserializeSize`, `read` | a packet read is the packet written |
| generator (`src/network/generator`) | none at run time | C++ messages and stubs from `proto/proto.txt` | |
| mmap, configuration, timer, utilities | none of interest | | |

How they interact. The accept thread reads a request and pushes it into the server's
`SafeQueue`; reader threads pop it, call a handler of `Anechka`, and write the answer. The
handlers call `SearchEngine` concurrently: there is no lock above the maps. Indexing a
directory and ranking a query hand tasks to the engine's `ThreadPool` and wait for the
futures. Each write goes first to the cache (`invalidate`), then to the `Shard`, which goes
to its `DocTrace` and then to the token's record.

What is hard. Condition variables with predicates that others change without the mutex
(`signalAbort`, the two job counters); an ordered set whose order changes while it is searched;
sequences of map operations that are atomic one by one only (`DocTrace`, `Shard`, `Cache`), with
counts that follow each of them; loops that hold a record's lock while inserts wait for it;
messages cut out of a byte stream; shutting down; handlers that throw; views of strings that have
been freed; a dump that a crash cuts short, and a restore into a live index from files that others
change. Nothing is retried.

## Modules

| module | what it models |
|---|---|
| `SafeQueue` | the monitor, `signalAbort` as a store and a notify that take no lock |
| `FifoChannel` | what a `SafeQueue` promises: sent, received in order, closed |
| `SafeQueueProofs` | theorems about `SafeQueue` |
| `ThreadPool` | `ThreadPool`, `QueueDispatch`, the queues inside it, the futures |
| `TaskPool` | what a pool promises: a task runs once, futures return after it, nothing is left at the end |
| `ThreadPoolProofs` | theorems about `ThreadPool`: its types, the set of queues, sleeping workers, where each task is, the two counters, the destructor, `clear()`, `ThreadPool` implements the safety of `TaskPool` |
| `SUMap` | what an operation of `SUMap` does to its bucket, and `m_size`, which follows later; no specification of its own |
| `DocTrace` | the steps of `addOrIncrement` and `eraseOrDecrement`, on two `SUMap`s; `Shard` extends it |
| `Shard` | `insert` and `erase` over `DocTrace` |
| `ShardProofs` | theorems about `Shard`: its types, the counts of its maps, references and statistics |
| `Backup` | `dump`, `restore`, the life of the process and the files, over `Shard` |
| `DurableIndex` | what `dump` and `restore` promise: a restart has the last dump or does not get through |
| `BackupProofs` | theorems about `Backup`: its types, the counts, references over restarts, what makes restore fail, when a dump counts as stale, `Backup` implements `DurableIndex` |
| `Cache` | `cache`, `search`, `invalidate`, `drop` against the writes of the engine, on `SUMap`s |
| `CacheProofs` | theorems about `Cache`: its types, what it serves, what a drop leaves |
| `IterableProxy` | the iterator of `core::IterableProxy` over buckets, as operators |
| `Query` | `searchQuery` with its tasks, the loops of the two token searches, `indexTxtFile` |
| `QueryProofs` | theorems about `Query`: its types, what a loop visits, that inserts stay, ranks, what a query returns |
| `Transport` | the byte stream: frame sizes, `detail::read`, as operators |
| `Framing` | `serialize`, `split`, `deserialize` and its short forms on top of `Transport`, as operators |
| `Tokenizer` | `tokenizeRange`, `rangeToStr`, what a mapped file shows, as operators |
| `Contextualize` | `contextualize` with the helpers that trim and escape, as operators |
| `Text` | files, handlers' names and contents that grow a character at a time, and what the three modules above make of them |
| `TextProofs` | theorems about `Text`: what the tokenizer, `contextualize`, `split` and `deserialize` return for every text |
| `Server` | `AbstractServerStub` and its clients' `execute`, over an instance of `SafeQueue` |
| `ServerProofs` | theorems about `Server`: its types, who holds a connection, whole messages, requests in order |
| `MC...` | values of constants for TLC |

Definitions carry the names of the code. A program counter per thread says where it is in the
function it runs, and the locks follow from the counters: a consumer in `prep` has found the
predicate of `pop` false and still holds the mutex, a submitter in `walk` holds `m_setMtx`. A
critical section that nobody can look into is one step; it is split where other threads read or
write what it uses without that lock. History variables (`stage`, `popped`, `inserts`, `surplus`,
`freed`, `lost`, `crossed`, `searches`, `mixed`, `seen`, `handled`, `touched`, `late`) are read by
properties, bounds and, where a step has no defined outcome any more, by `ReadAs` and `Dumps`.
Operators commented "Slip" are not part of any specification: each is the definition below it with
a plausible mistake, kept to show that a property notices.

**ThreadPool.** A worker goes `boot` (thread created) - `loop` (top of `process`) - `pop` -
`count`, `countup`, `run`, `countdown`, `notify` (the five statements after a pop) and back.
A submitter goes `count` (`m_jobCount++`) - `extract` - `push` - `insert` - `walk`. The walk
is `m_set.insert`: a descent by comparisons, each of which is two or four calls of
`getCurrentSize` that take the queues' mutexes one after the other, while workers pop. The
tree's shape is left open, any element of the remaining gap may be compared next. At the end
`std::set` asks whether the predecessor is really less than the new element; if the sizes have
changed so that it is not, nothing is inserted and the queue is lost to the set.
TLC finds behaviours in which that happens: the workers of the lost queue idle from then on. It also
finds that the set never runs dry: `SetNeverStarves`. The owner goes through the end of the
constructor and the destructor, reading `m_jobCount` and `m_runningJobCount` separately.
`m_shutDown` and `m_isInitialized` are plain `bool`s; the model reads them as a processor
does, once at each evaluation.

**SUMap, DocTrace and Shard.** Each `SUMap` operation is atomic under its bucket's lock, so each
is a step, and `m_size += diff` after it is another: until it comes `diff` says what the thread
owes. `SizesAddUp` says that the counts `tokenCount`, `docCount` and `loadFactor` read are off by
what is owed and by nothing else; for a moment an erase may be counted before the insert it
undoes, and the count read is that of an unsigned number below zero. Records live in `heap`, as
`shared_ptr`s do: a thread that searched a record still holds it when the index has another one.
The count has `CountWidth` bits. Inserts and erases run side by side, as `test/anechka_test.cpp`
(Comprehensive) runs them and as the server's readers do; nothing in the modules orders them.

A `string_view` is the path it was made from for as long as the path's key is in `m_trace`.
`m_stats` is keyed by such views. When `eraseOrDecrement` brings a count to 0, `mutate` erases the
key and frees its bytes (`umap.h:78`), and `m_stats.erase(path)` after it (`doc_trace.cpp:69`)
compares with a view of what was freed. `dangling` counts the views in `m_stats` whose key is
gone; at each use one of them may read as any path, or as none (`MayReadAs`). So the usual end of
a document is that its statistics stay, although `doc_trace.h:19-20` speaks of those "not in use"
as deleted, and what a later dump says of documents is whatever those bytes read as
(`SerializedTraces`), or, if they are not UTF-8, no dump at all (`WriteThrows`). Paths are taken
to be longer than the fifteen characters that fit into `std::string`'s own buffer; views of
shorter ones dangle as soon as a bucket moves its elements, which is not modelled.

What erases do to inserts beside them is in the properties. An erase between the two `mutate`s of
an add deletes the half-added path (`lost`): the insert gets no view, and its entry names the
empty path. Two erases that cross on a token, so that one takes away a newer record than the one
it found and goes through the older (`crossed`), leave the counts wrong for good: some entries are
counted down twice and others never. Once a key has gone after that, entries may be read through
views that dangle (`Astray`), an erase may count down any path and a dump may say anything.
`EntriesAreTraced` and `RefCountIsEntryCount` say that there are no other ways: unless erases have
crossed, each entry names a document that is held or is one of a lost add, and counts are the
numbers of entries. `addOrIncrement` counts before `addIfNotPresent` finds that the entry is
there, so a document indexed twice keeps a reference when all its entries are gone, although
`doc_trace.h:19-20` says it is deleted when not in use; `surplus` counts those repeats, and
`RefCountIsEntryCount` says that the count is off by them and by nothing else. `IndexedHaveStats`
is about servers from which no document has gone yet; of others `dangling` says how many
statistics are nobody's.

**Backup and DurableIndex.** `Backup` puts a process around `Shard`: it serves, dumps when the
server object is destroyed, starts, restores, and may be killed in any of these states; others
write and remove files all the while. Opening the dump empties it, so a process killed before it
is written leaves a file that does not parse, and every start after that ends in an exception
nobody catches. `restore` goes entry by entry through `last_write_time`, `m_stats.at` and
`Shard::insert` with its steps; the first two throw, and the process ends with a part of the index
in memory. `DurableIndex` knows none of this: its restart takes the last dump as a whole or does
not happen, and `ImplementsDurableIndex` is that `Backup` keeps that promise whatever comes in
between. `OnlyMissingFilesFail` says what may keep a server from starting: a dump cut short, a
file that is gone, or the dump of a server that saw a document leave the index, whose `m_stats`
may lack the document or have it under a key that dangles. The dump of a server that saw none go
has what restore looks up, whatever ran side by side. A server whose erases have gone astray may
dump any entries; `DurableIndex` then only says that a restart has some index (`known`). The
reference counts are not in the dump; restore makes them anew, without the surplus of repeated
inserts, and `RefCountIsEntryCount` holds before and after. Times are read with the epoch the file
clock has: libstdc++'s lies in 2174, so the counts of `last_write_time` are negative, are compared
as `size_t`, and every restored index with an entry is reported as stale; with an epoch in the
past `StaleFlag` says that the report is right. The instance has one epoch of either kind.

**Cache.** The index is the number of writes it has seen, a result is the value of the index when
it was computed. `SUMap::insert` and `drop` change `m_size` after the bucket, in a step of their
own. Searches and writes run side by side without any order. A search that runs beside a write may
cache what the write has made old, miss the drop, or leave a size or an `m_clear` that hides its
entry (`Cache_race`); `mixed` is the set of the kinds of search of which one ran beside a write,
and a kind leaves it when a drop that finds none of its searches under way goes through all of its
map. Of all other kinds `FreshUnlessMixed` and `DropMissesNothing` say that what is served is what
the index holds, and that neither early return, `m_clear` and `m_size == 0`, leaves an entry
behind: with any number of writes side by side, two drops of one map, and searches of the mixed
kinds beside them. `eraseRandom` takes away any number of entries: it reads the key it returns
from the slot it has just erased, so whether its loop goes on is up to what is left there. Bounds:
`MaxWrites`, `MaxSearches`.

**Query and IterableProxy.** A loop over a record takes the record's `m_globalMtx` alone and
gives it back when the proxy goes; an insert holds the lock of its token's bucket in
`m_record` while it waits for that `m_globalMtx` in `addIfNotPresent`, and keeps searches for
the token out meanwhile. A loop goes entry by entry with the iterator of `IterableProxy`, which
passes over empty buckets and compares iterators of different `unordered_set`s only at their
ends. Searches are of three kinds: the tasks of one `searchQuery`, `RequestTokenSearch`, which
stops at its threshold, and `RequestTokenSearchWithContext`, which leaves out the entries whose
file it cannot open. A task adds what it found to the query's map one document at a time; the
caller sorts when the destructors of the futures have returned. `std::partial_sort` may put
equal ranks in any order. Writers are the tasks of `indexDir`: each skips its file, or goes
through its tokens in order. The pool is what `TaskPool` promises, and what the tokenizer makes
of a file is a constant.

**Tokenizer, Contextualize, Framing and Text.** Pure functions are operators on sequences of
characters, one character for each kind the code tells apart. `Text` lets a file, a handler's name
or a message's content grow by a character at a time, so that its states are all texts up to a
length and its invariants say what the functions return for each. The tokenizer goes through runs
of letters and apostrophes, and a token's position is where it ends; a file's view ends at its
first NUL character. Searches lower the case of what they look for as indexing does;
`SearchEngine::erase` does not (`engine.cpp:230`), and `QueryFindsIndexed` says for which words a
deletion works all the same. `contextualize` moves two cursors until both are at an end of a
sentence, or one has run out of the file; an index that is older than the file may send it
anywhere, and `ContextHoldsToken` says that what it quotes is a range of the file as it is, and
holds the token if the file has not changed. It is not always sentences: for a token whose left
cursor comes to 0 the loop ends, or never begins, and the context stops where the right cursor is,
in the middle of a word perhaps, although `src/README.md:55` speaks of "the sentences where the
searched token appears"; and near the end of the file, or where a cursor runs out of it, the
context is empty. `split` joins an empty part and the delimiter after it to the next part, and
takes a delimiter cut off by the end of the text for a whole one; `PacketArrives` says that a
packet is read as it was written wherever `detail::read` stops, with its last character left in
the socket or not, and `CorruptIsError` that the two packets `serialize` makes when it has no
message never are read as one. A peer's metadata never arrive: `fromJson` is given a JSON string,
and its `at` throws.

**Server and Transport.** A message is the number of bytes of its payload. `serialize` writes a
size in front that counts its own digits and one more; `detail::read` returns when one byte less
than it was asked for is there, in as many chunks as the network likes; the two errors cancel for
most sizes, and `MessagesWhole` says what is left: where the size has a digit more than the
payload's the last byte may stay unread. The accept thread reads each request to its end before it
accepts the next connection; readers pop packets, handle, answer, close. Main closes the listening
socket, which lets `accept` return, joins the accept thread, signals the queue, joins the readers.
A mortal client may die before its answer: a `read` of 0 counts as progress of nothing, and the
accept thread spins for ever. A connection that is accepted after `shutDown` set `m_isDone` is
left open, and its client waits; so are those whose packets are still in the queue when it is
aborted. `LeftByShutDown` says that there are no others.

No handler's exception is caught: `recursive_directory_iterator` throws at a path that is a
regular file (`engine.cpp:102`), `dump(2)` at a context that cuts a character of more than one
byte (`server.cpp:301`, `303`), and the exception leaves `readFrames`, the function of a thread.
`Throw` is that step: the process is terminated, connections that were not accepted or had bytes
unread are reset, and the other clients' `execute` reads 0 for ever. `Served` and
`StopsOrKnownHang` name it. Which requests may throw is the constant `Throwing`.

## Runs

| run | instance | shows |
|---|---|---|
| `ThreadPool_safety` | 2 queues, workers 2 and 1, 2 submitters, 2 tasks, spurious wakeups; tasks symmetric | `TypeOK`; `JobAccounting`: neither counter drifts; `GracefulDrain`: after `waitForAll` no task is on its way, after the destructor none is undone, although a task between `m_jobCount--` and `m_runningJobCount++` counts nowhere (the `join` waits for it); `QueuedOnce`; `SetNeverStarves`; `NoTaskOverslept` |
| `ThreadPool_late` | 1 queue, 1 worker, 2 submitters, not graceful, `submitTask` allowed while the destructor runs, spurious wakeups of `QueueDispatch::m_cv` | `NoPopAfterClear`; `SubmitterServed`: who waits for a queue gets it |
| `ThreadPool_refines` | 2 queues with a worker each, 2 submitters, 2 tasks | `ImplementsTaskPool`, with liveness: accepted tasks run, waiting callers return |
| `ThreadPool_destroy` | 1 queue, 1 worker, 1 task | *violated*: `WaitForAllReturns` |
| `SafeQueue_monitor` | 2 consumers, 4 pushes of 2 values, spurious wakeups | `TypeOK`, `NoLostPush`, `ImplementsFifo` with liveness |
| `Backup_restarts` | 2 serving threads and the main thread, 3 inserts of 3 entries, repeats, a document under two tokens and another under one of them, erases of a token, all side by side, crashes and restarts without bound, one file that is written once and may vanish, file clocks with epochs past and future; serving threads symmetric | `BackupTypeOK`, `EntriesAreTraced`, `RefCountIsEntryCount`, `IndexedHaveStats`, `SizesAddUp`, `OnlyMissingFilesFail`, `StaleFlag`, `ImplementsDurableIndex` |
| `Shard_race` | 2 threads, 2 tokens of a document | *violated*: `EveryEntryTraced` |
| `Cache_sidebyside` | 3 threads, 3 writes, 3 searches, all side by side, 2 kinds of search, 2 tokens and a query, room for 1 entry | `TypeOK`, `FreshUnlessMixed`, `DropMissesNothing` |
| `Cache_race` | 2 threads, a token and a query, 1 write, 1 search | *violated*: `FreshAtRest` |
| `Query_search` | a query of 2 words, a token search, a context search; 2 files with a token in common; records of 4 buckets | `TypeOK`, `LoopSeesAll`, `RanksAddUp`, `TopRanked`, `IndexedStays`, `AllReturn` |
| `Server_serves` | 2 clients of which one may die and the other may make its handler throw, 2 readers, messages of 2 and 4 bytes read 2 at a time, `shutDown` | `TypeOK`, `OneHolder`, `MessagesWhole`, `LeftByShutDown`, `Served`, `StopsOrKnownHang` |
| `Text` | files of up to 5 characters of 7 kinds, contents of up to 6 characters of 3 kinds, 3 handlers' names | `TokensAreWords`, `QueryFindsIndexed`, `ContextHoldsToken`, `PacketArrives`, `CorruptIsError` |

Why the bounds are enough. Two queues are the least at which the order of the set matters, and two
submitters the least that compete for it; the third worker shares a queue with the first. One
queue makes every submitter wait for another. Two threads can be in the two halves of
`addOrIncrement` at once and owe two counts, one can erase between the two halves of the other's
add, and two erases can cross; three inserts are enough for an entry to be inserted, repeated,
taken and inserted again, or for a token to get a newer record between two erases that cross; a
document under two tokens loses one entry and keeps the other. Restore brings up to three entries
back without being counted against them. One write of a file is before, between or after a dump
and its restart; one of the two documents has a file that stays. Times of 4 bits hold every time
and every epoch of the run, so that a negative count is far above all others, as with 64. Capacity
1 makes the second cached entry evict. Three threads are two drops of one map and a search beside
them. The entries of the record that three searches share leave two buckets in a row empty, and
both writers insert into it, one of them a document the query finds twice. Numbers are written to
base 4 in the server's runs, so that messages of one and two bytes show both cases of the size's
digits, and are read in more than one chunk (`MaxDigits`, 20 for a `size_t`, is 3 there and 4 in
`Text`, enough for every size written); in `Text` they are written to base 5, and the lengths go
past the one where the size has a digit more. There the cursors start 1 from the position, not 10,
and files of 5 characters have room for a word, an end of a sentence on either side of it and
something beyond; the boundary has 5 characters, begins and ends with dashes as the real one does,
and contents that nearly hold it fit into 6. Two clients and two readers are the least that
compete for the queue. TLC does not stop at "deadlock": every one of these systems ends by itself,
when the calls it was given are used up.

What is violated, and how:

- `ThreadPool_destroy`. The owner reads `m_runningJobCount` as 1; the worker decrements it and
  notifies, without `m_waitMtx`; the owner goes to sleep. Nobody notifies again.
- `Shard_race`. Thread 1 has pushed a new path with count 0; thread 2 adds a reference to
  the path, inserts its entry, and erases its token, which brings the count back to 0 and deletes
  the path; thread 1's second `mutate` pushes the path again and yields no view.
- `Cache_race`. A search reads the index; a write invalidates the cache, stores; the search
  caches what it read.

`shutDown` may not return either, and `StopsOrKnownHang` in `Server_serves` names the only three
reasons. A reader has evaluated `!m_tasks.empty() || m_abort` as false and not yet gone to sleep
when `signalAbort` stores and notifies, without `m_mtx`: the `join` waits for that reader, as the
`join` in the pool's destructor may. Or the accept thread reads on from a client that died in the
middle of its request. Or a handler throws and takes the process with it.

Two things a reader of the code may not expect come out of passing runs: a dump cut short, a file
removed, or a dump written after a document had left the index may keep every later server from
starting, and a word with capitals cannot be deleted as it stands in its file while `to_lowercase`
is on.

## Fairness

`ThreadPool!Fairness` and `SafeQueue!Fairness` ask weak fairness of each thread: a `std::thread`
that can take a step all the time takes one. Nobody has to submit, push, abort or destroy. Weak
fairness is enough where it is used: mutexes are held for one step of a thread that is scheduled,
and the instances for liveness have finitely many tasks. `ThreadPool`'s liveness is checked
without spurious wakeups, since a worker that wakes and sleeps without end would hold its queue's
mutex infinitely often and a submitter weakly fair only might never get it; safety is checked with
them. `SafeQueue`'s is checked with them.

`Server!Fairness` asks the same of the accept thread, of each reader, of main once it is in
`shutDown`, and of each client that has connected, which includes that bytes once sent arrive.
Nobody has to connect, to die, or to shut the server down. `Query!Fairness` asks it of each
search, each writer and the caller; the locks are held for finitely many steps, but a
`std::shared_mutex` promises no order, and the instance is finite, so that who waits is not
overtaken for ever.

## Proofs

Every module below is about instances of any size. The invariants named here were checked by TLC
on the instances of the runs before they were proved.

`SafeQueueProofs` (any number of consumers, values, pushes):

- `TypeCorrect`: `TypeOK`. It needs `SizeIsLength` (`m_size` is the length of `m_tasks`), since
  `m_size - 1` is a natural number only then.
- `NoPushIsLost`: `NoLostPush`. Inductive with `PrepFoundEmpty`: a consumer that is about to
  sleep, and has the mutex, has found the queue empty and it still is. Each push adds one task
  and moves one sleeper to `pop`; each pop takes one task and one consumer. The proof is
  arithmetic on the cardinality of the set of consumers at `pop`.
- `FifoRefined`: every step of `SafeQueue` is a step of `FifoChannel` or changes nothing it sees
  (`sent` is what was popped followed by what is queued).

`ThreadPoolProofs` (any number of queues, workers, submitters, tasks):

- `TypeCorrect`: `TypeOK`. Inductive with `HandsTyped` (a worker between pop and notify has a
  task, a submitter inside `submitTask` has one, a submitter between extract and the end of
  the insert has a queue) and `WalkInside` (the descent stays within the set, which nobody
  changes under `m_setMtx`).
- `SomeQueueIsLeft`: `SetNeverStarves`, with `QueuesApart` (a queue is in the set once or in one
  submitter's hands). An insert at the front of the set always succeeds, and one that is refused
  has a predecessor in the set: nothing needs to be known of the sizes that are compared, which
  is why it holds although they change under the comparison.
- `NoTaskIsOverslept`: `NoTaskOverslept`, as in `SafeQueueProofs`, queue by queue, for the queues
  inside the pool, whose workers also come and go between tasks.

The others rest on `StageInv`: the types and `PlaceInv`.
`stage` says how far a task has come, and `PlaceInv` says that this is so: a submitter between
`m_jobCount++` and the push has the task its stage names and nobody else has it
(`SubmittersHold`), what is in a queue is queued, once (`QueuesHold`), a worker between pop and
the end of `task()` has a task at the stage of its place and nobody else has it
(`WorkersHold`), and a task under way is held by one of these (`TasksHeld`). None of the four
is inductive without the others: a push needs to know that its task is in no queue, a pop that
no worker has it.

- `CountersAreExact`: `JobAccounting`, `submitTask` beside the destructor included. Each step that changes a counter moves exactly one task
  into or out of `InJobCount`, or one worker around `task()`; that the worker's task is at the
  stage its place says is what `PlaceInv` gives. The rest is arithmetic on cardinalities.
- `TasksAreInOnePlace`: `QueuedOnce`. It follows from `StageInv`; that a queue is no longer than
  there are tasks is an injection of its positions into them.
- `DestructorDrains`: `GracefulDrain`, with `DrainInv`: nobody is inside `submitTask` while the
  pool is destroyed, so once `ReadJobs` has seen zero, which by `JobAccounting` means that no
  task is counted, none comes any more. A task between the two counters has a worker, and a
  dead pool's workers have all ended.
- `ClearStopsPops`: `NoPopAfterClear`, an action property. With `ClearInv`: a worker inside `pop`
  is registered, and while `clear()` runs its queue is aborted or still to be visited; a worker
  that registers later finds `m_shutDown` set and does not get as far as `pop`. And a task leaves
  its queue by a pop only, which is what `PlaceInv` says of those who count and run tasks.
- `TaskPoolRefined`: if `IsGraceful` and not `LateCalls`, every step maps to a step of `TaskPool`
  or to none, under the mapping at the end of `ThreadPool`. Besides the invariants above it needs
  `CallsInv`: what a submitter submits or waits for has been accepted. It is the safety of the
  property `ImplementsTaskPool`; its fairness is checked by TLC.

`ShardProofs` (any number of threads, documents, tokens and inserts, with erases beside them):

- `TypeCorrect`: `TypeOK`. Inductive with `CallsTyped`: an insert on its way has a position of
  `Inserts`, an erase that is about to take a record away has found one that exists and owes
  nothing, and a thread outside a call to `DocTrace` is not inside it.
- `CountsAddUp`: `SizesAddUp`. Inductive with the types and with `KeysFinite`. An operation that
  changes the number of keys by one makes its thread owe the same, and `m_size += diff` pays it;
  that the difference may be added before or after wrapping (`WrapOne`) is why an erase counted
  before the insert it undoes does no harm although `m_size` is below zero in between.
- `EntriesTraced`, `RefCountsRight`: `EntriesAreTraced` and `RefCountIsEntryCount`, if `CountsFit`
  (the count has room for every insert: it is a `size_t`), from `RefsInv`: no two tokens share a
  record (`RecordsApart`) and, until two erases cross, `Straight`. At rest is too late to know a
  count; `CountsRight` says at every step that a document's count is the number of its entries, in
  the index or in the hands of an erase (`Held`), its surplus, and the threads between its count
  and its entry: inserts that have counted it and inserted nothing yet, and erases that have taken
  an entry away and not counted it down (`Going`). The threads that have still to count (`Coming`)
  come on top, and with them what is `Due` is never more than the inserts so far (`DueOfInserts`),
  so nothing wraps. Another erase may delete the document between the two halves of an add, with a
  count that was 0 because nobody else referred to it: `CallsPlaced` says that only a document in
  `lost` leaves an insert without a view. An erase that finds in the index the record it has
  looked up is alone with it (`IteratedApart`); one that does not is what `crossed` stands for.
- `StatsOfIndexed`: `IndexedHaveStats`, with no assumption, from `StatsInv`. Until a document goes
  (`NothingGone`) no view dangles, documents in the trace have statistics or a thread on its way
  to add them (`Stating`), and every name a thread or an entry has is in the trace, so that no add
  is lost and no erase deletes anything that somebody else still counts on.

`BackupProofs` (the same, with any number of restarts, writes and removals of files):

- `BackupTypeCorrect`, `CountsAddUpOverRestarts`: `BackupTypeOK` and `SizesAddUp` again, with
  `DumpInv` (nothing is left to restore but while restoring, and only a whole dump, or one being
  written, has entries). A process that is killed leaves empty maps and no debts.
- `EntriesTracedOverRestarts`, `RefCountsRightOverRestarts`, `StatsOfIndexedOverRestarts`: the
  three properties of `Shard`, if `CountsFit`, with `RestartInv`: `RestoreInv`, `RefsInv` and
  `StatsInv`, and that what is left to restore and what is counted stay within the inserts
  (`LeftBounded`), because the tokens and positions in the index, on their way and in the dump do
  (`NamedBounded`). `restore` is alone, so its inserts count as those of any thread, and a process
  that has ended has no index (`DownIsBlank`).
- `MissingFilesFail`: `OnlyMissingFilesFail`, if `CountsFit`. The dump of a server that kept its
  documents has the statistics of every document its entries mention (`DumpTraced`), since
  `NothingGone` holds when it is written, so `m_stats.at` does not throw and only
  `last_write_time` can.
- `StaleFlagRight`: `StaleFlag`, an action property, with `StaleInv`: while a dump is restored,
  `isStale` is what the entries taken so far say, and the times of the files tell which of them
  were touched. It assumes `ClocksApart`: times fit into their width, and an epoch is 0 or later
  than any time without coming near the width's end. libstdc++'s epoch is of the second kind, and
  those of the other libraries are the first.
- `DurableIndexRefined`: `ImplementsDurableIndex`. It rests on `IndexInv`. While a dump is
  restored, its entries are those in the index, the one on its way (`Pending`) and those left
  over; an entry on its way reaches the document it was dumped for (`RestoreOnItsWay`), because
  the first mutate of `addOrIncrement` leaves the document in `m_trace` and nobody else is there
  to take it away before the second. No two tokens share a record (`RecordsApart`), so that an
  insert adds one entry and an erase takes its token's and no other's. Each step then maps to one
  of `DurableIndex` or to none, and to `GoAstray` where erases have crossed and a key has gone:
  all of `restore` is hidden until `RestoreDone`, which is `Restart`.

`CacheProofs` (any number of threads, keys, kinds of search, writes and searches, any of them side
by side; any capacity), if `SearchesFit` (`m_size`, which is a `size_t`, has room for one entry
for each search):

- `TypeCorrect`, `CacheIsFresh`, `DropIsComplete`: `TypeOK`, `FreshUnlessMixed`,
  `DropMissesNothing`, from `CacheInv`. It speaks of the kinds that are not `mixed`, whose
  searches have no write beside them (`Apart`), and of the entries of such kinds that no drop
  under way will take (`Staying`): two writes may be in one map, and an early return of one is
  right although the other is not through yet, for then it is the other that will empty what is
  left. `m_size` follows the bucket in a step of its own, so at every step it counts at least the
  `Staying` entries of its kind less those inserted and not counted yet, and never more than there
  were searches (`Counted`); a write that finds the size 0 passes a map over, and as no search of
  the kind is under way nobody owes a count, and 0 means that nothing stays. What is cached or
  about to be is what the index holds (`Fresh`), `m_clear` is true only of a cache in which
  nothing stays (`ClearIsEmpty`), and what a write has visited has nothing that stays (`Emptied`).
  A kind that is mixed gets out of it by a drop that meets no search.

`ServerProofs` (any number of clients, readers, payloads, chunks; the queue is an instance of
`SafeQueue`):

- `ServerTypes`, `OneHolderEach`, `FramesArriveWhole`: `TypeOK`, `OneHolder`, `MessagesWhole`,
  from `ServerInv`. It says which thread has which connection in which of its states, that one in
  the queue is in no reader's hands, and how many bytes have been read and are still to come:
  never more than the frame has. What a number's digits are is derived from `PowersAssumption`,
  which says of `Base ^ d` that it is the power (the provers know nothing of `^`), for frames that
  `Fits` says have a size a `size_t` holds.
- `NothingElseLeft`: `LeftByShutDown`, with `Joined`: the backlog is empty from the moment main
  closes the listening socket, and main has ended only after the accept thread and the readers; a
  connection is in one of its places by `SomePlace`, and no reader that has ended has one.
- `QueueIsFifo`: what the accept thread pushes into `m_queue` leaves it once and in order, and
  nothing leaves it after the abort. `Server` runs the actions of `SafeQueue` inside its own, each
  of which is therefore a step of `FifoChannel` or changes nothing it sees.

`QueryProofs` (any finite set of searches, with finite records; any number of writers, tokens,
documents, buckets, and any hashes):

- `TypeCorrect`: `TypeOK`, `NothingIndexedIsLost`: `IndexedStays`.
- `LoopsSeeAll`: `LoopSeesAll`. `LoopsInv` says of each loop at every step that what it has
  visited is what its iterator has behind it (`Visited`), and that this is what it counted or
  listed. It holds because no insert gets into a record while a loop runs through it, and because
  no entry is in a record twice (`RecordsInv`): `IncrementedRight` is that `operator++` leaves
  exactly one entry more behind, whatever empty buckets it passes over, and `DiffersIs` that a
  loop compares unequal to `end()` until there is nothing left.
- `RanksAreWhole`: `RanksAddUp`. `RanksInv` says that a document's rank is the sum of the parts
  the tasks have added so far (`Parts`), once, in the bucket its hash names; each `mutate` adds a
  whole part. The snapshot is as long as there are documents because the buckets are disjoint.
- `BestFirst`: `TopRanked`, with `ResultInv`: nothing changes the map after the last task, so what
  was sorted is what the map holds.

The model of `Query` uses sums, least elements and flattened sequences of the community modules.
The library's induction theorems take operators as parameters and cannot be used, so the lemmas at
the beginning of `QueryProofs` are proved from the least element of a set of natural numbers
(`LeastNatural`, from `WellFoundedInduction`) and of a finite set's subsets (`LeastSet`): a
smallest counterexample would have a smaller one.

`TextProofs` (files, names and contents of any length over any alphabet, numbers in any base,
boundaries of any length):

- `TextInvariance`: `TextInv`, which has the types: a name is letters, the content is made of its
  characters and no file is written beside them. The five properties are about what functions
  return for such texts; nothing else is known of how a text came about.
- `TokensAreTheWords`: `TokensAreWords`. `TokensRight` says of the loop of `tokenizeRange` from a
  position on that its tokens are the words that end behind it. `View` and words are those of the
  file up to its first NUL.
- `QueriesFindIndexed`: `QueryFindsIndexed`. `QueriesRight` says that a query is cut as a file is,
  so that its words are the tokens, and that a word by itself is cut into itself.
- `ContextsHoldTokens`: `ContextHoldsToken`. Both cursors of `contextualize` stop at an end of a
  sentence or the loop gives up (`SettledIs`), the left one before the token and the right one
  behind it, since a token has no end of a sentence in it; trimming and escaping go through what
  is between them a character at a time and leave the token there (`ContextRight`).
- `PacketsArrive`: `PacketArrives`. Digits come first and are what `std::stoul` turns back into
  the number `std::to_string` wrote (`NumberIs`), wherever in the boundary the header ends
  (`FrameIs`). `split` finds the boundaries that `serialize` put there and no other (`SplitFrom`,
  `PartEnds`): none begins in what stands between them, none across the end of the content, whose
  last brace is in no boundary, and none within another. The fourth part may be cut short by a
  character, and a frame still has four (`FourParts`, `FrameArrives`).
- `CorruptIsProtocolError`: `CorruptIsError`, where two boundaries meet, the second of which is
  text to `split`, so that three parts are left (`ThreeParts`, `CorruptFails`, `NullFails`); what
  the wrong size of the frame of nothing cuts off is metadata only.

The loops are recursive functions. That such a function exists, and that it has the values its
equation says (`RecursionExists`, `RecursionsAgree`), is proved from the least element of a set of
numbers: the least argument for which it were otherwise is one whose recursive call goes wrong
already. What a loop computes is then the same argument on the positions it goes through.

Of the boundary these proofs assume what is true of `--RF@B&@*HJNSINc8nKLnddHQ--`: it begins with
the dashes `deserializeSize` looks for, has no brace, and begins with a character that is in no
digit, no handler's name and no metadata (`BoundaryAssumption`, `BetweenAssumption`,
`FramesAssumption`), and no copy of it begins inside another (`OverlapAssumption`: it has two
dashes at either end, but an `R` behind the first two). The digits are different and as many as
the base (`DigitsAssumption`). A frame's size is written with fewer digits than the 20 characters
of the prefix, which are fewer than three boundaries have (`PrefixAssumption`,
`FramesAssumption`): a `std::string` is shorter than 2^63, which is less than 10^19.
`contextualize` starts 10 characters from the position, and `Reach` is any positive number
(`ReachAssumption`). Letters and apostrophes are no blanks, control characters, ends of a sentence
or NUL, and the lower case of a letter is a lower-case letter (`BlanksAssumption`,
`LettersAssumption`).

The assumptions are those the modules name: finite sets of queues, workers, tasks, consumers,
threads, searches and clients, at least one token, queues identified by natural numbers, and each
worker's queue one of the queues. That `2 ^ w` is a positive number for the widths of the counts
is assumed by name too (`SizeWidthAssumption`, `WidthAssumption`, `TimeAssumption`), since
deriving it is an induction. TLC evaluates all of them in the runs, whose instances also satisfy
`CountsFit`, `ClocksApart` and `SearchesFit`; no theorem assumes anything of the order in which
threads run.

Checked by TLC only: everything under fairness, which is out of the prover's reach (`AllReturn`,
`Served`, `StopsOrKnownHang`, `SubmitterServed`, the liveness in `ImplementsTaskPool` and
`ImplementsFifo`). Every other property of a passing run is proved.

## Not modelled

Left open: sockets that fail or are reset (`read` below 0, `write` to a peer that is gone, sizes
that do not parse), since the peers are this program's own clients; what a view that dangles reads
as, and entries read after erases have crossed, beyond that they may be anything; `USet::erase`,
`emplace` and the snapshots as lists, which nobody calls; views of paths short enough for
`std::string`'s own buffer; plain `bool`s as the C++ memory model has them, whose races have no
defined outcome at all; a file that exactly fills its pages, whose text has no NUL character after
it; a server that does not dump or does not restore (`is_persistent`, `is_restoring_on_start`).

Left out for good: the code generator (it runs at build time and keeps nothing), the walk through
a directory, memory mapping but for what a view shows, the formats of JSON and BJData, hashing,
the wording of answers, printing, and the timer. `README.md`'s instructions for users and the
tests under `test/` were read for what they expect of the program.
