# A TLA+ verification of the CSE-511 distributed system

The repository holds three systems built on Sun RPC: a distributed lock
manager, a distributed shared memory (DSM) and a thread migrator. This
directory holds TLA+ models of them, the TLC configurations that check the
models on small instances, and theorems about them that TLAPS checks for every
value of the constants.

## The system

**Lock manager.** Every machine runs a lock server
(`psu_dist_lock_mgr_server.c`). Client programs call the server of their own
machine through `psu_dist_lock_mgr.c`: `psu_init_lock_mgr` passes the node
list, `psu_acquire_lock` and `psu_release_lock` work on a lock number. The
server of the acquiring thread chooses a sequence number and asks the other
servers, one after the other, by the RPC `request` (Ricart and Agrawala). A
server that prefers its own request defers the reply: the thread that handles
the request records a mutex in `lockvar->deffered` and locks it twice;
`release_lock` unlocks the recorded mutexes.

**RPC runtime.** `utility.c` gives each incoming call a thread (`dispatcher`,
`run`) and creates clients with a timeout of one hour (`create_client`, which
ends the process if it cannot connect). The lock server and the thread
migrator use it. The `*_msg*` files are `rpcgen` output, except
`parse_thread_data`.

**DSM.** Servers (`psu_dsm_server.c`) keep a directory and a page list
(`util.c`) and call each other to find pages; their dispatcher
(`psu_dsm_msg_svc.c`) has a single thread. Clients (`psu_dsm.c`) create a page
with `psu_dsm_malloc` and fault pages in from a SIGSEGV handler.

**Thread migrator.** `psu_thread_migrate` sends the context and the stack of
the calling thread to a server, which forks and resumes it
(`psu_thread_server.c`); the calling thread exits.

| Part | Processes and state | Where concurrency or failure enters |
|---|---|---|
| Node table (`nodes`) | one array per lock server | `init_lock_mgr` in several threads with `strtok`; request loops read it meanwhile |
| `LockVar` | one per server and lock number | acquire, release and request threads; only acquirers share a mutex |
| Lock servers | one per machine | `exit` when a peer is unreachable, restart without memory, calls given up, ignored status |
| Dispatcher | one loop, one thread per call | transports freed and reused by the loop while threads hold their address |
| DSM directory, page list | per DSM server | calls that block between single-threaded servers, timeouts, NULL results |
| Thread migration | caller, server, forked child | a failed call, a late answer, the address of the stack |

The hazards that follow from this are listed in `PROJECT.json`, each with the
properties that bear on it. Where the code does not withstand a hazard, its
note says so and names the property that makes an exception of it.

## Modules

| Module | Contents |
|---|---|
| `LockMgr` | the lock manager for one lock number: state, actions, fairness, properties |
| `LockMgrInvariant` | its inductive invariant `IInv`, and `CalmInv` for two nodes without faults |
| `LockMgrStepProofs`, `LockMgrProofs` | step lemmas and theorems of `LockMgr` |
| `LockService` | what `psu_dist_lock_mgr.h` promises: an abstract lock |
| `LockMgrRefinement` | `LockMgr` seen as a `LockService` |
| `NodeTable`, `NodeTableProofs` | concurrent calls of `init_lock_mgr` on one server; theorems |
| `LockRestart` | the lock manager with servers that die and are started again, calls that are given up, and overflow of the numbers |
| `LockRestartInvariant`, `LockRestartProofs` | its inductive invariant `RInv`; theorems |
| `Dispatcher`, `DispatcherProofs` | `utility.c`: the loop, the threads, the transports; theorems |
| `DsmUtil` | names, keys and lists of the DSM, as operators |
| `DsmServer` | the DSM servers and the calls between processes |
| `Dsm` | the DSM clients on top of the servers: the composed specification and its properties |
| `DsmInvariant` | its inductive invariant `IInv` |
| `DsmStepProofs`, `DsmProofs` | step lemmas and theorems of `Dsm` |
| `ThreadMigration`, `ThreadProofs` | the thread migrator; theorems |
| `ThreadService` | what `psu_thread.h` promises: one thread that moves between machines |
| `ThreadRefinement` | `ThreadMigration` seen as a `ThreadService` |
| `MCLockMgr`, `MCNodeTable`, `MCLockRestart`, `MCDispatcher`, `MCDsm`, `MCThreadMigration` | the instances that the configurations use |

In all modules a definition whose name has a suffix after an underscore and is
followed by the same definition without it (`Defers_NoTie`, `Defers`) is a wrong
version, the way a slip in the code would make it; no action uses it. It
serves to confirm that the properties notice the slip.

Variables named `excuse`, `misuse`, `gaveup`, `raced`, `skipped`, `granted`,
`died`, `abandoned`, `lost`, `noes` and `creators` are history: no guard reads
them. `crashes`, `starts` and `timeouts` of `LockRestart` serve as bounds.

### `LockMgr`

`nodes` is the server's array of peers; `token` is the position of
`init_lock_mgr` in its node list and `inits` counts completed initialisations
(`has_initialized`). `lock`, `requesting_cs`, `myseqno`, `highestseqno` and
`deffered` are the fields of `LockVar`. `pc[t]` is where the call made by
client thread `t` is; `loaded`, `next` and `cursor` are the register and the
two loop indices of the acquiring or releasing server thread. There is one of
each per node because `lockvar->lock` admits one thread. An acquirer waits for
one request at a time, so a node has at most one live handler elsewhere:
`call[n]` is its stage and `reg[n]` its register. `late` and `lateStore` hold
what is left of handlers whose caller gave up. `granted`, `skipped` and `raced`
record which peers replied to the current acquisition, which calls failed, and
which data races have taken effect on a `LockVar` (`"lost"`: a store lowered
`highestseqno`; `"early"`: the load of line 126 overtook the store of line
125).

Line numbers are those of `psu_dist_lock_mgr_server.c`.

| Actions | Code |
|---|---|
| `psu_init_lock_mgr`, `InitToken`, `InitDone` | 70-114, one step per token |
| `psu_acquire_lock`, `TakeMutex` | the client's call; 120-125 |
| `LoadHighest`, `StoreSeqno` | 126, load and store |
| `TakeMutexEarlyLoad`, `FlagVisible` | 123-126 with the store to `requesting_cs` delayed |
| `SendRequest`, `ReplyReceived`, `RequestTimesOut`, `EnterCS` | 127-142 |
| `HandlerLoad`, `HandlerReload`, `HandlerStore` | 170: `MAX` is a macro that loads `highestseqno` twice |
| `HandlerCheck`, `HandlerTie` | 172-174: `myseqno` is loaded twice |
| `HandlerAppend`, `HandlerAppendLost`, `HandlerLock` | 176-184 |
| `LateLoad`, `LateStore` | 166-170 in a handler whose caller gave up |
| `psu_release_lock`, `WakeDeferred`, `WakeDone`, `FreeDeferred` | 144-163 |

Each access to a field that threads share without a mutex is a step. Undefined
outcomes are choices: concurrent appends may lose one entry, and a mutex that
is unlocked and destroyed before its handler has locked it either lets the
handler through or makes it block.

Abstractions:

- One lock number. `LockVar`s share nothing but the list that `find_lockvar`
  searches under its own mutex, and creation gives the values of `Init`.
- Nodes are names and `Mac` a number per node; the node list is a sequence of
  nodes and every list names all nodes (assumption `LockMgrAssumption`, which
  also says that addresses differ).
- One client process per node, so `has_initialized` of the client and of its
  server agree. A call before initialisation prints an error and changes
  nothing; it is not a step.
- Only a holder releases. Calls between a client and its own server do not fail
  and are not given up after an hour, servers do not die, numbers do not
  overflow: all of these are in `LockRestart`. Calls of `init_lock_mgr` on one
  server are sequential: see `NodeTable`.
- An abandoned handler changes `highestseqno` and nothing anyone waits for;
  its append is not represented, nor is its part in a lost append.
- The two loads of `MAX` are one step in an abandoned handler.
- Races on the memory of `deffered` (reallocation, use of a freed array) are
  represented by the lost entry only.

### `NodeTable`

Several threads of one server run `init_lock_mgr_1_svc` (70-114). `strtok`
belongs to the C library and is modelled from its use: `olds` is the one
position it keeps for all threads, `cut` the commas it has overwritten, `at`
and `last` what a thread inside it has loaded and found. `strtok_copy` and
`strtok_null` begin a call of `strtok`, `strtok_scan` finds the end of the
token, `strtok_store` writes the NUL and the new position, `strtok_end` returns
NULL and ends the loop. `has_found`, `append` and `append_overwritten` are the
body of the loop; the last is the outcome of two appends at once. All calls
pass the same list, as the machines of one system do. A position is a pair of
a copy and a token in it: a thread may go on in the copy of another one.

### `LockRestart`

The lock manager when calls fail, for one lock number, with one step per
handler except where a handler waits. All servers run at the beginning.

A server ends because somebody stops it (`Crash`), because `create_client`
cannot reach a peer and exits (second alternative of `request`), or by the
assertion of `release_lock` (`ReleaseUnlisted`). `Dies` forgets the server's
memory and ends the threads in it; its clients return and the servers that wait
for it go on, since nobody looks at the status (`Returned`, `ThreadAfter`).
`Start` is a new server with an empty table and list; its clients still believe
it initialised.

The hour of `create_client` may also end while the server lives. A client that
gives up `init_lock_mgr`, `acquire_lock` or `release_lock` returns
(`CallTimesOut`), and the server's thread goes on with the call: therefore every
call `j` of a client, a pair of the client and a number, has a thread of its
own, and `Reply` reaches the client only if it still waits for that call. A
server that gives up a `request` asks the next peer (`RequestTimesOut`), and the
request stays in `requests` until the peer handles it, however late
(`request_1_svc`; `Awaited` tells whether anyone still waits).

| Actions | Code |
|---|---|
| `psu_init_lock_mgr`, `psu_acquire_lock`, `psu_release_lock`, `create_client_exits`, `CallTimesOut` | `psu_dist_lock_mgr.c`, with `create_client` of `utility.c` |
| `init_lock_mgr`, `find_lockvar`, `TakeMutex`, `request`, `RequestTimesOut`, `Acquired` | `psu_dist_lock_mgr_server.c` 70-142 |
| `request_1_svc`, `ReleaseListed`, `ReleaseUnlisted` | 144-187 |
| `Crash`, `Start` | a server stopped and started by somebody |

The constant `others[n]` is the list of machines given to `n`, less `n` itself,
which `init_lock_mgr` appends. Sequence numbers are ints that wrap at `MaxInt`
(the build does not optimise). `died` are the machines whose server has died,
`abandoned` those on which a client has given up a call, and `skipped[n]` the
peers that `n` gave up in its last acquisition. The races inside handlers are
left to `LockMgr`.

### `Dispatcher`

One connection per call, as `create_client` and `clnt_destroy` make it. The
loop of `svc_run` is the library's (`accept`, `svc_destroy`, marked external);
`dispatcher`, `local`, `sendreply` and `freeargs` are `utility.c` 98-158. A slot
is the memory of a transport; a thread keeps its slot, and whatever connection
has the slot when it is used gets the effect. Using a freed slot may kill the
server or not (`Touch`). `svc_freeargs` on such a slot moves the stream position
of the connection that has it now; the model has no stream and records the
misuse. The reply to a connection that took over the slot
carries that connection's transaction number, because it is kept in the
transport. `rqstp` is the request object of the loop, `worker[k].rqstp` the
copy that the thread got. The timeouts of `create_client` and the death of a
client are the fault `"giveup"`. Transports for UDP are not modelled: the
clients of the repository use TCP.

### The DSM

`DsmUtil` has the conversions as the code performs them: `strncpy` into
`NAME_LEN` bytes without a final zero, the bytes of the size that follow in
memory, `hash` reduced to a `key_t`, lists whose head is passed by value.
`insert_dir` and `insert_dsm` therefore leave an empty list empty.

`DsmServer` has one job per server, since a handler that calls another server
keeps its own from serving. `segv_handler` is modelled for a fault behind the
first page of an attached allocation; it runs in the same way after any other
SIGSEGV, which is then a fault of the application itself. A call is in `calls`
until its server takes it; `waits` and `reply` are the caller's side.

| Actions | Code |
|---|---|
| `page_find`, `page_locate`, `page_request` | `psu_dsm_server.c` 16-26, 28-48, 269-283 |
| `page_creat`, `creat_skip`, `creat_ask`, `creat_answer`, `creat_local`, `creat_no_shm` | 80-98, 140-158, 203-238 |
| `CallFails` | the timeout or broken connection of a stub, and the end of its caller: servers and fault handler dereference the NULL, `psu_dsm_malloc` exits |
| `psu_dsm_init`, `psu_dsm_malloc`, `malloc_attach` | `psu_dsm.c` 112-177 |
| `segv_handler`, `segv_request` | `psu_dsm.c` 32-110, with an uninitialised page and a destroyed client handle as choices |
| `Crash` | a server stopped from outside |

A call fails when the callee has died or is itself waiting for a waiting
server, which no scheduling can resolve; with the fault `"slow"` also at any
other time. The branches for a page that is in a directory set the flag `hit`
and stop there. Theorem `NeverHit` says that this never happens, so the model
leaves out no step the program can take: `page_creat` 97-137 and 158-200,
`page_locate` 49-76, `page_request` 284-371, `page_update` and `page_fetch`
are dead code. Among what they contain, the uninitialised `mode` of line 286
and the holders' bits that are never cleared would need attention if the lists
were repaired.

### `ThreadMigration`

A copy is the original thread or a process forked to continue it. Its record
holds where it runs, the call of `MIGRATE` it has made and what it got with its
stack: `moved` is `has_migrated` as copied, `sound` says whether the stack is
the one it ran on. The code is built without optimisation, so
`psu_thread_migrate` finds its variables through the frame pointer of the old
stack: at the same address they are there, at another one the copy reads
anything or dies (`setcontext`, `setcontext_elsewhere`). The node of a next
migration is read in the same way, so such a copy may call any node. `pthread_getattr_np` in
a forked copy returns the stack of the server's thread, so the stack of a
second migration is never sound. Faults are a crash of a server, a timeout, a
failing `fork` and arguments that cannot be decoded.

`ThreadService` is the thread that a user of `psu_thread.h` sees: what it is
doing (`life`), where it is or is bound for (`at`), and whether something has
gone wrong (`fault`). `ThreadRefinement` maps the last copy to it. A copy with a
call of `MIGRATE` whose fork is still to come counts as on its way, even when
its caller has given up, because the server may still bring it to life. A fork
is therefore no step of the service, and neither is the return of `migrate_1`.

## Runs

Deadlock is not checked: clients may stop asking, programs end, and a deferred
caller may wait for ever (`acquire_returns`).

| Run | Instance | Result |
|---|---|---|
| `two_nodes` | 2 nodes, 1 client each, 2 calls each, timeouts and early loads | `TypeOK`, `MutualExclusion`, `ServedInOrder`, `ReplyIsRemembered`, `SeqnoNeverFalls`, `ServiceStepUnlessExcused` hold |
| `three_nodes` | 3 nodes, one client asks twice | `IInv` holds, and with it `MutualExclusion` and `ServedInOrder` (lemmas `ExclusionFromInv`, `OrderFromInv`) |
| `shared_server` | 2 nodes, 2 clients on one, 2 acquisitions per node, 2 initialisations of one, fair | `EveryPeerAsked`, `UncontendedAcquire`, `DeferredAnswered`, `ImplementsLockService`, `CalmInv` hold |
| `acquire_returns` | 2 nodes, 1 call each, fair | `AcquireReturns` is violated |
| `lost_update` | 3 nodes, no faults | `OneHolder` is violated |
| `stranded` | 2 nodes, no faults | `NobodyStranded` is violated |
| `table_calls` | 2 calls, 4 nodes, fair | `AllListed`, `NInv`, `InitReturns` hold |
| `restart_peers` | 3 machines, 2 clients on one, 1 on another, 2 or 3 calls each, 1 crash, 1 restart, 1 timeout | `TypeOK`, `SurvivorsExclusive`, `FirstDeath`, `RInv` hold |
| `dispatcher_calls` | 3 connections, 1 with NULLPROC, 2 slots, clients give up, fair | `TypeOK`, `OwnReply`, `OwnRequest`, `DInv`, `EveryCallServed` hold |
| `dsm_faults` | 2 servers, 2 clients, 2 allocations, all faults, fair | `TypeOK`, `IInv`, `NoHit`, `EveryServerAsked`, `SegmentFound`, `CallAccounted`, `ServersSurvive`, `MallocEnds` hold |
| `dsm_name_server` | 2 servers, 2 clients, no faults | `OneNameServer` is violated |
| `thread_faults` | 3 nodes, up to 2 migrations, 3 copies, all faults, fair | `TypeOK`, `OneCopy`, `MovesOnRequest`, `ThreadKept`, `TInv`, `CreateReturns`, `ThreadEnds`, `ImplementsThreadService` hold |

What holds:

- **Locks.** As long as no call fails and no race takes effect on either node,
  the lock is exclusive and is granted in the order of (number, address), even
  though `requesting_cs` is raised before `myseqno` is assigned, tables grow
  under the request loops, and requests reach servers that are not initialised.
  `MutualExclusion` states this per pair of nodes: a fault elsewhere is no
  excuse. `SurvivorsExclusive` says the same of servers that die and of calls
  that are given up: clients whose own servers never died, and on whose
  machines no call was given up, exclude each other. On one machine this holds
  always; on two, as long as their numbers have not wrapped and neither server
  has given up its request to the other. What happens to third servers, to the
  calls that they make and to the requests that they get does not matter. No
  server ends by itself before one has been stopped or a client has given up
  (`FirstDeath`). An acquisition that nobody contends with returns
  (`UncontendedAcquire`), and a request that is blocked and recorded while the
  lock is held is answered by the release (`DeferredAnswered`). Two servers
  without failing calls and reordered stores implement the lock that the header
  promises (`ImplementsLockService`): with two, only one handler at a time
  writes a `highestseqno`, so no update is lost (`CalmInv`). In larger or
  faulty systems every step is one of the service as long as no two nodes are
  excused (`ServiceStepUnlessExcused`). The number of a node never falls unless
  a race hit its `LockVar` (`SeqnoNeverFalls`).
- **Initialisation.** Calls that share `strtok` may leave their list to others
  and take over theirs, but they all return, and when the last one has, no peer
  is missing, unless two of them were inside `strtok` or the append at the same
  moment.
- **Dispatcher.** As long as no client has given up, each gets its own reply and
  only one. A thread always works on its own copy of the request.
- **DSM.** No call is lost or answered twice between the single-threaded
  servers. A server creates a page only after all others have denied it.
  `psu_dsm_malloc` always ends, and for names shorter than `NAME_LEN` finds the
  segment. A server dies only after the events that `excuse` names.
- **Threads.** A thread never runs twice, whatever is late, and is lost only
  after a fault or a stack at another address. It comes out on the machine it
  was sent to, and once it has ended or been lost it never comes back
  (`ImplementsThreadService`). `psu_thread_create` never hangs
  (`CreateReturns`), and a thread that nothing happens to ends, after any number
  of migrations that the instance allows (`ThreadEnds`).

What does not hold, each against a sentence of the repository quoted under
"findings" in `PROJECT.json`:

- `acquire_returns`: `release_lock` never resets `requesting_cs`. After its
  first acquisition a node defers every later number until it next releases,
  which may be never. Worse, a node may defer a peer by the number of its last
  acquisition, or by the initial 0 between lines 125 and 126, and then take a
  larger number itself: the peer defers it in turn, and both wait for ever.
- `lost_update`: two handlers race on line 170. Three nodes are needed, since
  two handlers must run on one server.
- `stranded`: a mutex recorded during the release is dropped, or unlocked too
  early, and its handler never replies.
- `dsm_name_server`: directories stay empty, so every server that is asked for a
  name creates its own page, and nothing is shared between machines.

Where a property that holds has an exception, the exception is something that
really happens in the model, and says what the code does not achieve:

- `skipped` and `raced` in `MutualExclusion`: line 136 ignores the status of
  `request_1`, so a timeout counts as a reply; nothing orders lines 125 and 126
  against a handler's lines 170 and 172; and the lost update.
- `died`, `abandoned`, `skipped` and `Wrapped` in `SurvivorsExclusive`: clients
  take an acquisition that failed or was given up for a lock, and their release
  unlocks it under another client; a server takes a request that was given up
  for a reply; a number that wraps precedes all others. `abandoned` in
  `FirstDeath`: the release of a client that gave up before `find_lockvar` ran
  fails the assertion of line 149.
- `lost` in `AllListed`: `strtok` or `g_array_append_val` in two threads at once.
  A single call may also return before the others have appended what it left
  to them; the property therefore waits for the last one.
- `gaveup` in `OwnReply` and `misuse` in `EveryCallServed`: a reply that comes
  after its client has gone may go to whoever has the transport's memory now,
  and `svc_freeargs` uses the transport after the reply has let the loop free it.
- `excuse` in `ServersSurvive`: two creations at once (both servers wait for each
  other, time out and die of the NULL result), a fault in a client (its request
  names a page that is in no directory, which ends the server), a slow answer,
  a crash, and a failing `shmget`.
- `NAME_LEN` in `SegmentFound`: longer names have one key in the server and
  another in the client. Two names with one hash share a segment; no property
  speaks of that.
- `excuse` in `ThreadKept`: the status of `migrate_1` is ignored and the thread
  exits whatever happened to the call; a stack at another address kills the
  copy or sends it on a migration nobody asked for. A successful
  `psu_thread_migrate` returns 1, although its header says 0 (field `ret`).

### Bounds

- `LockMgr`: `MaxCalls` bounds the acquisitions of each thread and `MaxInits`
  the initialisations of each node. Two calls let the state left by a finished acquisition
  meet a new request. A lost update needs two concurrent requests to one server
  and a later acquisition there. Two initialisations make the table grow under
  a running loop.
- `NodeTable`: two calls move each other's position in both directions; the local
  address stands among the peers.
- `LockRestart`: `MaxCalls`, `MaxCrashes`, `MaxStarts` and `MaxTimeouts`. One
  crash suffices for a cascade of exits; init, acquire and release are three
  calls, and the second client of the first machine makes its second
  acquisition. The third machine has no client: it is the peer that dies or is
  given up between the requests of the other two. `MaxInt` is 2 instead of
  2^31 - 1, so that numbers are compared before they wrap and after.
- `Dispatcher`: two slots for three connections force reuse.
- `Dsm`: `NAME_LEN` is 3, and the names have two and three bytes, so that one is
  short and one exactly as long. `KeyRange` is 2^25 instead of 2^32, since
  `33 * key` must fit TLC's integers. Sizes are below 2^24, one of them larger
  than a page. Two servers are what `init` configures. `MaxMalloc` is 2: a
  client allocates under a name that exists.
- `ThreadMigration`: a thread migrates up to `MaxMigrate` times; 2 reaches the
  migration of a copy. `MaxCopy` bounds the copies that make themselves by a
  wrong stack.

`MaxInits` of `LockMgr` and the other bounds are constants of the modules; the
theorems hold for all their values.

### Fairness

Weak fairness of threads and processes that are able to go on (they are
scheduled, TCP delivers), and of nothing else:

- `LockMgr`: the steps of server threads, of request handlers and of
  `init_lock_mgr`, and `psu_release_lock` (the test program releases after five
  seconds). Nobody is obliged to ask for the lock, and nothing makes a timeout
  or a reordering happen. The mutex of a `LockVar` is not fair, so a particular
  thread may starve in `TakeMutex`; the liveness properties therefore speak of
  some thread of the node.
- `NodeTable`: a call that has begun.
- `Dispatcher`: the loop, each thread, and a client whose call is over. The loop
  is one process, with one fairness condition. Handlers end here; how long
  `acquire_lock` may take is the subject of `LockMgr`.
- `Dsm`: each server, each client inside a call, and the timeout of a call that
  cannot be answered.
- `ThreadMigration`: `main`, and each copy together with the server's work on
  its call. Crashes, failing forks and decoding errors are never obliged.

## Proofs

| Module | Theorems | Property |
|---|---|---|
| `LockMgrProofs` | `InductiveInvariant`, `TypeCorrect`, `Exclusion`, `Ordered`, `AllPeersAsked`, `RepliesRemembered` | `IInv`, `TypeOK`, `MutualExclusion`, `ServedInOrder`, `EveryPeerAsked`, `ReplyIsRemembered` |
| | `SeqnosGrow`, `ServiceSteps`, `CalmInvariant`, `Implements` | `SeqnoNeverFalls`, `ServiceStepUnlessExcused`, `CalmInv`, `ImplementsLockService` |
| `NodeTableProofs` | `TableInductive`, `EveryPeerListed` | `NInv`, `AllListed` |
| `LockRestartProofs` | `RInvInvariant`, `TypeCorrect`, `DeathsStartOutside`, `SurvivorsExclude` | `RInv`, `TypeOK`, `FirstDeath`, `SurvivorsExclusive` |
| `DispatcherProofs` | `DispatcherInductive`, `TypeCorrect`, `RepliesMatch`, `RequestsKept` | `DInv`, `TypeOK`, `OwnReply`, `OwnRequest` |
| `DsmProofs` | `DsmInductive`, `TypeCorrect`, `NeverHit`, `AllAsked`, `CallsAccounted`, `NoUnexcusedDeath`, `SegmentsFound` | `IInv`, `TypeOK`, `NoHit`, `EveryServerAsked`, `CallAccounted`, `ServersSurvive`, `SegmentFound` |
| `ThreadProofs` | `ThreadInductive`, `TypeCorrect`, `NeverTwice`, `OnRequestOnly`, `NeverLost`, `Implements` | `TInv`, `TypeOK`, `OneCopy`, `MovesOnRequest`, `ThreadKept`, `ImplementsThreadService` |

The invariants are proved in the form `Spec => []Property`, the action properties
and refinements as `Spec => Property`, for any sets of nodes, threads, machines,
clients, connections or calls and with all faults allowed, from the named
assumptions of the module alone. The one exception is `Implements` of
`LockMgrProofs`, which assumes `Calm`: at most two nodes, no timeouts, no
reordered stores. Each rests on an inductive invariant
that TLC checks in a run; the step from it to the properties is short.

**`LockMgr`.** None of the properties is inductive: that a holder precedes a
pending request says nothing about the moment before the other node has chosen
its number. `IInv` adds, in this order: the owner of `lockvar->lock`
(`OwnerInv`); a table that never names its own node and is complete after an
initialisation (`TableInv`); a request loop that has a reply or a failure for
each node it has passed (`LoopInv`); a handler that has raised `highestseqno`
at least to the number it serves, on a server without races (`HandlerInv`);
`myseqno` at most one ahead of `highestseqno`, and `requesting_cs` set while
the mutex is owned (`FieldInv`); and what a reply means (`PermissionInv`): the
replying server has seen the number, and the request precedes both the one the
server has pending and the one it is about to number (`loaded + 1`). The key
step is a reply given while the acquirer stands between lines 125 and 126:
`requesting_cs` is already set, so the handler compares with the old number;
if it replies before the load, the load sees the raised `highestseqno`, and if
after, the old number is at most `loaded + 1` and at least the request's. Two
holders with each other's replies would have to precede each other. Frame
lemmas say which actions leave a part of the state alone; they and the step
lemmas are in `LockMgrStepProofs`.

`SeqnosGrow` follows from the part of `FieldInv` that relates `myseqno` to
`highestseqno`. The refinement of `LockService` goes step by step: `StageMoves`
says which stages of a thread an action leads between, `AbstractStage` what they
are to the service, and `ServiceStep` that a step is then a step of the service.
The one abstract guard is that of `Grant`, that nobody else holds the lock, and
it is `MutualExclusion` after the step: hence `ServiceSteps` for all systems in
which nobody is excused. `CalmInvariant` shows that in a calm system nobody ever
is. With two nodes each `highestseqno` has one writer at a time, the handler of
the peer's only call, so the value between its load and its store stays current.
`Implements` combines the two.

**`LockRestart`.** `RInv` says of servers that have never died and whose clients
have not given up (`Spared`) what `IInv` says of all: which call a thread works
on and that its client waits for it (`StageInv`), who owns the mutex
(`OwnerInv`), that the table is complete for a client that has initialised it
(`TableInv`), where the request loop is (`LoopInv`), that a request under way
belongs to the loop that sent it or to one that is over (`RequestInv`), and what
it means to have come past a peer (`PermissionInv`). Without `StageInv` the mutex
could be unlocked by a client whose acquisition is still under way, which is
what happens on an abandoned machine. Without `RequestInv` a request that was
given up could be taken for that of a later acquisition.

The death of a server must leave all this alone for the others. It does because
a call that fails counts as passed only towards the dead server, and one that is
given up only towards the peers in `skipped`. An exit of `create_client` needs an
earlier death, and the assertion of `release_lock` an earlier death or a call
given up on the same machine, since the list is otherwise never emptied: that is
`FirstDeath`, a conjunct of `RInv`. The order of two requests is claimed only for
numbers that have not wrapped.

**`NodeTable`.** `NInv` says that a position, whether the global one or one
that a thread has loaded, is reached only when every token before it is in the
table, local, or in the hands of a thread that is about to append it
(`Before`). This survives the exchange of positions between threads, because it
speaks of tokens and not of who works on them. At the end nobody holds a token
and the position is past the list.

**`Dispatcher`.** `DInv` ties the three lives together: while clients wait, the
slot of a thread that has not replied still belongs to its connection
(`Waiting`), since only the client's close lets the loop free it, and the
client closes only after the reply.

**`Dsm`.** `IInv` says that all lists are empty (`Empty`), where a call can be
and what its caller then waits for (`InTransit`, `Working`, `ServerWaits`,
`ClientWaits`, `NotLost`), that the loop of `page_creat` has an answer from every
entry it has passed (`LoopProgress`), and what must have happened before a
server is in danger (`Excused`). `NeverHit` is then immediate, and is the reason
why the model need not contain the branches behind it. `SegmentsFound` adds
the equality of the two keys for a short name: the padding of `strncpy` ends the
C string where the name ends. `TypeCorrect` needs what `hash` returns for every
name. Its recursion has a solution (`ChainExists`) and the solution stays in
the range of a `key_t` (`HashRange`); both are inductions over the bytes, in the
form that a set of numbers without a least element is empty (`Least`,
`Induction`, from `WFMin` of the library), because the provers cannot instantiate
induction theorems with a predicate. `DsmStepProofs` has the step lemmas,
`DsmProofs` the theorems.

**`ThreadMigration`.** `TInv` says that only the last copy can hold the thread,
that is run it or have a call whose fork is still to come; a copy that has
handed over is over, whatever its caller learns. It rests on the code's order:
`migrate_1` is the last thing a copy does before `pthread_exit`.

The same invariant gives the refinement of `ThreadService`. A step of a copy
before the last is invisible (`SeenLast`). For the last copy there is one lemma
per action (`MigrateServes` to `ResumeServes`): `psu_thread_migrate` is
`Migrate` or `Lose`, `setcontext` is `Arrive`, a call that goes on without a fork
is `Lose`, and `migrate_1_svc` is invisible, since the new last copy is where the
old one was bound for.

Only model-checked: the liveness properties (`UncontendedAcquire`,
`DeferredAnswered`, `InitReturns`, `EveryCallServed`, `MallocEnds`, `CreateReturns`,
`ThreadEnds`), since reasoning about fairness is out of the prover's reach, and the violations.
Every other property that a run finds to hold is also proved.

## Not modelled

- The branches of the DSM server behind `NeverHit`; `page_ack` and
  `psu_dsm_free`, which are empty.
- Several lock numbers: they share only `lockvar_list`, under its mutex.
- Races inside the handlers in combination with restarts: `LockMgr` has the
  first, `LockRestart` the second. Together they exceed what TLC can explore,
  and each gives up exclusion by itself.
- A machine that is missing in the table of DSM servers (`get_server_id`
  returns -1, and line 214 writes before the array).
- The variable that receives the reply of `page_locate` is an `int` in the
  client stub; that the rest of the address overwrites the variables behind it
  is left out.
- Messages of unknown procedures, and arguments the lock server cannot decode:
  no client of the repository sends them. UDP transports, which no client uses.
- A failing `malloc`, `pthread_create` or `setcontext`, which the code does not
  look at.
- The marshalling routines, `print_dir`, `print_dsm` and the lock and DSM test
  programs: no state of their own. The addresses that `get_local_ip_addresses`,
  `get_mac_address` and `get_local_ipaddr` read are constants.
