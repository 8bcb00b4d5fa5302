# Verification of SimpleDistributedFilesystem

TLA+ models of the distributed parts of the file system in `src/`, the TLC runs
that check them on small instances, and TLAPS proofs of the properties that
matter most. All paths below are relative to the repository.

## The system

| Part | Source | State | Operations |
|---|---|---|---|
| Paxos | `paxos.cc`, `log.cc` | per acceptor `n_h`, `n_a`, `v_a`, `instance_h`, `values`, the log file; per proposer `my_n`, `stable` | `preparereq`, `acceptreq`, `decidereq`, `commit`, `proposer::run` in three phases, `logread` at a restart |
| Configuration | `config.cc` | `myvid`, `mems` | `add`, `remove_wo`, `heartbeater`, `heartbeat`, `paxos_commit`, `reconstruct`, `restore` |
| Replicated state machine | `rsm.cc`, `rsm_client.cc` | `primary`, `vid_commit`, `vid_insync`, `inviewchange`, `myvs` | `recovery`, `join`, `joinreq`, `commit_change`, `set_primary`; `invoke` and state transfer are stubs |
| Caching locks | `lock_server_cache.cc`, `lock_client_cache.cc` | holder, queue and revoked flag per lock; `owned`, `acquiring`, `revoked`, `awaiting_lock`, `holder` per client and lock | `acquire`, `release`, `revoke`, `retry`, the enforcer and revoker threads |
| Simple locks | `lock_server.cc`, `lock_client.cc` | lock table | `acquire`, `release` |
| Extents | `extent_server.cc`, `extent_client.cc` | extents and attributes; write-back cache | `get`, `getattr`, `put`, `remove`, `flush` |
| File system | `yfs_client.cc`, `fuse.cc` | directories and files kept as extents | create, mkdir, unlink, lookup, read, write, setattr |
| RPC | `rpc/rpc.cc`, `rpc/connection.cc`, `rpc/pollmgr.cc`, `rpc/thr_pool.cc`, `rpc/fifo.h`, `handle.cc` | calls in progress, acknowledgement window, reply window, connections, job queue, handles | `call1`, `got_pdu`, `dispatch`, `checkduplicate_and_update`, `add_reply`, `safebind`, `delete_handle` |

A FUSE operation takes locks from the caching lock service, reads and writes
extents through the write-back cache and releases the locks. When the server
revokes a cached lock the client flushes the extent (`dorelease`) and gives the
lock back. The lock server was meant to be replicated by the RSM, whose views
the configuration agrees on with Paxos; in this repository the RSM versions of
the lock server and client are empty. Everything runs over one RPC library:
processes keep one RPC client per host (`handle.cc`), a client shares one
connection among its callers, and a server hands requests to a pool of threads.

What makes it hard: every mutex is released around a remote call or an upcall,
so state read before is stale after; replies overtake each other (a `retry` may
come before the answer of the `acquire` that was queued); a call that timed out
may still be executed; nodes crash and rebuild their state from a log; two
proposers compete; a bind fails in the middle of a loop; connections are counted
by hand and deleted under threads that wait on them.

## Modules

| Module | What it is |
|---|---|
| `Paxos` | acceptors, proposers, the log and the configuration of all nodes |
| `MCPaxos` | the order in which views list their nodes, for TLC |
| `PaxosProofs` | types, fidelity of the log, nothing taken back, config's view is a committed one |
| `PaxosViewProofs` | every committed view has a majority behind it |
| `PaxosVoteProofs` | agreement: one view is chosen in the contested instance, and committed unless an `acceptreq` is late |
| `LockService` | what a lock service promises: request, grant, release |
| `LockCache` | the caching server, its clients and their threads |
| `MCLockCache` | assignments of threads to clients, for TLC |
| `LockCacheInv` | the inductive invariant of the locks, types, the frame lemmas, and the steps of the refinement |
| `LockCacheClientProofs` | the steps of the clients' threads keep it |
| `LockCacheProofs` | the steps of the server and the handlers keep it; mutual exclusion and the discipline of grants, revokes and returns; queues are served; the refinement of `LockService` |
| `Rpc` | one RPC client and server: acknowledgements, reply window, retransmission, restart |
| `RpcServer` | the server's connections, the queue and threads of its pool, whom a reply goes to, and its deletion |
| `RpcServerProofs` | its pool loses no wakeup and is drained when it is deleted, its connections are counted exactly, and replies follow the clients, for any number of workers and clients |
| `Connection` | the client's connections: `send`, the callbacks, `PollMgr` with `SelectAIO`, reference counts |
| `MCConnection` | the symmetry of the callers, for TLC |
| `Handle` | the cache of RPC clients of a process |
| `HandleProofs` | the cache is safe, for all threads and hosts |
| `Rsm` | recovery and joining over the views, with the mutexes that `rsm`, `config` and the proposer hold across modules |
| `Yfs` | FUSE handlers, `yfs_client`, the write-back cache and the extent server |

### Paxos

Nodes are numbers, ordered as the code orders their port strings. A view is the
set of its members; `CallOrder` gives the order in which the code's vectors list
them, which decides in what order a proposer calls. `n_h`, `n_a`, `v_a`,
`instance_h`, `values` and `plog` are an acceptor's fields and its log file.
`preparereq`, `acceptreq` and `decidereq` are one step each, as the handlers
hold `pxs_mutex` throughout; the upcall of `commit_wo`, made with the mutex
released, is a pending element of `upcalls` that `paxos_commit` handles later. A
proposer goes through `run`, then calls one acceptor after the other
(`CallNext`, then `PrepareReply`, `AcceptReply` or `DecideReply`), as the loops
of the code do, and ends each phase with `EndPrepare`, `EndAccept` or
`EndDecide`. `TimeOut` covers a failed bind, a lost request and a lost answer; a
request that timed out stays in `reqs` and may be handled at any later time.
`Crash` stops a node and starts it from its log: `RestartFrom` is the
constructor, which reads the log and calls `reconstruct`. A failed `VERIFY`
crashes the node.

The log record is appended in one step (the code notes `XXX should be an atomic
operation`); the view of a value is the value (the code's string of members is
parsed back to the same members); `heartbeater` may suspect any node it would
ping.

Bounds: `LastInstance` (instances are numbered from 1, the initial view),
`MaxN` (highest proposal number), `MaxFaults` (crashes, timeouts and late
requests).

### LockCache

The variables are the fields of `cached_lock_info` at the server and of
`lock_info` at each client, the program counters of the threads, the revoke
queue, and the RPCs under way. Each section of code under `sync_root` is one
step. A lock the server has no record of is one that is free with an empty
queue. `msgs` holds an RPC until its handler, and the RPC the handler makes in
turn, is done: a `release` whose handler calls `retry` at the next holder
answers only after that. The revoker holds `revoke_lock` while it calls, which
is why the enforcer waits for it. A timed wait of 50 ms means that a waiting
thread looks at its condition again and again, so the signals are not modelled.
`revoke_queue` is a set: the enforcer adds a lock once, and the order in which
different locks are revoked is left open. `MaxFaults` bounds failed binds and failed calls. `Nested` lists the
pairs of locks a thread may hold at once: `unlinkFile` takes the lock of the
file while it holds the lock of its directory.

### Rpc

One client whose calls are numbered by `xid`, and the server. `call1` enters a
call, `transmit` sends it on the current connection, `call1_again` wakes up to
send it again if that connection is dead, `call1_return` removes the call and
acknowledges its xid. `rpcc_got_pdu` takes a reply. `dispatch` takes a request
from the network (requests and replies arrive in any order, as dispatch threads
and connections have it) through `checkduplicate_and_update`: `min_xid`,
`Forgotten`, `Cleaned` and `Found` are its four parts. `add_reply` and `send` are
separate steps, as the window's mutex is released between them. `Break` closes a
connection with what is under way on it; `Restart` gives the server a new nonce
and an empty window. Xid 1 is the bind. Bounds: `MaxXid`, `MaxConns`,
`MaxTimeouts` (calls that reach their deadline), `MaxNonce`.

### RpcServer

The other half of `rpcs`. A client has one call, which it sends again on every
further connection; `seen` is what `checkduplicate_and_update` says of it, `Rpc`
having the window itself. `Accept` and `process_accept` are the accepting
thread of `tcpsconn`, the second with its garbage collection of dead
connections. `got_pdu` runs in the thread of `PollMgr`: it puts the request into
`jobq_`, leaves it with the connection when the queue is full, or drops it while
the server is cut off; `GotPduReturns` is its second test of `reachable_`, made
with no lock. A worker takes a job (`takeJob`), remembers the client's latest
connection (`SaveConnection`), checks for duplicates, runs the handler, chooses
the connection to reply on (`Pick`), sends and drops its reference. `OldServer`
is the answer to a client of an earlier instance. `DeleteServer`,
`AccepterJoined`, `closeconn` and `PoisonPills` are `~rpcs` in the order of the
code. `sent`, `misdirected` and `leaked` are history: `leaked` counts the
references that the return after `oldsrv_failure` does not drop. Bounds:
`MaxConns`, `MaxJobs` (the code's limit is a hundred jobs a thread), `MaxCuts`.

### Connection

The client's side, down to the system calls. Callers run `call1` (`get_refconn`,
`send`, `Retransmit`, `Return`), an owner deletes the `rpcc` when they are done
(`closeconn`, `decref`), and one thread runs `PollMgr::wait_loop` (`LoopTop`,
`Snapshot`, `Select`, `PickCallback`, `read_cb`, `write_cb`). A step is a section
under one mutex, and the callback table is read without one, as in the code. A
PDU is two chunks, which is enough for a write or a read to stop in the middle.
File descriptors are reused as soon as they are closed. `errno` is a variable,
since `readpdu` looks at it after a read that returned 0. A `VERIFY` that fails
ends the process and is recorded in `failed`. Bounds: `MaxConns`, `MaxBreaks`,
`MaxPipe` (only whether the pipe holds a byte matters).

### Handle

`hmap` and the fields of `hinfo`, with `allocated` and `freed` for the heap. A
thread makes a handle (`get_handle`), calls `safebind`, which binds with `cl_mutex`
held (`BindSucceeds`, `BindFails`), calls through the client (`CallReturns`) and
destroys the handle (`done_handle`); `delete_handle` may come at any time from a
thread without a handle or from one with a handle for the same host, as in
`config.cc`. The flag `del`, which the code reads under either of two mutexes, is
one variable. Bounds: `MaxInfo`, `MaxUses`.

### Rsm

Views are lists of nodes in the order of joining. Of Paxos there is what the
layers above use, one value per instance learned by the nodes one by one:
`StartRun`, `Decide`, `DecideNext`, `RunReturns` and `OldInstance` are
`proposer::run` seen from above; the disagreements that module `Paxos` finds are
kept out, so that what is found here is due to `rsm` and `config`. `Recover`, `SyncedWithBackups`, `Joined`
and `JoinFails` are the recovery thread; `joinreq`, `add` and `AddReturns` the
handler of a join, which gives up `rsm_mutex` around the proposal; `paxos_commit`
and `commit_change` the two upcalls; `heartbeat` the handler that asks the
proposer whether it runs, with `cfg_mutex` held. A node that fails a `VERIFY`
(`died`) starts again from its log, as a crashed one does. `Event` bounds
proposals and crashes together.

### Yfs

A client runs one FUSE handler at a time. A handler is one or more operations of
`yfs_client`; `call` starts it, `acquire` takes the lock of the extent it works
on, and the operation's own action does what the code does up to its release.
That is one step because an extent touched in it is locked, or new and not yet
known to anyone. Of the lock service `Yfs` keeps what `LockCache` shows: one
holder (`owner`), a lock stays with the client that used it (`keeper`), and goes
to a waiting client only after `dorelease` has flushed the extent and when no
thread of the keeper wants it. `server` and `cache` are the maps of the two
sides. Four variables record history for the properties: `latest`, what was
last put into an extent; `unlocked`, who put it without its lock; `raced`, the
extents another client locked before that; `cut`, the inums created under a name
that parsing cuts. The kernel calls handlers on inums it has been told (`known`)
and sets the size of files only. Bounds: `MaxCalls` handlers in all, `MaxOff`, and
the sets of inums, names and bytes.

A directory is stored as text, `inum@name` with `/` between the entries. The kernel
passes no name with a `/`, but a name may hold an `@`: `parseDirent` takes for the
name what stands before it. So a name of the model has a `base` and says whether
`more` follows; `parseDirent` drops the rest, `createBuffElement` writes the name as it
is, a create appends to the text as stored, and `unlinkFile` writes back every other
entry as parsed. Names that differ only after their first `@` are one name of the
model: none of them is ever equal to a parsed one. A name that begins with `@` is
left out (its parsed form is empty, and `parseDirent` does not expect what
`writeDirent` makes of it). `random` takes any inum not drawn before; files are
interchangeable, so one choice stands for all.

## Runs

| Run | Shows |
|---|---|
| `paxos_race` | two proposers in a view of three, one fault: votes agree; the nodes commit one view unless an `acceptreq` comes after its acceptor's commit; a restart rebuilds the state; nothing is taken back |
| `paxos_two_instances` | one proposer, two view changes (removals and additions), two faults: every committed view was accepted by a majority of the previous one, and config's view is always one that was committed |
| `lock_safety` | two clients, three threads, two nested locks, one failed call or bind: mutual exclusion, the discipline of grants, revokes and returns, and clients and server together implement `LockService` |
| `lock_liveness` | three clients: every `acquire` returns; a holder that others wait for is told; no deadlock |
| `rpc_window` | a bind and two calls, two connections, one call given up, one restart of the server: a call runs once until it is acknowledged, its reply is kept until then, the front of the acknowledgements is exact, and while no call is given up only finished calls are refused as forgotten |
| `rpc_server` | two clients, one of them of an earlier instance, two workers and a queue of one: references are exact, no worker sleeps over a job, the pool is empty when it is deleted, a reply follows its client to a newer connection, and `~rpcs` ends |
| `connection` | two callers and the deletion of the `rpcc`, two connections of which one breaks: nothing leads to a deleted connection, PDUs are not interleaved, no sender is left waiting, a live connection is watched |
| `handle` | three threads and a host: no `hinfo` or client is used after it is freed, a host has one, NULL is final for a handle, and a host that was given up is forgotten in the end |
| `rsm` | a node joins a view of two, two proposals or crashes: no view lists a node twice, recovery never sleeps over a view change, who takes itself for the primary and was never started again is the oldest member, and a primary is always found |
| `yfs_files` | two clients, a directory below the root and two files, four handlers: what is read under a lock, and what a read answers, is what was last put, unless the file was raced for; of two files listed under one name the later was created under a name with an `@`; the root directory changes only by the entry of a create or an unlink; every handler answers |

`TypeOK` is an invariant of its own in the runs of `Paxos` and `LockCache`, where it is
proved as well; in the other modules it is the first conjunct of the invariant on
the module's data structure: `FrontIsExact`, `ConnectionsAreCounted`,
`NoDanglingConnection`, `NoUseAfterFree`, `PrimaryIsOldest` and `CoherentUnlessRaced`.
`ReplayMatches` and `NothingTakenBack` are checked in `paxos_race` only, since they are
proved for any number of instances.

Two runs find that the code does not do what a comment says:

| Run | Says | Does |
|---|---|---|
| `paxos_late_accept` | `config.cc:22` "uses Paxos to create a total order of views" | `acceptreq` ignores the instance: a late request becomes a vote of the next instance and two nodes commit different views |
| `rsm_locks` | `rsm.cc:78` "a module releases its internal locks before it upcalls" | `prepare` commits an old instance with the proposer's mutex held; the upcall needs `cfg_mutex`, whose holder, a heartbeat handler, waits for the proposer's mutex |

Seven more statements of the repository are written down in the modules and
are violated, on the same bounds where no others are given; they have no run of
their own:

* `Paxos!ConfigFollowsPaxos`: upcalls run out of order (`config.cc:156`) and config
  returns to an older view, although higher layers learn of a change through
  `paxos_commit` (`config.cc:31`);
* `LockCache!HolderIsInformed` with one failed bind: a revoke whose bind fails is
  dropped and never repeated (`lock_server_cache.cc:204`), although the enforcer
  is to clean up anyone who "hasnt been informed" (`:153`);
* `Rpc!DeletedNeverRuns`: with the window out of order, `min_xid` is computed
  wrongly (`rpc.cc:681`) and a request whose reply was deleted runs again,
  although NEW means "never seen this xid before" (`rpc.cc:656`);
* `Handle!ClientIsFinal`: a handle whose `safebind` succeeded answers NULL once
  another thread has called `delete_handle`, although "all later calls would
  return a rpcc object" (`handle.h:49`);
* `Connection!NoWriteOnDead`: a connection that dies in `read_cb`, or under
  `closeconn`, while `select` has already reported it writable reaches the
  `VERIFY(!dead_)` of `write_cb` (`connection.cc:174`);
* `Yfs!NoFilesOfTheSameName`: a file whose name holds an `@` is listed, looked up and
  compared under what stands before the `@` (`yfs_client.cc:413`), so a second create
  of the same name succeeds and adds a second file, although createFile has come to
  "ok there are no files with the same name in this directory" (`yfs_client.cc:133`).
  A lookup of the name answers ENOENT; what stands before the `@` finds the file. An
  unlink of another file drops the rest of the name for good;
* `Rsm!OnePrimary`, with `N` 2, `Members` 2 and `MaxEvents` 5: of the view <<1, 2>> node 1
  crashes and starts again, and its `joinreq` waits at node 2. It finds in its log
  that it is alone in view 3 and is primary of it. Node 2 joins again (view 4),
  removes node 1 (view 5), which is not told, and then handles the old `joinreq`
  (view 6, <<2, 1>>). Node 1 commits view 6 directly after view 3 and keeps itself for
  the primary, since `set_primary` looks for it in the new view only (`rsm.cc:470`);
  node 2 is primary too, although the RSM "ensures there will be always one
  primary" (`rsm.cc:16`). `PrimaryIsOldest` leaves out nodes that were started
  again, and then holds on these bounds too.

The models show more places where a comment and the code part, which explain
the conditions in the properties above:

* an acceptor that missed a decision takes part in the next instance and
  aborts at the `VERIFY(0)` of `paxos.cc:394`; its left-over vote may become the
  next view and fail `VERIFY(v_a == a.v)` (`paxos.cc:388`), which
  `AgreementUnlessLate` excludes for the first instance only;
* the first request of an RPC client is not entered into the reply window
  (`rpc.cc:670`), so `OnceUntilAcknowledged` speaks of calls and not of binds; a
  call that timed out is acknowledged (`rpc.cc:294`), after which a live call
  that was overtaken is refused, so `ForgottenIsFinished` asks for patience;
* `checkduplicate_and_update` deletes the replies with xids below `xid_rep` (`rpc.cc:695`),
  while the comment above it says "deletes remembered requests with XIDs <= xid_rep"
  (`rpc.cc:651`). The reply of `xid_rep` itself stays until the next acknowledgement.
  `AnswerIsKept` speaks of the replies above `xid_rep` only and holds either way;
  `ForgottenIsFinished` needs the code's form: the entry that stays keeps `min_xid`
  low enough for a live call that was overtaken;
* `createFile` puts the new extent without its lock (`yfs_client.cc:145`): a
  client that looks the file up at once caches an empty extent of its own. These
  are the extents in `raced`;
* `createFile` keeps the lock of a parent it does not find (`yfs_client.cc:116`),
  which happens to a directory whose extent is only in its creator's cache:
  handlers that need the directory then wait for ever. It takes three clients to
  come upon such a directory: two look it up before its creator has its lock, and
  the first of them returns to it when its own empty copy is gone. With three
  clients and four handlers TLC finds that `HandlersAnswer` is violated; the run has
  two, with a directory below the root, and there it holds;
* `remove` of an extent that is not cached leaves it at the server
  (`extent_client.cc:159`, against `fuse.cc:451`); a create of an existing name is
  answered by ENOENT (`fuse.cc:223` says EXIST); `createDirectory` accepts the
  name of a file (`fuse.cc:415`), so `FileNamesDiffer` speaks of files; a read
  beyond the end fails (`fuse.cc:171` says it reads nothing), which
  `ReadsTellLastPut` allows; `setattr` on a directory answers twice (`fuse.cc:131`);
* `rpcs::got_pdu` tests `reachable_` again after it has queued the job and frees it
  if the server was cut off meanwhile (`rpc.cc:452`): `failed` of `RpcServer`, after
  which nothing is claimed. The return after `oldsrv_failure` keeps its reference
  (`rpc.cc:531`): `leaked`. `closeconn` does not signal `send_complete_`, so a worker
  with half a reply written is never woken: `Stuck` in `ServerIsDeleted`;
* `readpdu` reads `errno` after a read that returned 0 (`connection.cc:286`): with
  `EAGAIN` left over from before, the loss of the peer in the middle of a PDU
  is noticed only by the next callback;
* a node that was started again may take the node it joins through for its
  primary although the others have another one (`rsm.cc:14`): `PrimaryIsOldest`
  speaks of members that take themselves for the primary, and of those that were
  never started again, as the case of `OnePrimary` shows. The comments say that
  the "smallest numbered node" (`rsm.cc:12`), the "lowest number node" (`rsm.cc:461`) of
  the previous view becomes the primary; the code takes the first in the order of
  joining (`rsm.cc:476`), and so does `PrimaryIsOldest`. Within the bounds of the run
  both would choose the same node; they differ in longer runs, where nodes have
  left and joined again before the primary leaves. A heartbeat of a
  view that is not a neighbour's aborts the handler (`config.cc:293`) and a
  decision that skips an instance aborts the acceptor (`paxos.cc:394`): both are
  in `died`, and `PrimaryIsOldest` says the third assertion is not reached.

Why the bounds are enough for these questions: three nodes are the smallest view
in which two majorities differ; with `LastInstance` 2 both proposers compete for
one instance, which is all that `VoteAgreement` and `AgreementUnlessLate` speak
of; with 3 a vote can be left over from one instance to the next. Two threads
in a client and two clients give every kind of waiter (local, queued), three
clients a queue of two. Three xids and two connections let a request be sent
twice and overtaken, and a second nonce lets a call of the old server instance
reach the new one. With two workers and a queue of one, a job can find the
queue full, a worker asleep or both busy; with two connections a client can
come back while its first request is served. Two callers, two connections and
two descriptors let a sender wait for another, and a descriptor be reused while
the event loop still knows it. Three threads are a binder, one that waits for
`cl_mutex` and one that deletes, and three records let a host be forgotten
twice. In `Rsm` two events are a view change that meets another one, or a crash;
with three, TLC had visited 32 million states without a violation when it was
stopped. Four handlers are enough for two clients to make, change, hand over
and remove the same file. The callers of `Connection` are interchangeable, so its
run, which checks invariants only, uses their symmetry; no other run uses one.

Fairness (`FairSpec` of `LockCache`): a thread that can run runs; an RPC that was
sent is handled; the enforcer and the revoker wake up every 5 ms. A lock that is
held is eventually released: strong fairness, since a thread that holds a lock
may be acquiring another in between. Liveness is checked without faults and
with one thread per client: a client whose threads keep asking never gives a
revoked lock back (`lock_client_cache.cc:124`). `FairSpec` of `Yfs`: an operation
that has its lock goes on, a free lock that is asked for is flushed and handed
on, and a client that can have its lock again and again gets it, which is what
`lock_liveness` shows of the lock service. `FairSpec` of `Handle`: a bind has a
deadline of one second (`handle.cc:35`), calls return, and a handle is a local
variable of its caller; nobody is obliged to call `safebind` or `delete_handle`.
`FairSpec` of `RpcServer`: the threads of `PollMgr`, of the pool, of the listener and
of `~rpcs` run; clients need not connect, break or be cut off.

`CHECK_DEADLOCK FALSE` is set where the bounds stop the system (Paxos and Rsm,
the records of `Handle`, the xids of `Rpc`, the handlers of `Yfs`), where it ends
(`Connection` and `RpcServer` are deleted) and where a failed call stops it (a
client that was granted a lock and never told).

## Proofs

Each theorem holds for every value of the constants that satisfies the named
assumptions (`NodeAssumption`, `BoundAssumption`: finitely many nodes, numbers
for bounds; `LockAssumption`: finitely many threads, `FREE` is no client, thread
or lock; `HandleAssumption`: finitely many threads, at least one host;
`ServerAssumption`: finitely many workers, at least one, numbers for bounds; the set
of clients may be infinite).

* `PaxosProofs!TypeCorrect`: `TypeOK` with `RunOK`, what each phase of a
  proposer knows.
* `PaxosProofs!ReplayFaithful`: what `logread` would rebuild is what the acceptor
  has in memory. The argument is a set of lemmas on the last record of a kind in
  a log and on what appending each kind of record does to it; `KnownViews`
  (instances up to `instance_h`) makes it inductive.
* `PaxosProofs!NothingIsTakenBack`: from `ReplayFaithful`, since a restart is the
  only step that could take something back.
* `PaxosProofs!ConfigViewsAreCommitted`: config's view is one its acceptor
  committed. `ConfigKnows` adds what the upcalls that are still to run carry, and
  a restart is covered by `ReplayFaithful`: `reconstruct` reads the rebuilt views.
* `PaxosViewProofs!CommittedViewsAreBacked`: `BackInv` follows an accepted
  proposal from the votes in the logs, through the proposer's list `accepts`, the
  decisions sent, and the answers to old instances. It uses that logs only grow.
* `PaxosVoteProofs!AtMostOneViewIsChosen` and `OneViewUnlessLate`: agreement, for any
  number of nodes, proposers, proposal numbers and faults. `VoteInv` has three
  layers. `AcceptorOf` says what an acceptor's log tells of its votes: while the
  instance is open `n_a` and `v_a` are its last vote and `n_h` is at least that
  number. `PrepareOf`, `ProposerOf` and `RequestOf` follow those facts through the
  answers to the proposer that counts them and into the requests it sends.
  `IssueOf` is the invariant of Paxos itself: a number is issued with one view, and
  that view is safe (`SafeAt`): for every lower number there is a majority whose
  members each voted for this view at that number or never will vote at it
  (`WontVote`). `PickIsSafe` shows that the choice `proposer::run` makes among the
  promises is safe. A proposer that was restarted may use a number again;
  `NumberIsUnused` shows that no second majority promises it, since the first one
  has (`Spent`). `ChosenAgree` concludes that safe
  views which a majority chose are equal. An acceptor's step is seen by all of
  these lemmas only through `Grows`, which says that logs grow and promises rise;
  `AcceptorsGrow` proves it of every action once. Both theorems suppose
  `LastInstance = 2`: the initial view's successor is contested by everyone and no
  later instance is begun. This is not a bound of convenience. `acceptreq` does not
  look at the instance, and `preparereq` only refuses old ones, so the proposals of a
  third instance collect votes at acceptors that have not learned the second one's
  outcome, and the two statements are then false. With the view {1, 2, 3},
  `LastInstance` and `MaxN` 3 and four failed calls TLC reaches such a state: node 1
  gets the votes of 1 and 2 for {1, 3}, commits it alone, and begins the third
  instance, in which node 3 votes for {1}; node 3 then runs the second instance with
  2 and 3, finds {1} to be the highest vote, and 2 commits it.
* `LockCacheProofs!MutualExclusionHolds`, `RevokesReachTheHolder`,
  `OnlyTheHolderReturns`, `LockTypeCorrect`: mutual exclusion is not inductive by
  itself. `IndInv` says that a lock is in one place: free at the server, on its
  way to its holder as the answer of an acquire or as a retry, owned, or on its
  way back as a flush or a release; that a client's request is in one place too;
  that a revoke goes to the holder, once; and that `awaiting_lock` counts the
  threads that wait. There is a lemma per action, and frame lemmas for the
  locks an action does not touch.
* `LockCacheProofs!QueuesAreServed`: `ServeInv` adds to `IndInv` that a lock marked as
  revoked is being asked for, remembered as revoked by a client or on its way back,
  that a client which is acquiring a lock has a thread that awaits it, and that one
  which keeps a revoke in mind has a thread that uses or awaits the lock. The first holds while no call has failed, as the property says.
* `LockCacheProofs!LockServiceIsImplemented`: clients and server together implement
  `LockService`, whose variables are `Owner` and `Wants` of the client threads: every
  action is a request, a grant or a release of the abstract service, or a step it
  does not see. That nobody holds a lock which is granted, and that `Owner`, a
  `CHOOSE`, has one thread to choose, follow from `IndInv`.
* `HandleProofs!HandleSafety` and `OneInfoPerHostAlways`: the parts of `NoUseAfterFree` (`HandlesAreCounted`,
  `ClientOutlivesCall`) and `OneInfoPerHost` are inductive only together. `refcnt` counts the handles as
  long as `done_handle`, which deletes by name, finds its own `hinfo` under that
  name, and the name leads to it as long as no `hinfo` with handles is deleted.
  `IdleHasNothing` and `NullIsMarked` say what a thread remembers; the counting is
  in the lemmas `Gain` and `Lose`.
* `HandleProofs!NullIsFinalAlways`: from the same invariant, since a handle that
  answered NULL has no `hinfo` or one that is marked, and a mark is never removed.
* `RpcServerProofs!NoWorkerEverSleepsOverAJob`: `fifo::enq` signals one thread per
  job, and busy workers take jobs too; still, while a worker waits there are as
  many workers on their way to the queue as it has jobs. `EnqWakes` and
  `TakeJobStep` have the counting.
* `RpcServerProofs!PoolIsAlwaysDrained`: `DeleteOrder` follows `~rpcs` (with the
  listener gone and every connection dead, `got_pdu` adds no job after the first
  pill), and `PillsComeLast` counts: the pills not yet taken are the last elements
  of the queue, and each worker that has ended took one.
* `RpcServerProofs!ReferencesAreExact`: `refno_` is the number of places that have a
  connection. `References` adds them up, and `Counted` says that the sum is `refno_`
  for every connection, that a deleted one has none, and that one not yet accepted
  has none. It needs `WorkerOf` (a worker serves a connection exactly while it is in
  `dispatch`) and `Superseded` (`conns_` has a client's connection under that client).
  The sections "Counting references" and "The references and the steps" have what
  moving one entry of a map, or one element of the queue, does to a sum, and a
  lemma per action that moves one.
* `RpcServerProofs!RepliesFollowTheClient`: `AnswerOf` says that a call in progress
  has a worker in its handler, and that an answered one has been sent on the latest
  connection, or that this one is lost, or that a worker is on its way there
  (`Delivers`). `Pick` keeps it because a connection older than the latest is lost
  (`Superseded`), so a reply that is not moved to the latest is misdirected or is on
  the latest already.

Only model-checked: `StaleIsForgotten`, `ServerIsDeleted`, `AcquireReturns`,
`HolderIsInformed` and `HandlersAnswer`, which are liveness and out of the
prover's reach; and the other properties of `Connection`, `Rpc`, `Rsm` and `Yfs`.

## Not modelled

* `lock_server.cc`, `lock_client.cc`: the lock service without caches. `lock_smain.cc`
  makes no such server any more; only `lock_demo` still uses its client.
* `lock_server_cache_rsm.cc`, `lock_client_cache_rsm.cc`: their handlers are empty.
  `lock_smain.cc` defines `RSM` and registers them; the caching server, which this
  project models, is what it registers without that definition.
* In `rsm.cc`: `client_invoke`, `invoke`, `transferdonereq` and `sync_with_primary` are
  stubs, and `execute`, `statetransfer` and `transferreq` are called by nothing or
  only by them. `rsm_client.cc` sends each request to one node once;
  `primary_failure` is a stub.
* Torn records of the Paxos log: the code appends with an unchecked stream and
  says so (`XXX should be an atomic operation`); a record is appended in one step.
* In the RPC library: marshalling, which is byte layout; `EPollAIO`, which is
  compiled and never used; `cancel`, which only tests and a deleted `hinfo` without
  handles call; the counters of `updatestat`; the duplicates sent on purpose under
  `RPC_LOSSY`, which `Rpc` subsumes by requests that arrive twice.
* Times and attributes of extents, the text form of views, logging, the test
  drivers.
