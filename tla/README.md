# Verification of RDMA_Paxos

RDMA_Paxos replicates an unmodified server program. A preloaded library
(`RDMA/src/spec_hooks.cpp`) hooks `accept`, `read`, `close`, `write`; on the
leader each of these becomes a request that is replicated through one-sided RDMA
writes, and the replicas replay the requests against their own copy of the
program. This directory models the library in TLA+, checks the models with TLC
and proves the central results with TLAPS. Paths below are relative to
`RDMA/src` unless they say otherwise.

## The system and its modules

| Component | Source | Modules | Hard behaviours |
|---|---|---|---|
| Replication core | `consensus/consensus.c`, `db/db-interface.c` | `Consensus`, `RSM` | unlocked commit increment; entries posted outside the lock; torn and reordered writes; failing `store_record`; replicas that leave and return |
| Log ring | `include/rdma/dare_log.h`, `consensus.c` 142-151, 271-308 | `DareLog` | wrap-around; unsigned fit test; stale bytes of the previous lap |
| Send queue | `rdma/dare_ibv_rc.c` 299-475, `consensus.c` 153-171, 209-218 | `SendQueue` | one signalled send in `S_DEPTH`; threads that reserve in one order and post in another; a send that is counted and never posted; a peer that connects late |
| Event manager, hooks | `ev_mgr/ev_mgr.c`, `spec_hooks.cpp` | `EventMgr`, `UtHash` | handshake between the replica thread and the hooked `accept`; descriptors that are used again |
| Output comparison | `output/output.c`, `output/decision.c`, `ev_mgr.c` 152-212 | `Output`, `Decision`, `AdList`, `ListSpec` | slow replicas; acks that have not arrived |
| Checkpoint | `ev_mgr.c` 347-410, `ev_mgr/check_point_thread.c`, `checkpoint/demo/guard_dev/guard.py` | `Checkpoint` | one thread per command; a fixed sleep instead of an answer |
| Election, heartbeats | `rdma/dare_server.c` 152-499, `rdma/dare_ibv_rc.c` 27-121 | `Election` | one-sided writes that land while the reader scans; late acks; lost heartbeats |
| Server and device set-up | `rdma/dare_server.c` 37-147, `rdma/dare_ibv.c`, `rdma/dare_ibv_rc.c` | `Device` | every call may fail; one shutdown for every half-built state |
| Start of a process | `spec_hooks.cpp` 11-131, `ev_mgr.c` 44-69 and 472-555, `config-comp/`, `replica-sys/replica.c` | `Startup` | threads that run before they are listed; `fork` |

How they interact: the hooks call the event manager, which turns a socket call
into a request for the replication core (`rsm_op`). The core places it in the
log ring, writes it to the replicas through one send queue for each of them, and
waits for acks. On a replica the core hands committed requests back to the event
manager (`update_state`), which replays them. Every few writes of the application
the output comparison sends a request of its own through the core, and what it
decides reaches `guard.py`, which uses the checkpoint handshake. `Startup` brings
all of this up; `Device` is the part of it below `dare_server_init`. The election
runs on the same log memory but is not connected to the core (see below).

The state that crosses a border is modelled on both sides of it. `Consensus` has
the acks, the databases and what leaving for a checkpoint does to the log;
`DareLog` justifies that `Consensus` numbers the entries instead of using offsets
(`SameOffsets`); `EventMgr` and `Output` use `rsm_op` in the steps `Consensus`
shows others can get between; `UtHash` and `AdList` justify that `EventMgr` and
`Output` use functions and sequences for maps and lists that one thread uses. The
leader's threads share `leader_tcp_map` and `leader_udp_map` without a lock;
`EventMgr` takes an operation on them as one step, and nothing here justifies that
(hazard at `ev_mgr.c:83`).

`PROJECT.json` lists the hazards of each component at the line where they bite,
with the properties that cover them or the reason why none does.

The source is between two versions. `dare_server.c` uses names that
`dare_server.h` and `dare_config.h` no longer have (`peer_pool`, some fields of
the configuration); `dare_rdma_shutdown` and `is_leader` are declared and called
and defined nowhere. What they do is taken from their use, and `config.idx` is
taken as the number of the server wherever either header would have it.

## What is modelled

### `RSM`: the promise

Requests are put into one order (`Choose`) and every replica executes that order
from its start, without gaps or repetitions (`Execute`).

### `Consensus`: the replication core

One action per step that another thread, another node or the RDMA device can get
between:

| Action | Code |
|---|---|
| `Submit` | the locked part of `leader_handle_submit_req`: next view stamp, place in the log |
| `Store`, `StoreFailure` | filling the entry after the unlock, `store_record`, and the early exit when it fails |
| `Post` | one turn of the posting loop |
| `Recheck` | one pass over `ack[]` |
| `ReadCommitted`, `WriteCommitted` | the wait for earlier requests and the two halves of the unlocked increment |
| `DeliverWrite`, `DeliverAck` | the RDMA device (external): a posted write lands in two parts |
| `Accept` | one entry in `handle_accept_req`: record, move on, ack, decide whether to execute |
| `UpdateState`, `UpdateStateCrash` | one turn of the execution loop; a missing record is a null dereference |
| `Connect`, `Disconnect` | `rc_connected` as the leader sees it; a replica leaving for a checkpoint and returning with a zeroed log |

Filling an entry and storing it are one action: nobody else looks at the entry
before it is posted, and the database of the leader is not read by the core.
`highest_committed_vs` is read where the action starts, which is after the lock
was released, as in the code.

Abstractions. A log offset is a request number: within one lap of the ring the
entries of all nodes have the same offsets, because the leader computes them and
replicas advance by the same lengths. The view is 1 throughout, as in the code. A
write lands in two parts: up to the field the reader tests first (`data_size` of
an entry, `msg_vs` of an ack), then the rest. An incomplete entry reads as
`Torn`. The build uses `-O0`, so the spinning reads see other threads' writes.

`Disconnect` happens between two entries, where `check_point_condtion` is called.
Writes under way to the replica are lost; acks under way from it may be lost.

### `Checkpoint`: leaving for a checkpoint and coming back

One replica process and `guard.py`. The process is a record (`checkpoint_flag`,
`restore_flag`, whether connections are open, where the replica thread and each
command thread stand, whether RDMA is up), because a checkpoint copies all of it
and a restore puts all of it back.

| Action | Code |
|---|---|
| `check_point_condtion`, `NoEntry`, `BeginEntry`, `EndEntry` | one turn of `handle_accept_req`: the check, then an entry or none; executing one may open and close connections |
| `Restored`, `LaunchRdma`, `LaunchFails`, `ClearRestore` | the wait for `restore_flag` and `reconnect_inner` |
| `ReadsNoLog` | the loop after a failed `init_server_data` dereferences the log that was not allocated |
| `CheckFlag`, `Request`, `Answered`, `TestApproved`, `Shutdown`, `ShutdownFails`, `ClearFlag` | `disconnct_inner`, one step per access to `checkpoint_flag` |
| `SetRestore` | `reconnect_inner_set_flag` |
| `StartCheckpoint`, `Dump`, `DumpFails` | `inner_checkpoint` |
| `StartRestore`, `Unpack`, `Kill`, `CriuRestore`, `CriuRestoreFails`, `SendReconnect` | `inner_restore`, by command or at the end of a checkpoint |

`criu` and `dare_rdma_shutdown` are external. A dump stops the process, as the
comment in line 435 of `guard.py` says, and can only succeed once RDMA is shut
down: this is what the disconnect is for. A checkpoint of the leader is not
modelled; only replicas call `check_point_condtion`. `launch_rdma` fails in two
ways: a failing `init_server_data` returns, and the thread goes on to `ReadsNoLog`; a
failing `init_network_cb` calls `dare_server_shutdown`, which ends the process.

The code relies on time: `guard.py` sleeps one second where it needs an answer.
The constant `Prompt` is this assumption: when the sleep ends, every thread that
could move has moved, except a replica thread that is still executing requests,
which has no bound. Commands may come at any moment, but one at a time (`Guard`
has one member).

### `DareLog`: the ring of bytes

The leader adds entries (`AddEntry`: room, tail, end, post), their writes land
part by part and in any order (`LandPart`) or are refused by the device when they
leave the memory region (`WriteRefused`), and a replica takes what it finds at
its own end (`TakeEntry`, `NoNewEntry`) or starts again with an empty log
(`NewLog`). A cell of memory is a piece of an entry; the last one is `DUMMY_END`.
Memory that is no entry boundary, and memory behind the ring, may read as
anything. The fit test subtracts unsigned numbers, so past the end of the ring
there is always room.

### `SendQueue`: one queue pair and its completions

`Reserve` is the part under the lock (`send_count`, whether to signal, whether to
poll), `StoreFails` the early exit between the reservation and the post,
`post_send` the posting with its `poll_cq`, `CompleteSend` the device, and
`ConnectStep` the way of the queue pair to ready. `late` behaviours have a peer
that connects while requests are under way, whose `send_flags` were never set and
are a free choice. `lost` remembers the first request whose store failed, after
which no later one returns, and how many signalled sends were counted and never
queued. `sq` is what the device has not completed, `unreclaimed` what still takes a
place of the send queue. The queue has `rc_max_send_wr` places, the device's
`max_qp_wr`; `Q_DEPTH` is only the size of the completion queue.

### `Election`: heartbeats and votes

One event loop thread for each server, with one action per read or write of
memory that others write: `hb_send_cb`, `ReadHeartbeats` and `HeartbeatSeen`
(`hb_receive_cb` reads and then clears), `start_election`, `poll_vote_count`,
`poll_vote_requests`, `Consider` (one turn of its second loop), `RaiseTerm`,
`Vote`; `Post`, `PostFails`, `Polled` and `Return` are the `rc_send_` functions.
`Land` is the device: a first vote request to a slot lands in two parts. The SID
is the record `[term, l, idx]`, compared as the 64-bit number is. The code reaches
all this only with `hb_on` set, which no reader of the configuration does.

### `Device`: resources and failures

`dare_server_init` call by call, each of which may fail, with `held` for what has
been obtained; `dare_server_shutdown` for what is given back. `rc_free`
dereferences `IBDEV` and every queue pair, so that a shutdown before they exist
is the step `ShutdownCrash`.

### `EventMgr`: sessions replayed on a replica

Application threads of the leader (`accept`, `read`, `write`, `close`,
`recvfrom`) take `rsm_op` in three steps: a stamp, the entry written
(`PostEntry`), the commit in order (`CommitEntry`). A `close` and a datagram of a
new peer are two requests (`SecondRequest`). The replica takes entries
(`TakeRequest`), executes those a later entry says are committed
(`update_state`), and its application accepts what the replica thread connects
(`AcceptInner`, `ConnectReturns`). Descriptors come from a small set and are used
again. `rsm` is the switch of the configuration that has reads replicated.

A thread of the leader may write to a connection before it has read from it, and
may read from or write to a socket that no `accept` returned, for which the hooks
find no pair and dereference NULL (`UnpairedCall`). On the replica `writes` records
each `write` to the application with its socket; the UDP peers share the pair of
stamp 0, whose socket each connect replaces. The replica's application may close a
connection at any time (`ServerClose`). A `write` that is cut short or refused,
whose result the code ignores on these non-blocking sockets, is left out.

### `UtHash`, `AdList`, `ListSpec`: the containers

`UtHash` has the buckets, chains and expansion of `uthash.h`; the hash function
is any of a set. One thread uses a table, and it adds a key that is not there:
`mgr_on_accept` adds without a search, but of a descriptor whose last pair
`mgr_on_close` deleted. `AdList` has cells, pointers, the iterator and memory that may
run out; `ListSpec` is what it promises, a sequence with a position. `listDup` and
`listSearchKey` use their iterator without a look whether there was memory for it
and read through NULL (`faulted`), where the comment at `adlist.c:239` says that
`listDup` returns NULL; `NoCellLost` is about what is left of the memory.

### `Output` and `Decision`: comparing outputs

`mgr_on_check` is `store_output` (hash buffer, hash list), `determine_output` and
the request it leads to; `AnswerOutput` and `AckLands` are the replicas and the
device; `DecideOutput` is `do_decision` on what has landed, and
`call_send_restore_cmd_start` the thread that talks to `guard.py`. `Decision`
translates `output/decision.c` as pure operators. The CRC is taken as collision
free. `LeaderId` names the leader, which the code allows to be any node. The ack
slots of an entry are empty when it is proposed, which is so in the first lap of
the log: the leader never clears them.

### `Startup`: from `__libc_start_main` to `main`

`mgr_init` with its readers, `initialize_db`, `system_initialize`,
`mgr_on_process_init` with the two internal threads, and `fork`. A file is the
set of its entries; which are there decides what the readers return. A
`pthread_t` that was never set is a free choice (`Garbage`). `Helper` are the
threads that a command of the guard and a restore command start: they are in no
list, and their calls are taken for the application's.

### Bounds and switches

`MaxReq` bounds the requests. Three switches turn faults on: `MayDisconnect`,
`LeaderStoreFails`, `ReplicaStoreFails`. Three requests from two threads are the
least that let a request commit while one before it is posted and one after it
waits; two replicas are the least for which one may be slow and the other makes
the quorum. `CHECK_DEADLOCK FALSE`: the system stops when no application
submits. With the two requests of the runs with faults and of the liveness run, a
replica executes at most one, since the commit of the last is never announced; and
within the one lap of the log a replica that returns with an empty log accepts
nothing again.

In `Checkpoint`, `MaxRound` bounds the checkpoints and restores begun; four allow
a failed round, a late approval, a checkpoint of the waiting replica and a
restore of that image. A round leaves at most one command thread waiting for an
approval, so `CmdAssumption` asks for more threads than rounds and no command
ever lacks one. `Faults` names the calls that may fail. `CHECK_DEADLOCK FALSE`:
a dead or waiting process stays so until the next command.

The runs `server` and `application` check modules that share no variables: the
initial state chooses one of them (`part`), and the others stay as they are. No instance depends on another one.

- `Election`: 3 servers, terms up to 3 (`MaxTerm`), one write under way for each
  pair (`MaxInFlight`), one round of heartbeats (`MaxBeat`), one server with an
  empty log. Two candidates in one term, a candidate overtaken by a later term
  and a late ack all happen in three terms. That a voter scans the requests of two
  other candidates in one term needs a fourth server; this is left to the proof.
- `Device`: 2 devices, 3 endpoints, five inline sizes.
- `DareLog`: a ring of 9 cells, headers of 2, entries of 3 or 4, so that an entry
  ends before, at and behind the end of the ring; 4 entries, one new log.
- `SendQueue`: 2 threads, `S_DEPTH` 3, 9 requests: three full rounds. The threads
  are symmetric.
- `EventMgr`: 2 TCP clients, 2 UDP peers, 2 descriptors, 5 requests, so that a
  second client can be given the first one's descriptor; at most 2 threads of the
  leader in `rsm_op` at once (`MaxInside`), which is enough for one to be posted
  behind another. Clients of a kind are symmetric. `rsm` is 1: with 0 there are no
  reads to replay.
- `UtHash`: 5 keys, 2 initial buckets, chains of length 1, four hash functions:
  several expansions, and the case in which `noexpand` stops them.
- `Output`: 3 nodes, blocks of 2 bytes, three streams that part after 1 and after
  2 bytes.
- `AdList`: 4 cells and 2 values; a copy of two cells fills the memory.
- `Startup`: files with each entry present or missing, one fork.

`CHECK_DEADLOCK FALSE` in both: bounded inputs run out, and processes end.

## Runs

| Run | Instance | Result |
|---|---|---|
| `consensus` | 3 nodes, 2 threads, 2 contents, 3 requests, no faults | holds: `TypeOK`, `IncrementNotLost`, `ReturnedIsCommitted`, `QuorumStored`, `ExecutesOnlyStored`, `ImplementsRSM` |
| `consensus_faults` | 3 nodes, 2 requests, disconnects and failing stores | holds: `ImplementsRSM` |
| `consensus_live` | 3 nodes, 2 requests, fair | holds: `EverySubmitReturns`, `NextRequestDelivers` |
| `consensus_torn_ack` | 4 nodes, leader is not node 0 | violated: `QuorumStored` |
| `consensus_replica_store` | store fails on replicas | violated: `AckedIsRecorded` |
| `consensus_leader_store` | store fails on the leader | violated: `ReturnedIsCommitted` |
| `checkpoint` | 4 rounds, 5 command threads, every call may fail, fair | holds: `TypeOK`, `UsesOpenRdma`, `ImageWaits`, `ComesBack` |
| `checkpoint_late` | 1 round, nothing fails, fair | violated: `WakesUp` |
| `server` | `Election`, `Device`, `DareLog`, `SendQueue` as above | holds: `ElectionTypeOK`, `OneVotePerTerm`, `SidGrows`, `LeaderWasSupported`, `FixedLeaderStands`; `RunsComplete`; `TakesInOrder`, `SameOffsets`; `PollIsCovered`, `QueueBounded` |
| `application` | `EventMgr`, `UtHash`, `Output` with node 0 as leader, `AdList`, `Startup` | holds: `SameSession`, `ReadsItsOutput`, `CloseIsReplayed`; `FindsWhatWasAdded`, `HASH_FSCK`; `HashesFollowOutput`, `RestoresTheMinority`, `OnlyDivergedRestored`; `BothWays`, `NoCellLost`, `ImplementsList`; `SortsCalls` |
| `output_leader` | `Output` with node 1 as leader | violated: `OnlyDivergedRestored` |
| `log_tail` | `DareLog` | violated: `TailIsLastEntry` |

What the last two passing runs say, in words. A server never supports two
candidates in one term, its SID never goes back, and who leads was supported by a
majority.
That there is one leader per term follows only where all acks count in the term
they were given for: acks carry no term, and `LeaderWasSupported` therefore speaks
of supporters in any term. A server that runs has everything it dereferences. A
replica takes the entries of the first lap in order and whole, and looks for each
next entry where the leader puts it, also across the end of the ring; after a
lap it may take stale bytes for an entry, which no text of the repository
excludes. A thread waits for a completion nobody asked for only after a failing
store or on a queue pair that was not ready. A replica writes each client's requests
to its application as the leader's read them; a hash request finds the right
connection unless the leader's application spoke first or the replica's has closed
it; after a close the replica closes too. Hashes of equal index are of equal
prefixes, a decision restores the minority, and in the first lap of the log
`guard.py` is never told to restore a node that agrees with the majority. The hooks
tell the calls of the two internal threads of an unforked process from the
application's. In `checkpoint`, a restored process is in its loop again with RDMA
launched, or it has ended.

The six violations are disagreements between the code and its own comments:

- With a leader other than node 0, an `accept_ack` of which only `msg_vs` has
  landed counts for node 0, and the same ack counts again for its sender. In a
  group of four a request then commits on the leader and one replica.
- A replica acknowledges an entry whose `store_record` failed, under a comment
  that says the data is recorded persistently.
- When `store_record` fails on the leader, `rsm_op` returns the entry as if it
  had reached a quorum, although nothing was posted. The request also keeps its
  number, so every later request waits for it in line 229 for ever.
- A replica that is executing requests while `guard.py` sleeps answers the
  disconnect too late: the dump has failed on the open device and the guard has
  ended without a "reconnect". The replica then approves, RDMA is shut down, and
  it waits until the next command or round of the timer, where `guard.py` says that a
  checkpoint ends with waking up the program.
- With a leader other than node 0, the leader's own slot of the peer array says
  node 0, so `get_master_hash` finds no leader. When the leader's output diverges,
  the healthy node 0 is named in the restore command, under a comment that says
  the differing node is restored.
- Where the ring starts again, `leader_handle_submit_req` fills the entry at the
  old end of the log, while `tail`, described as the offset of the last entry,
  and the writes to the replicas are at offset 0.

Things the models show that no text of the repository speaks of are listed as
hazards, with a note that also says what a property named there does not cover. Two
of them concern the checkpoint: two disconnect threads
that both pass the test of `checkpoint_flag` or both see one approval shut RDMA
down twice, and activities of the guard that overlap can wake a replica before
its RDMA is shut down. `UsesOpenRdma` is checked for one activity at a time.

Fairness. Threads inside `leader_handle_submit_req` and replica threads run or
spin until done, and the RDMA device completes posted writes: weak fairness for
each of them. Nothing makes applications submit or replicas connect; the
liveness run starts with a majority connected and has no faults, because the
code has no timeout and needs both. In `Checkpoint` the threads of the process
and the steps of the guard are weakly fair; that a request comes for execution,
or a command for the guard, is not.

## Proofs

Eight modules hold theorems. Each is named after the module it is about, but for
`ProcessProofs`, which is about the three that model the process of a replica
(`Startup`, `Device`, `Checkpoint`), and `SessionProofs`, the second about
`EventMgr`. Several start with `USE Zenon`: a leaf then goes to Zenon, and
those that need arithmetic or sequences name the SMT solver.

The theorems about `Consensus` hold for every group, any number of threads, any
contents and any `MaxReq`. `ConsensusProofs` has the inductive invariant and what
follows from it directly, then what the databases hold and the refinement of
`RSM`. From the assumptions on the constants alone:

- `Invariant`: `IInv` is inductive. It adds to the types that running requests
  have distinct numbers past the commit point (`NumbersInv`), that posted,
  recorded and committed entries never change again and that the commit point an
  entry carries lies before it (`EntryInv`), that an entry is posted to and acked
  by a peer at most once (`PostedOnceInv`), and that a replica has executed
  exactly the committed prefix up to its loop index (`ExecInv`). None of the
  safety properties is inductive without these: `IncrementNotLost`, for
  instance, needs that no two running requests share a number.
- `TypeCorrect`, `NoLostIncrement`, and `Refinement`: `Consensus` implements
  `RSM`, whatever is disconnected, torn or fails to be stored.

With further assumptions, which the violating runs show to be needed:

- `ReturnsCommitted`, if `store_record` does not fail on the leader.
- `NeverMissing` and `AckIsRecord`, if it does not fail on replicas.
- `CommitIsQuorum`, if it does not fail on replicas and the leader is node 0.

`ProcessProofs`, on `Checkpoint`. `CheckpointTypes` needs nothing but that `inner_restore` has
an image in hand when it kills the process. `LoopUsesOpenRdma` and `ImagesWait`
hold for any number of rounds and command threads, under `Prompt` and with one
activity of the guard at a time; runs with either dropped violate them. The
invariant relates three programs: what the replica thread may be doing given
`checkpoint_flag` and the state of RDMA, what the command threads may be doing
(`SafeProcess`), and that every image, on disk or unpacked, is of a process that
is `Frozen` in its wait (`Images`). Images must be part of it because a restore
makes an old process the current one.

`ElectionProofs`, for a group of any size, any number of terms and any writes
under way. `OneVotePerTerm` follows from `LastVote`: the SID of a server is its
last vote, so a later one is of a later term; that needs `Scan`, since the term
may be raised between the two loops of `poll_vote_requests`, and `Requests`, since
a request that carried the leader flag would compare wrongly. `LeaderWasSupported`
needs what is under way (`Sending`: an ack is only sent to who was supported) and
`Started`: the zeroed memory of `log_new` reads as an ack of everybody until
`start_election` clears it.

`DareLogProofs`, for every length of the ring, any sizes of header and data, and
parts of entries that land in any order. The two properties hold only together
with what the memory of a replica is: every entry starts where the one before it
ends or at the start of the ring (`Chain`), a cell that was written holds what the
leader put at that offset (`Written`), and in the first lap no two entries share a
cell (`Apart`) and a write that landed up to a cell landed before it too (`Prefix`).
A header is therefore never read before the bytes it stands for are on their way,
and the replica's end is where the leader's next entry goes (`AtNext`). From this
follow `TakesEntriesInOrder` for the first lap and `OffsetsAgree` for every lap in
which the replica keeps its log. A replica that returns with a new log in the
first lap waits at offset 0 for an entry nobody writes again (`Stranded`).

`OutputProofs`. `HashesAreOfBlocks` holds for every size of blocks and writes:
`HandlerInv` says that a handler that saw `w` bytes has the hashes of all prefixes
of whole blocks and the rest in its buffer, or was made again after the close.
`store_output` is written without recursion: its loop cuts leftover and write
together at multiples of `HASH_BUFFER_SIZE`. `MinorityIsRestored` and
`OnlyDivergedNodesRestored` assume `LeaderId = 0`; run `output_leader` shows the
latter false without. They rest on `FirstOfMost` and `Decides`, what the loops of
`decision.c` find in an array of any length, and on `AskedInv`: a hash under way
is that of the block that was asked for, or none.

`SendQueueProofs`, for every `S_DEPTH`, any number of threads and requests. For
`PollsAreCovered` the invariant `CoverInv` says that `Excess` is never negative: the
completions, the signalled sends under way, about to be posted or lost are at least
the polls still to be made, and one more inside of a round. A late connection only
adds to them, because the loop skips the peer only before a signal is reserved for
it. `QueueIsBounded` is about queue pairs that were ready, and has two halves
(`BoundInv`). Before a store has failed `Excess` is 0; behind every signalled send
there are at most `S_DEPTH` sends for each signal that follows, and as many more as
threads have counted and not posted (`Ahead`); and requests return in order, so that
those under way are the last ones, no more than there are threads, and only every
`S_DEPTH`-th of them polls (`Numbers`, `FewPolls`). Afterwards a thread posts at most
one send more, since the requests behind the failed one do not return (`Stalled`).
The bound is what the device's `max_qp_wr` has to be at least; the code does not
compare it with `S_DEPTH`.

`ProcessProofs`, on `Device` and `Startup`. `ServersRunComplete` is for any number of
devices and endpoints: `DeviceInv` fixes what is held at each step of the set-up
(`Choosing`, `Building`) and that the inline sizes passed over are not accepted
(`Inlining`). `SizesAssumption` states what halving does to powers of two, which the
provers do not know; TLC evaluates it. `HooksSortCalls` is for any configuration
file: the global `ev_mgr` is set after both threads are listed. It says nothing of a
forked child, nor of the `Helper` threads.

`EventMgrProofs` and `SessionProofs`, for any clients, descriptors and bounds. The
invariant `EventInv` has a half for each side.

- The leader. Every request in the log that is not committed is in the hands of
  the one thread that submitted it (`ThreadInv`, `OrderInv`), so that a request that
  is posted carries a commit point that covers the earlier requests of its client. The
  requests of a connection are its connect, which is its stamp, reads and outputs,
  a close and a `P_NOP` (`TcpInv`, `TcpRequests`); an output of a connection that was
  read from comes after a `P_SEND` (`ReadFirst`), and the first read of a UDP peer
  after its connect (`UdpRequests`).
- The replica. It executes a prefix of the log that the entries it took allow
  (`CoreInv`); its pairs are those of the connections that this prefix opens and
  does not close (`PairsInv`); the pair of an executed connect has been accepted,
  and while the thread waits in `do_action_tcp_connect` the backlog holds that one
  connection or none (`AcceptInv`): `cur_rec` therefore always names the connection
  that the hooked `accept` is about. The application has at most one descriptor for a
  connection, and none before it could be accepted (`ServerInv`).

A P_OUTPUT is answered when it is taken, not when it is executed. That its pair is
there needs both halves: the read before it was posted after the connect was
committed and told the replica so. Without a read before it the pair may be missing,
and the theorem says that the replica stops only there. From `EventInv` follow
`OutputsAreFound` and `ClosesAreReplayed`. When the application has closed a
connection, the descriptor in its pair may already belong to another one.

`SessionsAreSame` adds numbers on top of `EventInv` (`SessionInv`): the reads of a
client are numbered in the log as they follow each other (`ReadsInv`), and the calls
of `write` for it are as many as the executed prefix has (`SentInv`). The socket in
the pair of a TCP connection is the one its connect opened (`SocketInv`), because
only UDP connects meet a pair that is there.

Only model-checked: the liveness properties, which need fairness, and `UtHash` and
`AdList`, whose chains are recursive.

## Not modelled

- The exchange of JOIN, RC_SYN, RC_SYNACK, CFG_REPLY and DESTROY over multicast
  (`rdma/dare_ibv_ud.c`): nothing in this version calls `ud_get_message` or
  `ud_join_cluster`, and the cases of its event loop have no `break`s. What it
  leaves behind, `rc_connected` and the states of a queue pair, is in `Consensus`
  and `SendQueue`.
- The shared-memory prototype (`shared_memory/src` at the top of the repository):
  it does not compile, because `consensus.c:178` there reads a field
  `shm_data_t` does not have, and the offset that was meant cannot be told.
- Data behind pointers: the content of requests beyond their identity, blocking
  modes and socket options, the callbacks a list may be given, the CRC and hash
  functions, the wording of messages and logs.
- `uthash.h` beyond what the event manager calls: sorting, selection, the bloom
  filter.
- Berkeley DB, `criu`, the RDMA device, sockets and threads are external and
  modelled by how the code uses them. A `connect` of a replica to its own
  application does not fail, and a `write` to it is never cut short: the code ignores
  what `write` returns at `ev_mgr.c:341`, so that bytes the socket did not take would
  be missing from the session.
- What two threads of the leader's application do to `leader_tcp_map` or
  `leader_udp_map` when they are inside `uthash.h` at once: nothing locks the maps.
- The ack slots of a P_OUTPUT after the first lap of the log, which may hold the
  hashes of an entry that was overwritten.
- The output list of a connection is used by the replica thread and by
  application threads without a lock (the comment at `include/output/output.h:19`
  leaves the question open). What a torn `listAddNodeTail` leaves is not modelled.
- The clock (`util/clock.c`) and debug helpers, which only measure, and the
  scripts that build and run applications.
