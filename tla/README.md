# Verification of charm-experiments

TLA+ models of the concurrent and message-driven code in this repository, TLC
configurations that check them on small instances, and TLAPS proofs of the
safety properties that matter most for any size. `PROJECT.json` is the machine-readable index: components,
runs, the line of code behind every definition, findings and hazards.

## The system

The repository is a collection of experiments around Charm++. They share an
author and a style, not a process; these hold nearly all of the logic.

| Component | State | Operations | Interaction | What is hard |
|---|---|---|---|---|
| `archive/lfq`: `ipc_lfq`, a bounded multi-producer single-consumer queue in shared memory, and its two-process test | `head`, `count`, `tail`; per node a spin lock, `has_value`, `value` | `enqueue`, `dequeue`, `open`, `close` | processes map one segment | interleaving of atomics, queue at its limit, wrap of counters, open racing construction |
| `archive/xpmem-experiments`: two processes pass a counter through a pair of `ipc_lfq` queues | per process one integer; which scheduler loops were invoked | `send_msg`, `recv_msg`, `pseudo_scheduler`, exit at quiescence | a message is a pointer into the sender's memory | the integer is read in place after the message was taken; both count for themselves |
| `archive/charmlite`: a small Charm++ runtime from templates | per PE the table of collectives, messages that wait for a collective; per collective its chares and buffers | construct, insert, send, broadcast, deliver, flush | asynchronous messages between PEs | messages overtake what they depend on; broadcasts in one order; a flush that re-enters itself |
| `archive/charmlite/examples/cdt` with `reduction.hh`: completion detection | per PE a count of messages produced less consumed, a status | produce, consume, start_detection, receive_count_ | group broadcasts and an all_reduce | counts taken at different times; repeated rounds without tags |
| `archive/include`: block pools and queues between processes | free lists by size, one queue per PE, links in the blocks | lput, ralloc, enqueue, dequeue | exchange of list heads in shared memory | who sees `nullptr` retries; one link for two lists |
| `archive/tests/basic` and `archive/tests/pingpong`: the programs on pools and queues | loop counters; the list of retained blocks, warm-up flag | populate, send, poll; the phases of the benchmark | the above, plus Converse messages and signals | exit while a peer works; a third list through the same link; every PE counts receipts for itself |
| `archive/path2.0`: hypercomm workgroups, and the relaxation example | per element its tasks and the messages buffered for them | launch, create, resume, try_continue_, reduce | entry methods, array reductions | messages for a continuation that is not the current one; iterations without numbers |
| `archive/tests/comex`: dataflow components, and the exchanger | sets of input values, an outbox, active and persistent flags | accept, activate, output_to; do_sends | direct calls between components of one element, messages between elements | ports that run ahead, late activation, counting for quiescence, destinations computed by every sender |
| `warp`: tasks over MPI, and their ping-pong | maps of sends and receives, a queue of probes; per task a counter and a warm-up flag | request, send, __run_once, receive, finish | MPI messages matched by tag | entry methods change the map that is iterated; probes block each other; one flag for two tasks |

## Modules

| Module | Models | Checked by |
|---|---|---|
| `MpscQueue` | what a bounded FIFO queue promises (abstract) | as property of `lfq` |
| `IpcLfq` | `ipc_lfq.hh`: every atomic access is a step; the plain accesses to a node under its lock are one | `lfq` |
| `IpcLfq_proofs` | lemmas on remainders; the proofs about `IpcLfq` | tlapm |
| `LfqSegments` | `open` and `close` for two processes, on queues as `MpscQueue` describes them | by the programs on top |
| `LfqTester`, `XpmemTester` | `lfq/tester.cc`; `xpmem-experiments/tester.cc` | by `LfqPrograms` |
| `LfqPrograms` | either of the two programs | `lfq_tester`, `lfq_tester_open` |
| `LfqPrograms_proofs` | the proofs about `LfqPrograms` | tlapm |
| `OrderedBroadcast` | one order for all broadcasts to a group (abstract) | as property of `collective` |
| `Collective` | `collective.hh`, `core.cc`, `proxy.hh`: one collective | `collective`, `collective_flush` |
| `Collective_proofs` | the proofs about `Collective` | tlapm |
| `Completion` | `cdt/pgm.cc` over broadcasts as `OrderedBroadcast` describes them | `completion` |
| `Completion_proofs` | lemmas on sums of a function over a finite set; the proofs about `Completion` | tlapm |
| `IpcBlocks` | `pool.hh`, `queue.hh` | by the programs on top |
| `BasicTester`, `PingPong` | `tests/basic/tester.cc`; `tests/pingpong/tester.cc` | by `IpcPrograms` |
| `IpcPrograms` | either of the two programs | `ipc_blocks`, `ipc_blocks_exit` |
| `IpcPrograms_proofs` | the proofs about `IpcPrograms` | tlapm |
| `Workgroup` | `workgroup.hpp` and the relaxation example | `workgroup`, `workgroup_start` |
| `Workgroup_proofs` | the proofs about `Workgroup` | tlapm |
| `Component` | `component.hh`, `outbox.hh` | by `Exchanger` |
| `Exchanger` | `tests/comex/tester.cc` | `component` |
| `Exchanger_proofs` | the proofs about `Exchanger` and its components | tlapm |
| `Warp` | `warp.hpp` over MPI | by `WarpPingpong` |
| `WarpPingpong` | `pingpong.cpp` | `warp` |
| `WarpPingpong_proofs` | the proofs about `WarpPingpong` | tlapm |

A module whose program is another module has no specification of its own: it
declares the state of the library and its operations as actions that take from
the program what differs (where to go on, what is counted).

An `MC` module gives the constants of a module values for its runs. Operators
under a comment that starts with "Faulty:" are mutations: a definition is
replaced by one of them to confirm that a property can fail. They are not part
of any specification.

How state and steps correspond to the code:

* **IpcLfq.** `head`, `count`, `tail`, `lock`, `has_value`, `value` are the
  fields. A producer goes through `claim` (after `count.fetch_add`), `undo`
  (turned away), `spin` (has its slot), `write`, `release`; the consumer
  through `spin`, `read`, `release`, `advance`. `ticket`, `log` and `out` are
  history. `head` counts modulo `SizeMod`.
* **LfqSegments.** A segment is absent, created without a size, sized, or ready
  (constructed); `serial` is chosen at the start and says whether process 1
  starts when process 0 has opened both queues. `Leftovers` are contents an
  aborted run may have left. `Capacity` is the template parameter N. A call of
  `enqueue` or `dequeue` that returns true is one step; the calls before it that
  return false change nothing, and the process waits (`TesterWaits`,
  `XpmemWaits`).
* **XpmemTester.** A message names its sender, whose `data` is read when the
  message has left the queue; the second component of a queue entry is history,
  the number at the time of sending. Every access to a queue or to `data` is a
  step: a process polls, has taken a message (`TakeMsg`), reads the number
  where it is (`ReadNumber`), writes its own (`WriteNumber`) and sends it
  (`SendMsg`), and the other process may do anything in between. `data` is not
  initialised. `creating` and `invoked` are the Charm++ messages in flight,
  which quiescence detection waits for.
* **Collective.** `inst` is the program: a group or an array, whether channels
  keep their order, how much is sent. `net[src][dst]` are channels. A handler is
  one step, but the loops that call back into delivery have a step per turn, and
  `frames` holds the nested calls of `flush_buffers`. `handled` (what the methods
  of an element ran on) and `delivered` (its broadcasts) are history.
* **Completion.** `handled[p]` is the number of broadcasts a PE has handled, in
  the order of the root. There is one current contribution and one result per
  PE, so the state is finite without a bound on the rounds.
* **IpcBlocks.** Every exchange on a list head is a step; `head[p]` is what a PE
  got for the `nullptr` it put there. Link and flag are fields of a block, the
  same field `next` for the free list, the queue and the list of retained
  blocks.
* **PingPong.** `plain` is where the Converse message is going, `signals` the
  broadcast signals not yet handled, `retained` the head of `retained_`. A PE
  is `idle` in its scheduler, or somewhere in the loop of `start_xpmem`.
* **Workgroup.** A message carries what it resumes, the task and, as history,
  its sender's iteration. `busy` is the task whose `try_continue_` is running.
  The runtime's reductions are external: the k-th takes the k-th contribution
  of every element.
* **Component.** `stack` holds the calls that have not returned; a value is the
  set of arrivals it was computed from.
* **Exchanger.** An element's constructor, with all its sends, is one step; so
  is the start of every `accept`, whose calls run to their end before another
  message is taken (elements share only the quiescence counter, so that
  interleaving the calls of different elements would show nothing new).
  Without `exchanging` the components of element 0 are driven by any sequence
  of `accept`, `activate` and `output_to`.
* **Warp.** A pass of `__run_once` is `sends`, `receives`, `probes`; one request
  is tested per step, and `at` is the iterator. `receives` is the map in the
  order of its keys: MPI chooses handles, so a new receive may come before or
  after the iterator. MPI may match a message with a posted receive, and
  complete a send, at any time.

## Runs

Passing runs:

* `lfq`: three producers, two values, two nodes, three places taken (so every
  node is reused and a producer is turned away), `head` modulo 2 so that it
  wraps. Inductive invariant, mutual exclusion, the code's three assertions,
  FIFO order, the nodes hold the queue, refinement of `MpscQueue`, and every
  `dequeue` returns.
* `lfq_tester`: four messages (in four iterations for the queue test), both
  programs, both ways to start. One creator per queue whatever the race; when
  the processes start one after the other, iterations stay aligned; what a
  message of the xpmem program points to stays as it was sent until it is read,
  after the message has left the queue; and nobody is left waiting: who retries
  a `dequeue` on an empty queue, or an `enqueue` to a full one, has a partner
  that can go on, and when both have exited the queues are empty. With capacity
  equal to the messages of an iteration both queues of the queue test are at
  their limit.
* `collective`: three PEs and four programs: an array of two elements with two
  sends over channels that reorder; a group with a send and two broadcasts over
  ordered channels; a group with two broadcasts over channels that reorder; and
  the same with a send, where only PE 1 is a client (`clients`). No
  entry method before the constructor, each message in one place, none
  stranded; one order of broadcasts everywhere (refinement of
  `OrderedBroadcast`), and over ordered channels every broadcast reaches all. Not
  every send is handled: in the fourth program broadcasts out of order can catch
  a PE in a flush that does not end, and it receives nothing any more.
  `SendsHandled` says that this is the only reason: a send is handled, or it is
  at, or on its way to, such a PE (`CaughtInFlush`).
* `completion`: three PEs, both kinds of layer. No false completion, rounds do
  not overlap, and over ordered layers all PEs exit.
* `ipc_blocks`: two PEs; four blocks of two sizes each in the basic test, two
  buffers and eight iterations in the benchmark. Every block is in one list, in
  one hand, handled or retained; assertions; no exit while the peer still uses
  the pool or the queue; `alloc_from` finds its first retained block free, so
  it never follows the overwritten link; and the PEs of the benchmark agree on
  the one ball through warm-up and measurement.
* `workgroup`: four elements (two with one neighbour, two with two), two
  iterations. Ghosts are those of the iteration or wait, reductions keep the
  elements in step, nothing is stranded, exit leaves nothing behind, and exit is
  reached, past the assertion on the set of indices.
* `component`: an adder and a consumer, persistent or not, three values per
  port, two activations each, connected at any time; and the exchange of four
  elements, four iterations each. Ports stay in step, nothing is lost, no ready
  work is left at rest, the quiescence counter equals the values held, and the
  exchange ends with types matched and all values paired.
* `warp`: one, two and three ranks, two iterations of warm-up and two of
  measurement, entries with and without a size. The tasks take turns, a task
  that goes on has exactly one receive or probe, on its rank, and gets its own
  messages; a rank that finalizes has no receive or probe left, and no message
  on its way to it but the last one (nothing is said of requests of sends); all
  ranks exit.

Runs that show a disagreement between the code and what it says of itself:

* `lfq_tester_open`: `open` publishes the name of a segment before it is
  constructed; a message sent in between is wiped.
* `collective_flush`: a broadcast that is delivered out of the buffer is still
  its front when `handle_` flushes the buffer again; it is put back behind the
  others without end.
* `ipc_blocks_exit`: the queue is last-in first-out, so the block marked last
  can end the test with others unhandled.
* `workgroup_start`: the member `it` of the relaxation task is read
  uninitialised; elements that start from different values wait for each other
  for ever.

## Bounds and fairness

The bounds limit how much clients ask for (`MaxEnqueues`, the sends, clients and
broadcasts of `Instances`, `MaxIters`, `MaxValues`, `MaxActivations`, `NumMsgs`, `Capacity`,
`NumBlocks`, `PoolSize`, `NIters`, `NumIters`, `MaxSerial`), never what the code does with it. They are large enough that each limit of the
code is met: a full queue, a reused node, a wrapped counter, two messages that
overtake each other, an element with two neighbours, a set of values behind
another. `workgroup` takes `it` to start at 0, which is what the example means.

Fairness is weak throughout. A process, or a handler, that can take a step takes
it in the end: operating systems schedule processes, machine layers deliver
messages and a PE's scheduler takes them from a queue. `IpcLfq` assumes it for
calls in progress only; nobody has to call. In `Collective` the first message of
every channel is fair: where messages overtake each other none is overtaken
for ever. In `Completion` each kind of message
is fair on its own, because rounds of the detection can go on while a message
waits. In `Warp` the progress of MPI is fair, and so is every rank. Strong
fairness is never assumed, in particular not for spin locks. `IpcPrograms` and
`LfqPrograms` have no fairness and no liveness property for that reason: a PE
that retries an exchange can starve while another polls the same list, and an
`enqueue` while the consumer polls the same node. What `LfqPrograms` has
instead is safety (`NobodyLeftWaiting`): no state in which a call that is retried
could not succeed until the end.

Each `MC` run of a library checks it under all its programs: `program`, `inst`,
`exchanging`, `nRanks` and `sized` are chosen in the initial state. `TypeOK` is
part of `IInv` in `lfq` and checked in `completion`, where it says that counts
do not go below zero; the other type invariants are stated for readers and
proofs.

Deadlock is checked except where the modelled system stops on its own: clients
that have asked for all the bounds allow, or processes that have exited or died.

## Proofs

Every theorem is about all values of the constants that the module's named
assumption allows (`QueueAssumption`, `CollectiveAssumption` and so on, which
TLC evaluates in the runs); what more a theorem assumes is in its statement.
The properties are not inductive by themselves. Each proof module states an
inductive invariant, has one lemma per action that shows it is kept, and joins
them; the sections below give the idea.

**`IpcLfq_proofs`**, any producers, values, number of nodes and of enqueues:
`Invariance` (`Spec => []IInv`), and from it `TypeCorrect`, `Exclusion`,
`AssertionsNeverFail`, `CountIsAccurate`, `FirstInFirstOut` and `QuietNodes`;
`Refinement` (`Spec => ImplementsQueue`, with `log` and `out` as the refinement
mapping). They assume `WrapAgrees`: the number of nodes divides the range of
`size_t`, as any power of two does. Without it the slots jump when `head` wraps.
The argument is about the window of places that were taken and not yet returned.
`CountAccurate` says that it is at most N wide, counting the producers that were
promised a place. Then two places in the window share a node only if they are
equal (`OnePlacePerNode`, by `WindowUnique`). `PlaceInv` ties `head`,
`tail` and every producer's slot and argument to its place, `NodeInv` says which
nodes of the window hold which values, `ConsumerInv` what the consumer carries.
With these the producer that arrives at a node finds it empty, which is the
assertion in `enqueue`.

**`LfqPrograms_proofs`**, any number of messages and any capacity:

* `OneCreatorHolds`, whatever is in the segments: a process creates a queue only
  if it is absent, and a queue that is being created becomes absent only when
  the other process has exited (`CreatedApart`).
* `IterationsStayAligned` and `DataStaysForReader` assume that no segment is
  left by an earlier run (`Leftovers = {<< >>}`; with old contents both fail,
  see the known limits). `Stream(p, q)` says that what q has in its queue is the
  part of p's messages, numbered by iteration, between what q has received and
  what p has sent; since p waits for q's messages before the next iteration, it
  spans two iterations at most. `OneMessage` says where the current number of
  the xpmem program is (`Underway`): in a queue, taken and to be read, or not
  yet sent; a process that acts on a number is the one whose turn it is
  (`WhereItIs`), so nobody writes where the other is still to read.
* `NobodyIsLeftWaiting` also assumes that there is more than one message, and
  room for those of an iteration (`NumMsgs <= Capacity`, an equality in the
  code). With `Stream` two processes that wait would each have sent more than
  there is. For the xpmem program `Turns` says of each process that its loop has
  yet to start, or that it is at work exactly as long as there is a number for it
  (`MoreFor`), so that the loops end at the right time on both sides.

**`Collective_proofs`**, any number of PEs, any tree, any programs, channels that
keep their order or not:

* `NothingIsStranded`: `Table` says that messages wait for a collective that is
  not there or whose buffer is being flushed; `Waits`, that an element that is
  there has only broadcasts in its buffer, or a call of `flush_buffers` in
  `frames` that will empty it.
* `ConstructorRunsFirst` and `MessagesConserved`: `Made` and `Conserved` count
  the places a message can be in. Every action moves one message, copies
  one down the tree or posts new ones (`Moved`, `Copied`, `Posted`), so that one
  lemma for each of these kinds serves all actions.
* `BroadcastsAreOrdered`: the refinement of `OrderedBroadcast`, assuming
  `Window`: no program makes more broadcasts than `bcast_id_t` has numbers for.
  `Progress` ties `last_bcast` to the number of broadcasts handled, `Underway`
  says that a broadcast without a place in the order is in one place, on its way
  to the root, and no copy carries a number but that of its place
  (`Misnumbered`). `RootRoom` is the pigeonhole argument: while one broadcast
  has no place the root's counter cannot have wrapped.

**`Completion_proofs`**, any number of PEs: `TypeCorrect`, `RoundsNeverOverlap`,
`NoFalseCompletionHolds`. The root is the first in everything: it handles
`produce` first, starts the detection, and contributes to a round before anyone
else (`RootContributesFirst`). Counts are never negative, because a PE produces
before it consumes; so a sum of zero means zeros only (`SumZero` and its
companions), the root's zero that all events are produced, and every later
zero that a PE has consumed its own (`ZeroIsFinal`).

**`IpcPrograms_proofs`**, any number of PEs in the ring, of blocks and of
iterations, both programs:

* `AssertionsAlwaysHold`: the `nullptr` a PE leaves behind is a lock: who holds a
  list is alone and finds it where he left it (`Exclusive`). That `ralloc` never
  hands out a block in use needs the shape of the lists (`FreeLists`): the blocks
  divide into those linked to free lists, each pointed to once, and those linked
  to queues and retained lists, and no link leads from one kind to the other.
* `RetainedBlocksFree` and `OneBallAlways`: `Ping` lists the phases of the
  benchmark: `Before` the first message, `PlainPhase`, `Starting` (the signals of
  `start_xpmem` are out, PE 0 has not sent), `Playing(d, r)` (the ball, a block,
  is for PE d in round r) and `Ended`. `Playing` says which PEs have counted
  the round (`Counts`), that PE d or the PE before it acts on the block
  (`OnItsWay`, `Sending`), that it is the only one in use, and that all others
  wait and their queues are empty; a PE that has not heard of the round yet is
  in its scheduler meanwhile (`Waits`). Every step of a PE that waits leaves all
  of this alone (`Bystander`).
* `ExitsAfterPeer`: for the basic test `Markers` gives each PE the set S of blocks
  that were ever put into its queue. They stay in use, so that `ralloc` hands out
  none of them, and a marked one among them means that their sender is done; for
  the benchmark it follows from `Ended`.
* `BlocksAlwaysConserved`: `Located` gives each block the place it is in, w, and
  the number of blocks behind it in its list, dp, so that the links of a list
  run through its blocks, each once (`Thread`). Each exchange moves a list as a
  whole or puts a block in front of it or takes the first one off (`MoveList`,
  `PushFront`, `PopFront`). `Chain` follows links as often as there are blocks;
  a list is not longer (`ShortLists`), and what is reached from its head
  is the list (`ChainOfList`, by the least number of steps for which it would
  not be). `Keeps` says that no block is retained twice and that a freed block is
  retained by somebody; `Quotas` bounds what `lput` has put so far.

**`Workgroup_proofs`**, any number of elements and iterations: `NothingStranded`
for one or two tasks and any start; `ElementsInLockstep` for one task and one
start value, without which it is false (`workgroup_start`, and the known limits
for two tasks). `InStep` says for each element what its j-th contribution is and
that it has taken part in all completed reductions and at most one more; its
iteration number follows from how often it has contributed. Under the same
assumptions `GhostsAccountedFor` and `ExitLeavesNothing`: `Exchange` says that
all ghosts under way are of the iteration the next reduction is for, each waits
once, and `nRecvd` counts the neighbors that have sent one which no longer waits
(`Got`); a reduction can complete only when every element has got them all, so
that the next iteration starts without any. `Collects` says that the grid is
made once, for the root, when the iterations are over. What remains to be sent
in `GhostsOfIteration` are the ghosts of neighbors that are an iteration behind,
or not created yet.

**`WarpPingpong_proofs`**, any number of ranks and of iterations:
`TasksTakeTurns`, `TasksListen`, `FinalizeLeavesNothing`. What a rank has posted
is for tasks of its own that are not over, once per tag (`Posts`), and each such
task is heard (`Heard`): a receive is inserted anywhere in the map while a pass
goes over it, and the lemmas on `InsertAt` and `RemoveAt` say that nothing else
in the map changes. One message is under way, to the task with fewer receipts
(`OnTurn`), and receipts and sends agree (`Counted`). The rank of a task stops
only when all its tasks are over (`Stopped`): on one rank that is task 0, which
receives last.

**`Exchanger_proofs`**, any even number of elements, any calls on the components of
element 0 and any order of the messages of the exchange: `PortsInStep`,
`ValuesKept`, `WorkDone`, `QuiescenceCounts`, `ExchangeCompletes`. They assume
what `ExchangerAssumption` says: the iterations are a multiple of four, as the
4 and 8 of `tester.cc` are (with another number the messages do not divide
evenly between the ports), and the number of elements is even. The
invariant (`Inv`) says per element what its adder and its consumer hold
(`AdderSets`, `ConsumerSets`). One port of an adder is ahead of the other
(`Behind`); the sets that wait are the first of `incoming_`, the newest in
front, one for each value the other port is behind, so that `find_gap_`, from
the back, finds the oldest, and every other set is made of the k-th values of
both ports. All of the adder's results are at the consumer, on the way, or in the
outbox (`Relayed`). `Calls` lists the stacks of calls that can be in progress and
which part of this holds in the middle of each: a set that is acted on stays in
`incoming_` until the result was relayed (`Paired`). `Counted` ties the quiescence
counter to the places that hold a value. For the exchange, `Online` says that
both components act from the construction on, and `Exchanged` that the messages
to a port that are under way and the values that came are a quarter of the iterations
for each constructed sender; an adder has two senders for each port
(`SendersOf`), however many elements there are.

Every safety invariant and action property that a passing run checks is stated by
one of these theorems. Only model-checked is liveness (`DequeueReturns`,
`SendsHandled`, `BroadcastsReachAll`, `ExitOnAllPes`, `Exits`),
which is outside what the prover handles; the disagreements of the runs that
expect a violation are shown by TLC's counterexamples.

## Known limits of the code, outside the runs

* `enqueue` spins on a lock that the polling consumer takes again and again:
  under weak fairness a producer can starve, so the queue is not wait-free as
  `archive/lfq/README.md` says.
* If N does not divide 2^64 the queue breaks when `head` wraps.
* A segment left by a process that died is opened with its old contents.
* The 65536th broadcast to a group wraps `bcast_id_t` to 0, which means "not a
  broadcast", and only the root handles it.
* A PE that constructs a group and then an array gives both the same id
  (`proxy.hh`: `++count` and `count++`), and the second creation fails
  "insertion did not occur!".
* A `cdt` message that finds no detector branch is put back by a call that
  delivers it at once, and recurses for ever (`Completion!PutBack`); with
  channels that keep their order this does not happen.
* Two tasks of one workgroup share one sequence of reductions; with
  `NTasks = 2` their contributions mix and the assertion in `receive_grid` fails.
* Results of a component that is not persistent stay in its outbox when it is
  connected after it acted; and `stage_action` uses its iterator after the
  result was relayed, so components must not be wired in a circle.
* The ping-pong benchmark needs four iterations at least: with fewer `nIters /
  4` is zero, the pools are empty and `send_xpmem` spins for ever. A payload
  that is no cut-off point of the pool makes `lput`, and so
  `populate_buffers_`, fail for ever.
* `send_msg` of the xpmem program ignores a full queue; its protocol never has
  more than one message in flight. With a single message (`kNumMsgs` = 1)
  process 0 polls for an answer that process 1 does not send.
* Two broadcasts out of order can stop a PE of charmlite for good, and with it
  whatever is sent to the PE. One way is that of the run `collective_flush`. The
  other is a flush that pops a broadcast which is not yet the next: `handle_`
  puts it back behind the others, and when there is nothing else the loop has no
  end. That happens when an element is constructed after the second broadcast
  has come and before the first. `CaughtInFlush` covers both.
* In `warp` the first probe that is not ready hides the others: an entry
  without a size hangs on one rank, where the probe of task 0 is in front of
  that of task 1. `MPI_Finalize` is called with the last message unreceived
  and its send request not completed.

## Not modelled

* Registration, traits and message layout of charmlite, serialisation helpers of
  hypercomm, typed values of comex: data conversion and tables without state
  that changes.
* `archive/include/xpmem.hh`: attaching of segments through a kernel module,
  sequential within a process; that a translated address is the peer's memory is
  assumed.
* The memory handling of `converse_combiner_`: the reduction tree it runs in is
  part of Converse.
* Several collectives in one charmlite program, node groups and topology-aware
  trees; the only interaction of collectives is the id (see above).
* Rust bindings (declarations and one echo), `ergoleanmd` (a skeleton in another
  language), the memcpy timing utility (sequential), the charmlite `basic`
  example (its calls are `Collective`'s actions).

## Plan

Order of work, the most important behaviour first:

1. done: the shared-memory queue, its programs, its proofs; collectives and
   ordered broadcast; blocks and the two programs on them; workgroups;
   completion detection; components and the exchanger; warp.
2. next, if more is modelled: collective ids, `converse_combiner_`.
3. done: the proofs of the safety properties: the programs on the queue,
   collectives, completion detection, the programs on blocks, workgroups,
   components and the exchanger, warp.
