# Coin Platform 2: specifications, checks and proofs

TLA+ models of the program under `src/`, the TLC configurations that check them
on small instances, and theorems that TLAPS proves for every value of the
constants. Paths below are relative to the repository, whose own source
directory is `src/src/`.

    tlc -workers 2 -config fs_single.cfg MCFileStorage    # one run
    tlapm SharedTimeChain_proofs.tla                      # one module of proofs

`PROJECT.json` names, for every definition, the lines of code it models, the
runs with their properties, and for every property a plausible slip in the code
under which the run finds it violated (an operator above the one it stands in
for, with the comment "A slip the checks must notice").

## 1. The system

A node is one process. It has a *role*: `time`, `value` or `dual`.

| Part | Source | State | Operations | Threads |
|---|---|---|---|---|
| Storage | `storage/file_storage.tpp` | a directory: one file for each block, and `latest.block` | `initialize`, `store_block`, `get_block`, `get_latest_block`, `block_exists` | every caller, under `storage_mutex_` |
| Time chain consensus | `consensus/time_chain_consensus.cpp` | a key pair; the storage | `initialize`, `produce_block`, `handle_block` | producer and network thread |
| Time chain | `time_chain/` | none: forwards to the storage | `get_latest_block`, `get_latest_block_hash`, `block_exists` | the two threads of the value chain |
| Value chain consensus | `consensus/value_chain_consensus.cpp` | `transaction_pool_`; the storage | `initialize`, `produce_block`, `handle_block`, `add_transaction`, `gather_transactions` | producer and network thread |
| Blocks and transactions | `time_block.cpp`, `value_block.cpp`, `transaction.cpp` | their fields | `serialize`, `deserialize` | any |
| Network manager | `networking/network_manager.cpp` | acceptor, `peers_`, `receive_callback_`; for each session a socket and `write_queue` | `start`, `stop`, `connect_to_peer`, `broadcast_data`, `set_receive_callback`; completion handlers | main, producers, io thread |
| Node | `node/node.cpp` | consensus objects, `known_peers_`, `incoming_buffers_` | `start`, `stop`, the two producer loops, `handle_incoming_data` and three handlers | main, producers, io thread |
| Signing | `cryptography/`, `get_data_to_sign`, `compute_hash`, `verify` | none | `sign_message`, `verify_signature`, `sha256` | any |
| Main | `main.cpp` | `running` | start, signal handler, stop | main |
| Genesis generator | `tools/genesis_generator/` | none | makes the two genesis blocks of `common/genesis_blocks.hpp` | |
| Configuration, logging, key generator, tests | `config/`, `common/utilities.cpp`, `tools/keygen/`, `tests/` | | | |

How they interact:

- The two **producer loops** call `produce_block`, which reads and writes the
  storage, and give the result to `broadcast_data`.
- The **io thread** runs all completion handlers: it accepts, reads, calls
  `handle_incoming_data` and through it the handlers, `handle_block` and
  `add_transaction`. So a node's consensus objects are used by two threads.
- They share the **storage**, whose mutex covers one operation and no more, the
  **transaction pool** with a mutex of its own, and **`peers_`** with another.
  `write_queue`, `receive_callback_` and the order of two storage operations are
  protected by nothing.
- The value chain reads the **time chain** while the other loop moves it.
- Data directories are relative paths: two nodes started in one directory, as
  in the example of the repository's README, share their files.

What is hard here, and what makes each part correct:

| Part | Hard | Correct when |
|---|---|---|
| Storage | errors and the end of the process between four touches of the disk; two processes | a store happens as one step or is cut short in a way its caller is told of; `latest.block` names a block that is there |
| Time chain consensus | the other thread between read and store; restarts with new keys; a clock that starts again | own blocks hang on blocks that are there and grow in time; receiving never goes back |
| Value chain consensus | the pool is cleared before the block is stored; a purge meets a gathered transaction; time and reference are two reads | no transaction is lost, none is spent more often than it came; own blocks pass the node's own check |
| Several time nodes in one directory | every interleaving of their starts, stores and reads | a block refers to one that is there; the genesis block is not put over a chain that has grown |
| Formats | cut-off files, tails of other contents, prefixes | what is read is what was written, or nothing |
| Signing | the hash is of the signature too; concatenations without a mark of their kind | what was made verifies wherever it comes back from, and a signature is of one object |
| Network manager | handlers before the callback; two sessions for one address; breaks | who is connected is heard and is written to |
| Sessions | a queue used by two threads; a socket that breaks or is closed | messages are sent once, in order |
| Framing | any cut of the stream; byte orders; several connections of one address; connections that end inside a message; 32 bits | every message is processed, unchanged, in order |
| Life of a node | handlers that run before `start()` is through; three joins one after the other | nothing is used before it is there or after it is gone, and a stop ends |
| Messages | roles; payloads of three kinds | what is broadcast reaches the consensus of the receiver |

The hazards are listed with their lines in `PROJECT.json`.

## 2. The modules

| Module | Models | Composed of |
|---|---|---|
| `BlockStore` | what a storage promises: blocks that are present, blocks that are readable, the latest one, and three outcomes of a store | |
| `FileStorage` | every step of `write_block_to_file` for several processes in one directory | implements `BlockStore` |
| `SharedTimeChain` | time nodes that start and produce in one directory | `FileStorage`, step by step |
| `TimeChainConsensus` | one time node: producer thread, network thread, starts, crashes, reboots | `BlockStore` |
| `ValueChainConsensus` | one dual node's value chain: producer, network thread, a time chain that moves, a crash | `BlockStore` |
| `BlockFormats` | `serialize` and `deserialize` of transactions and blocks, as operators on sequences of words | |
| `Signing` | what is signed and hashed, how transactions, blocks and genesis blocks are made, and what a receiver verifies | `BlockFormats` |
| `BlockFile` | the content of one file: full, cut off, or with the tail of another content | `Signing` |
| `MessageQueue` | what a session promises: a queue in front of a connection | |
| `PeerSession` | the write queue of one session and its two users | implements `MessageQueue` while the two do not meet |
| `MessageFraming` | header, pieces and buffer between the connections of one address and a receiver | |
| `NetworkManager` | connections, sessions, `peers_` and the callback of several nodes | |
| `NodeLifecycle` | `main()`, `Node::start`, `Node::stop`, all threads of several nodes | `NetworkManager`, which it implements |
| `NodeMessages` | broadcasts and handlers of nodes of all roles | `BlockFormats` |
| `Induction` | induction and recursion over the natural numbers, with sets in the place of predicates | |
| `SharedTimeChain_proofs` | theorems | `FileStorage`, `SharedTimeChain` |
| `BlockFormats_proofs` | theorems | `BlockFormats`, `BlockFile`, `NodeMessages`, `Induction` |
| `NodeLifecycle_proofs` | theorems | `NetworkManager`, `NodeLifecycle` |
| `TimeChainConsensus_proofs`, `ValueChainConsensus_proofs`, `PeerSession_proofs`, `MessageFraming_proofs` | theorems | the module named |
| `MC*` | instances for TLC | the module named |

State and actions keep the names of the code. Some choices that are not obvious:

**FileStorage.** `storage_mutex_` makes the operations of one process exclude
each other, so a store is a sequence of steps of that process and a query is an
operator evaluated when the process is idle. Opening for writing empties the
file, also one that held this very block; `close()` is not checked, so buffered
data may be lost and the copy goes ahead (`FlushLost`); `copy_file` empties
`latest.block` before it fills it. `snap` remembers the files as they were when
the mutex was taken: that is what the refinement mapping shows during a store,
because nobody in this process can look. A crash ends the process between two
steps; a loss of power, which could undo writes that succeeded, is not modelled.

**SharedTimeChain.** Every process has a mutex and a key of its own; the files
are the same. `task` is what a process is about between its storage operations,
and a step that touches the disk is the one of `FileStorage`. Two facts shape
the properties, both seen in traces. A process that reads `latest.block` while
another one stores may find it torn; and one that starts before another has
stored the genesis block stores it too, later, over whatever the other has
made by then. Neither needs a fault: `copy_file` of the second process meets a
file the first has just emptied. `blind` remembers that somebody read at such a
moment. Links to predecessors that have a file hold in any case.

**TimeChainConsensus, ValueChainConsensus.** A thread's step is one storage
operation, one use of the pool, or one reading of the clock. `store_block` is a
step of `BlockStore` with its three outcomes, which the refinement justifies; a
crash may cut it short. A block's hash is abstracted to something that
identifies it: `<<key, time>>` for time blocks, a number for the node's value
blocks. The draws are free choices. Signatures are sets of blocks that do not
verify. The hash field of a received block is taken as it is, as the code does.
The coinbase transaction is left out here (`Signing` has it). Each start draws a
new key pair, so a restarted program is another key with the same files.

**BlockFormats, Signing, BlockFile.** A word is eight bytes, the smallest field.
Real proportions of the fields (4, 4 and 8 words) matter, because a key has the
size of a hash: a prefix of one key shifts a block by exactly one hash. The
functions of OpenSSL and secp256k1 are parameters: a hash of words, a public key
for each private key, and a signature that is a function of digest and key,
because the code passes no randomness. TLC evaluates small functions in their
place; the theorems hold for any. The blocks of `bf_files` are made by the
operators of `Signing`, as `produce_block`, `gather_transactions`,
`generate_and_broadcast_transaction` and the genesis generator make them.

**NetworkManager.** A connection is the pair of its ends, because a node dials
a known peer at most once with success. Known peers are given by IP address, as
`main.cpp` does. A program that is started again is another node. An exception
out of a completion handler ends the process (`HandlerDies`).

**NodeLifecycle.** The main thread goes through stages, one for each point at
which another thread could tell the difference: `running_` is set before the io
thread starts and after the first `async_accept`; the callback and the dials
follow; then `Node::running_` and the loops. A signal before the handler is
installed, or one without a handler, ends the process at once. `stop()` clears
the flag, joins the loops in order, stops the manager and joins the io thread.
Only the io thread's and the loops' ends are steps here; what they do in between
is in `NetworkManager` and in the consensus modules.

**PeerSession.** Each use of `write_queue` is atomic. The data race allows worse;
what the runs show holds under the kindest reading. A session whose socket was
closed stays in `peers_` and its queue keeps what is added (`MessageQueue`,
`Disconnect`): that is what the code does, and the refinement says it.

**MessageFraming.** Bytes are digits of a small base and headers have fewer of
them; wrap-around is kept at `Base ^ HeaderSize`. One buffer serves all
connections of an address, in turn or at once, and nothing clears it when a
connection ends; `mixed` remembers that a piece was put behind the rest of
another connection. Reading past the end of the buffer sets `broken`, which ends
the behaviour.

**NodeMessages.** Messages arrive complete and in order, which is what
`MessageFraming` shows for a big-endian host and one connection; on a
little-endian host nothing arrives at all (`mf_littleendian`).

## 3. The runs

Passing runs:

| Run | Asks | Instance and bounds | Distinct states |
|---|---|---|---|
| `fs_single` | Is a store one step of `BlockStore`, with an error or crash at every point? | 1 process, 3 blocks, 2 faults: a fault in a store over the consequences of another | 5,697 |
| `tc_shared` | What survives two processes in a directory, and what do their blocks refer to? | 2 processes that start, crash and start again; 2 blocks of one, 1 of the other, so that one gets between two; 1 fault | 2,639,606 |
| `bf_files` | Is a file ever read as something nobody stored, does what is read verify, and is a signature of one object? | 4 time blocks, and 4 value blocks of different lengths, genesis and zero references included; cut at every word; overlaid by each other | 1,100 |
| `tc_node` | Are own blocks linked and in time, receipts later, own blocks extending? | 2 starts, clock 0..2, 3 blocks of peers, one fault; a reboot | 2,870,282 |
| `vc_node` | Pool, copies, time and reference; is a pooled transaction included in the end? | 1 own and 1 foreign transaction, the latter delivered twice; 2 peer blocks; a time chain that changes twice and may move back; one fault or crash | 275,447 |
| `ps_session` | Is a session a queue as long as caller and handler do not meet? | 6 messages, any breaks | 1,122 |
| `mf_bigendian` | Does framing deliver, and when is more read than there is? | 2 connections of one address, one that ends anywhere; 2 messages out of three lengths, the longest of which wraps; pieces of 1 to 3 bytes | 241,232 |
| `node_life` | Do two nodes that know each other meet and hear each other, and does each start and stop in order? | a dual and a time node, 2 attempts, 1 failure; a signal or the end of the process at any point | 65,385 |
| `msg_roles` | Do transactions arrive between blocks, and does a dual node survive the others? | a node of each role, 2 broadcasts each | 30,940 |

The bounds are enough because the properties speak of at most two blocks, two
transactions, two connections or two nodes at a time; a third start, block or
node is there where something else must get in between. `CHECK_DEADLOCK FALSE`
is used where the system or its bounded instance may stop: nodes that have
ended, a clock at its bound, all messages sent. Two attempts stand for the five
of the code: the retry loop is the same, and what counts is that failures can
and cannot use them up. A word of 9 stands for 2^32: there is a message whose
length fits and whose length and header together do not.

Runs that find a violation of a statement in the repository (the lines are
quoted under `findings` in `PROJECT.json`):

| Run | Statement | What happens |
|---|---|---|
| `ps_wakeup` | the manager handles data transmission | `do_write` and the completion handler each rely on the other to go on writing |
| `mf_littleendian` | "Convert from big-endian to host byte order" | converted twice |
| `msg_blocks` | "Deserialize TimeBlock", "Handle block" | the sender's key is still in front, and the block is refused |

### Further configurations

These are not part of the standing runs. Each shows in seconds, on the same
modules, how far one of the properties above may not be strengthened: the
property it checks is stated in the module with the words of the repository, and
it does not hold.

| Configuration | Module | Property | What happens |
|---|---|---|---|
| `fs_shared_readers` | `MCFileStorage` | `ReadersFindLatest` | another process is just overwriting `latest.block` (`file_storage.tpp:137`) |
| `tc_fallback` | `MCTimeChainConsensus` | `PredecessorFound` | after a store that lost its data, or failed in the copy, `produce_block` links to the zero hash |
| `tc_epoch` | `MCTimeChainConsensus` | `OwnTimesAreEpochTimes` | `steady_clock` counts from boot (`utilities.cpp:42`) |
| `tc_race` | `MCTimeChainConsensus` | `LatestTimeNeverFalls` | a block produced before a later one was received is stored after it |
| `vc_time` | `MCValueChainConsensus` | `TimeMatchesReference` | the chain moves between the two reads |
| `vc_once` | `MCValueChainConsensus` | `IncludedOnce` | a received block is purged from the pool while the producer holds its transaction |
| `mf_sameaddress` | `MCMessageFraming` | `CompleteMessages` | two connections, one buffer |
| `nm_onehost` | `MCNetworkManager` | `BroadcastReachesPeers` | one place in `peers_` for each address |
| `nm_retry` | `MCNetworkManager` | `KnownPeersConnected` | the connect is asynchronous and the answer always true, so nothing is retried |
| `nm_deaf` | `MCNetworkManager` | `BroadcastIsHeard` | a session accepted before the callback is set keeps an empty one |
| `msg_authentic` | `MCNodeMessages` | `BlocksAreAuthentic` | shifted by a key, a value block with a zero reference parses as another |
| `msg_time` | `MCNodeMessages` | `NodesSurvive` | the consensus of the other chain is a null pointer for this role |

A value node also has no time chain, and `ValueChainConsensus` reads it without
a test as soon as a draw succeeds (`NodeMessages`, `DrawWithoutTimeChain`); so
`msg_roles` speaks of the dual node only.

Two more pass: `nm_nodes` checks three nodes (256,447 states), `mf_long` four
messages on one connection, with the type invariant of `MessageFraming`.

### Fairness

- `ValueChainConsensus`: the producer's loop sleeps for a bounded time and holds
  mutexes for one operation (weak fairness); a draw succeeds with a probability
  of at least 1/100 independently of the others, so infinitely many draws are
  not all lost (strong fairness of the successful draw); a handler that began
  goes on. Nothing is assumed of peers.
- `PeerSession`: a call returns and completion handlers run. `MessageFraming`:
  TCP delivers on each connection, the io thread goes on.
- `NetworkManager`, `NodeLifecycle`: the main thread of a node that was started
  goes on, also while it stops; its io thread runs until it is told to stop; a
  loop looks at `running_` again after its sleep; TCP answers a dial. Nobody has
  to start a node or to send it a signal.

## 4. The proofs

TLAPS checks these from the assumptions named in the modules, for every value of
the constants and every bound.

**`SharedTimeChain_proofs`.** Of `FileStorage`: `Typing`. `LatestHasFile` and
`ReadableAtRest` hold for any number of processes: neither is inductive by itself,
and the invariant adds that a block being copied or acknowledged has a file, that
`latest.block` exists once somebody opened it, and that without faults an
unreadable file has a writer and an unreadable `latest.block` a process that will
fill it. `Refinement`: with one process every step maps to a step of `BlockStore`
or to a stutter; the argument follows the store from its start (`snap`) to its end.

Of `SharedTimeChain`: `SharedRefinement`: whatever the processes do, their
storages go through steps of `FileStorage`, so `LatestHasFile` and
`ReadableAtRest` carry over (`SharedLatest`, `SharedReadable`).
`PredecessorFiles`: what a process carries between read and store has a file,
since files only come. `Predecessors` and `GenesisFirst` rest on three facts about
runs without faults: a store is under way only for a process whose task it is
(`Purpose`); whoever is through with `initialize` has somebody's acknowledged
block before it (`Founded`); and if nobody read while another stored, what was
read is a block, and a process that is to store the genesis block is the only one
that has started (`Sighted`).

**`Induction`.** The theorems of the library on induction take an operator, which
the provers here cannot instantiate. `Induction` states the principle for a set
instead: that the relation `<` on the naturals is well-founded gives a least
element, that gives induction over a set of numbers, and that gives a function
defined by recursion (`Recursion`). So facts about the recursive functions of the
model and about folds of the community modules are proved for every input, as
long as they recur over numbers or over the size of a set.

**`BlockFormats_proofs`.** Contents are pieces one after the other (`FivePieces`),
and a parser looks at the same places (`FieldIs`). `TransactionRoundTrip` and
`CutTransactionRefused` hold for data of any length. `ValueBlockRoundTrip`: by
induction over the number of transactions, the parser stands after each one at
the offset where the next begins, so it finds in its loop what `serialize` put
there. The same induction shows that a value block that was cut off is refused,
wherever that was.

- Files (`FileSpec`), blocks of both kinds: `FileInv` says that a file has the
  words of the block that was written last as far as it goes, that it is cut off
  exactly if it is shorter, and that only a value block can have the tail of
  another behind it. `FilesReadLastWritten` and `FilesReadFullContent` follow from
  what `deserialize` does with such contents. `FilesReadBlocksVerify` adds, for
  blocks the program made (`AllProduced`, a hypothesis of the theorem: made by the
  generator or by `produce_block` from a pool whose transactions verify), that
  what is read verifies and has its hash, for any hash function and any keys.
- `SignaturesNameObjects`: the bytes that are signed decide the object, because
  `serialize` is those bytes with signature and hash behind them and is inverse to
  `deserialize`, and because of two different kinds they differ in length or in
  the word that is the length of the data in one and the number of transactions in
  the other. That needs `HashSize = KeySize`, which `types.hpp` says of both
  (32 bytes; a hypothesis of the theorem), and `AllMadeByNodes`: key holders sign
  with the key they name. The hypotheses hold of the blocks of `bf_files`.
- Messages (`Spec` of `NodeMessages`): `TransactionsArriveInOrder` from
  `MessageInv`, which says for each pair of nodes what part of the sender's
  broadcasts has been handled, what part is on the wire, and that the transactions
  among the handled part are what was handed over. What a sender serialized its
  receiver reads back field by field (`TransactionRoundTrip`). `DualNodesNeverEnd`.

**`TimeChainConsensus_proofs`.** A lemma says all that is needed of a store
(`StoreEffect`), so no later proof splits over its outcomes.
- `Linking`: what the producer carries between read and store stays the hash of
  a block that is present, since storages only grow; without faults there always
  is a latest block.
- `Timeline`: the invariant relates the clock to the stored blocks of the
  running key at each point of the loop (before the clock while it draws, before
  its block while it stores, not after its sleep while it sleeps). A new start
  has a new key, which is why a clock that starts again does no harm.
- `Receipts`: between verification and store of a received block only the
  producer can change the latest block, and then it is the node's own.
- `Extensions`: between read and store of a produced block only a receipt can
  change the latest block, unless a store goes wrong.

**`ValueChainConsensus_proofs`.** `Typing`. `NothingLost`: a transaction that
entered is in the pool, in the producer's hands or in a block, and each step
that takes it from one place puts it in another, as long as stores succeed.
`TimeThenReference`: the log of what the time chain's latest block was only
grows, so the entry the producer read its time from stays there and comes no
later than the one it reads its reference from. `CopiesNeverExceed`: the copies in
the node's blocks, the pool and the hands are no more than arrived. The copies in
blocks are a fold over a set in an order of `CHOOSE`; by induction over the size of
the set it is the same in any order (`SumAnyOrder`) and within a larger set
(`SumsAgree`), so one block more adds its own copies (`CopiesAdd`), and those are
what leaves the producer's hands in that step (`CopiesMove`). `OwnBlocksPass`: so, while the
chain moves forward, the tests of `handle_block` on time and reference hold of
every own block at any later time.

**`PeerSession_proofs`.** `Typing`; `StartsInOrder`, which holds even when caller
and handler meet; `Fifo` and `Refinement` as long as they do not: the writes that
are done, the one under way and those in the queue are together the messages of
the calls in order, so each step is one of `MessageQueue` or none.

**`MessageFraming_proofs`.** `TypeCorrect`. `FramingInOrder`, for hosts that keep
the order of bytes (`~LittleEndian`, a hypothesis of the theorem; what happens on
the others is the finding of `mf_littleendian`): for any base, size of a header,
messages, cuts and number of connections. `Number` of the bytes of a header is the
length it was made of, by induction over the digits. The stream of a connection is
the headers and messages of what was sent; the invariant says that what was
processed, and then the buffer (if the last piece was of this connection), the wire
and what a closed connection lost, are that stream cut at a boundary between
messages. `OverrunOnlyByHugeMessage`: the same invariant shows that a header in
front of the buffer is one that was sent, so the sum in the loop's test wraps only
for a message as long as the property says.

**`NodeLifecycle_proofs`.** Of `NetworkManager`: `Typing`; `DialledHear`, since
nothing is dialled before the callback is set; `BroadcastsReach` for nodes with an
address each (`OneAddressEach`, a hypothesis of the theorem): whatever `peers_`
holds for an address is a connection with the node there, and a place is only
given away to another connection with the same node.

Of `NodeLifecycle`: `Refinement`: the processes with all their threads implement
`NetworkManager`, so its theorems hold of them (`LifeDialledHear`,
`LifeBroadcastsReach`). `LifeTyping`; and `AcceptsGoOn`, `ComponentsAreThere` and
`StopsInOrder` from one invariant that says, for each stage of the main thread,
which flags, threads and objects there are.

Every invariant and every action property of the passing runs is so stated by a
theorem. Only model-checked are the liveness properties (`EventuallyIncluded`,
`SentWithoutOverlap`, `EveryMessageProcessed`, `MutualPeersMeet`, `QuitEnds`), for
TLAPS does not treat fairness, and the properties that do not hold, of which TLC
has counterexamples.

## 5. Not modelled

- Parsing of two options into two fields (`config/`), once, before anything runs.
- Logging and hexadecimal conversion: no state depends on them.
- The insides of SHA-256, Schnorr signatures and the drawing of keys (library
  calls, parameters of `Signing`); `double_sha256` and
  `public_key_to_address`, which tests and tools alone call.
- The text a generator prints: keys in `tools/keygen`, the header file in
  `tools/genesis_generator`. What is in the genesis blocks is modelled.
- `ValueChain`, which forwards to the storage and which nobody calls;
  `send_data`, which nobody calls and which is `do_write` of one session.
- Loss of power, which could undo writes that succeeded; memory: a queue or a
  pool that grows without bound is a sequence without bound.
- The unit tests, which are of the cryptography.

Balances of accounts, of which the repository's README speaks, have no code.

## 6. Plan

Done: storage with its abstraction, for one and for several processes; both
consensus modules; formats, signing and files; sessions with their abstraction;
framing; connections and whole processes; messages; the theorems above.

What could follow:

1. An abstract channel, with the connections of one address and the buffer left
   out, that `MessageFraming` implements on a big-endian host; `FramingInOrder`
   has the invariant the mapping needs.
2. What does hold where a statement of the repository does not: on a
   little-endian host a message is processed as it was sent only if its length
   reads the same in both byte orders; which broadcast blocks reach `handle_block`.
3. A composition of two dual nodes on `TimeChainConsensus` and `NodeMessages`,
   to ask what two nodes agree on. It needs blocks that arrive, which they do
   not today (`msg_blocks`), so it is of use once that is settled.
