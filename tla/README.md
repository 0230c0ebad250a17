# A model of the BTP 2.0 relay

The relay moves BTP messages from a source chain to a destination chain. For
each direction it runs a *link* (`common/link`) between a *receiver*, which
follows the source chain, and a *sender*, which submits relay messages to the
BMC contract of the destination chain.

```
 source chain --> receiver --receive statuses--> link --relay messages--> sender --> BMC
                     ^                            | ^                        |
                     +---- finalized positions ---+ +------- results --------+
```

## The parts

| part | code | modules |
|---|---|---|
| link engine | `common/link` | `Link`, `Lists`, `LinkInvariant`, `LinkTurnsInv`, `Delivery`; `EventRelay` |
| btp2 receiver | `chain/icon/btp2` | `BTP2Receiver` |
| bridge receiver | `chain/icon/bridge` | `Bridge`, `EventProofs`, `EventRelay` |
| ethbr receiver | `chain/ethbr/receiver.go` | `EthBridge`, `EventProofs`, `EventRelay` |
| senders | `chain/icon/sender.go`, `chain/ethbr/sender.go` | `Sender`; in detail `IconSubmit`, `EthSubmit` |
| clients | `chain/icon/client`, `chain/ethbr/client`, `common/jsonrpc` | `IconMonitor`, `EthMonitor`, `IconClient`, `Serialize` |
| relay | `common/relay`, `common/link/factory.go`, the modules' factories | `RelayStart` |
| errors | `common/errors` | `ErrorChain` |
| databases | `common/db` | `LayerDB`, `LayeredMap` |
| trees | `common/mbt`, `common/mta` | `MerkleBinaryTree`, `Accumulator` |
| codec, integers | `common/codec`, `common/intconv`, `common/hex*.go` | `RLP`, `RLPItems`, `Codec`, `CodecStream`, `IntConv` |
| source network, destination BMC/BMV | outside the repository | `SourceChain`, `BMC` |

`PROJECT.json` lists every part with what is left out of it, and in its map the
lines each definition stands for.

What makes this code hard:

* **Goroutines without a common lock.** The link has two goroutines, the
  receiver two, the sender one per transaction. `rmsMtx` covers
  `handleRelayMessage` only; `l.rss`, `l.bls`, `l.relayState`, parts of the
  accesses to `l.rms`, `b.rss` and the sender's queue are shared without a lock.
* **Results out of order.** Several messages are under way; each has its own
  goroutine waiting for its result; the chain may execute them in another order,
  another relay may deliver the same blocks, a transaction may be lost.
* **PENDING.** The link stops sending when the queue is full and after its very
  first message, and goes on only when a result arrives for a message it holds.
* **Restarts.** The database survives; transactions of the old process are
  executed after the new one has started.
* **Identity of messages.** A message is known by the position the link had when
  it was appended, which the other goroutine may have replaced.
* **Monitors that restart themselves**, while blocks arrive, from positions that
  other goroutines move.

## The modules

### The link with the btp2 receiver

* `SourceChain`: the source network as constants: which main heights carry a BTP
  block and how many messages have been sent up to each.
* `BTP2Receiver`: variables `brss`, `bseq`, `db`, `lastHeight` are the fields of
  `btp2` and its database; `cursor` is the height of the last notification; `rsc`
  and `blsc` are the channels the goroutines are blocked on; `slices` holds what a
  goroutine has read from `b.rss` and is about to store (`append` and re-slicing
  are a read and a write). Blocks are heights, a proof is a range of places in a
  block, sizes are counted in `BlockUpdateSize` and `MessageSize`. The database
  compares keys the way LevelDB compares the byte strings the code makes.
* `Sender`: `queue` and the transactions `txs` that are pooled, done, or about to
  give their result. Both senders are this machine to the link.
* `BMC`: what the relay assumes of the destination: messages are taken whole and
  in order, and answered by the codes of `common/errors/btp_error.go`. `Faults`
  says what else may happen: transactions lost (`lose`), reordered (`reorder`) or
  reverted (`revert`), another relay (`other`), sending fails (`sendfail`).
* `Link`: the engine and the composition. `pc[p]` and `loc[p]` are the place and
  the local variables of goroutine `p`: `"recv"` for `startReceiverChannel`,
  `"send"` for `startSenderChannel`. One action per stretch of code between two
  places where the goroutine waits or where it is between reading and writing a
  shared field:

  | actions | code |
  |---|---|
  | `ReceiveFromReceiver`, `AppendReceiveStatus`, `OnceDo`, `CheckBehind` | `startReceiverChannel`, `handleUndeliveredRelayMessage` |
  | `Lock`, `SendRelayMessage`, `Suspend`, `SetPending`, `SendDone`, `Loop` | `handleRelayMessage`, `sendRelayMessage` |
  | `NextReceiveStatus`, `BuildBlockUpdate`, `UpdateBMCLinkStatus` | `buildRelayMessage`, `buildBlockUpdates` |
  | `BuildProof`, `BuildProofNil`, `AddProof`, `AppendRelayMessage` | `buildProof`, `appendRelayMessage` |
  | `IgnoreResult`, `ResultSuccess`, `SuccessRelayMessage`, `ReportFinalized`, `ResultRejected`, `UpdateStatus` | `result`, `successRelayMessage`, `updateBMCLinkStatus` |
  | `Stop`, `Panic` | errors sent to `errCh`; panics |
  | `Crash`, `Cleanup`, `Restart` | the process is killed, and started again |

* `Lists`: the loops over slices. `LinkInvariant`: the inductive invariants behind what
  holds under preemption, and what the proofs without it assume. `LinkTurnsInv`: the
  invariants of goroutines that take turns, and of a relay that is left alone.

`Preemptive` chooses how goroutines interleave. When it is FALSE they switch only
where one of them waits for a channel, the mutex or a call that leaves the
process: the schedules of a process whose stretches of code do not overlap in time.
When it is TRUE they switch anywhere, and a write to the queue may be lost: the
outcomes of the data races. (A torn slice header is not modelled.)

`Delivery` is what all of this promises: how far the BMC, the monitor and the
database are, and nothing of how messages and results travel. Blocks are taken one
after the other (`Take`), the monitor stores what it passes (`Read`), a running process
gives up only what the BMC has (`Release`), a new one may start anywhere (`Start`).

### The receivers that prove by events

* `EventProofs`: how `BuildMessageProof` of both receivers selects receipts and
  events from the list of statuses.
* `EventRelay`: the link, the sender and the BMC for them. The interleavings inside
  the link are `Link`'s subject; here its calls exclude each other, and monitors,
  restarts, results and other relays move between their steps. `lk` is the link.
* `EthBridge`: the event loop of `chain/ethbr` with events for several destinations,
  `LastReceiveHeight`, errors of the monitor, restarts, another relay.
* `Bridge`: the callback of `chain/icon/bridge` with its filter, the reconnect, restarts.

### Senders, clients, process

* `IconSubmit`: one message as fragments, each signed and sent again until accepted,
  and the polling goroutine of `GetResult`. `IconClient` says which answer of a node
  becomes which error. `EthSubmit`: nonces, polling, and `GetRevertMessage`, which
  executes a failed transaction again on the latest state.
* `IconMonitor`: the web socket connections and the stack of monitors that the
  bridge's error callback builds. `EthMonitor`: catching up and following heads by
  polling or subscription.
* `RelayStart`: `NewRelay`, factories, key stores, database directories, `Start` and
  the error channel. `ErrorChain`: layers, codes and causes of errors.

### Data

* `LayerDB`: the layer with its buckets, its two kinds of locks and the steps of
  `Flush`, over LevelDB, with failing writes and crashes. `LayeredMap` is what it
  promises.
* `MerkleBinaryTree`, `Accumulator`: the algorithms over terms for hashes; the
  accumulator with its bucket, `Flush` write by write, and `Recover`.
* `IntConv`, `RLP`, `Codec`: conversions as functions with their errors; `CodecStream`:
  encoders and decoders of nested lists as objects that callers use in any order;
  `RLPItems`: the reference. `Serialize`: the bytes of a transaction that are signed.

Definitions marked *Mutant* are not part of the model: each is a wrong variant of
the definition that follows it, and breaks one of the properties.

## The runs

Deadlock is not checked: a relay that has delivered all blocks waits, and one that
has ended does nothing. A run over several components has a variable (`receiver`,
`part`, `kind`, `chain`) that the initial state sets and no step changes; it says
which of them runs, the others stay in their initial state. So such a run is the
union of one run per component, and a property speaks of the component that runs.

| run | module | what runs, with which surroundings | distinct states |
|---|---|---|---|
| `link_clean` | `MCLink` | the link with btp2, no faults | 17,834 |
| `link_order` | `MCLink` | reordered transactions, another relay | 226,158 |
| `link_races` | `MCLink` | preemption anywhere, all faults, two crashes | 310,413 |
| `link_restart` | `MCLink` | two crashes, a size limit below a block's messages | 118,577 |
| `events` | `MCEvents` | ethbr or bridge with link, sender and BMC; four resp. two surroundings | 215,431 |
| `storage` | `MCStorage` | the layer over a database, the message tree, the accumulator | 92,895 |
| `encodings` | `MCEncodings` | numbers, byte strings, structs, streams, transactions | 96,992 |
| `senders` | `MCSenders` | the ICON or the ethbr sender, four sets of faults each | 211,671 |
| `process` | `MCProcess` | start and end of the relay, ICON monitors, Ethereum monitor, errors | 118,918 |

**`link_clean`.** `AllDelivered`: every block reaches the BMC. `NothingFails`: no
message is refused (`NothingRejected`) and the process does not end by itself
(`NoEnd`). `RestartCovers`: whenever it is killed, the next process resumes early enough
to be told of every block that the BMC has not taken, with one exception. If the process
is killed after a delivery and before `FinalizedStatus`, the first stored block is the
BMC's, and the next process resumes at `LastReceiveHeight`, above blocks that are stored
and not delivered (`btp2.go:414`). `RestartCovers` says that this is the only such case, and
that the start after that one is early enough. `PendingHasWakeup`: there is always a result that ends PENDING.

**`link_order`.** Rejections are survived: the link takes over the BMC's position and
goes on. `StatusesKept`: nothing undelivered is forgotten. `NoSpin`: `buildProof` never
looks for a proof that does not come. `DeliveredWhole`: no block is taken without its
messages. `AllDelivered` does not hold here: after `BMVAlreadyVerified` the link drops
its messages and waits for the next status, so the last blocks may stay behind until a
new one appears. `PendingHasWakeup` is not claimed either. With lost transactions an error
without a code produces no result. With another relay, or with reordering, a source of
five blocks is enough: the goroutine of `UpdateStatus` empties `l.rms` while the other
one is in `sendRelayMessage` with messages left; these fill the queue, the link goes to
PENDING, and their results match nothing that it holds.

**`link_races`.** `FinalizedIsDelivered`; `IInv`, the inductive invariants behind the
proofs; and `RefinesDelivery`: the link with its receiver and sender implements
`Delivery`. Only these are claimed under preemption. The race between `UpdateStatus`
and the other goroutine's building makes `NoSpin`, `NoEnd`, `MessagesChained`,
`DeliveredWhole` and `PendingHasWakeup` fail; that nothing undelivered is deleted
survives all of it.

**`link_restart`.** `BlocksRetained`: no undelivered block is deleted. `MessagesChained`:
the messages built ahead carry consecutive blocks. `SizeBounded`: a relay message
exceeds the limit by at most one message. `PendingEnds`: PENDING is left although
transactions of the killed process get in the way. `TypeOK`. With crashes `NoEnd`,
`StatusesKept` and `RestartCovers` do not hold in general (see the hazards).

**`events`.** Undisturbed both receivers deliver everything (`AllDelivered`; the bridge
only if every block has one message). `ProofsWhole`: a proof of ethbr has exactly the
events it should, if the source's BMC sends to this destination only. `EventsKept`: what
the BMC does not have is still in the receiver's list, although `FinalizedStatus`
truncates it and the bridge filters with the link's position, which runs ahead of the
BMC. The other two say what may go wrong, and that nothing else does:

* `FailureExplained`. Bridge: a block without messages panics (`Events[-1]`); of
  several messages only the last one's event is sent, which is refused for ever; a
  reconnect notifies the last block again, and the empty message built for it ends the
  process. Ethbr: an error of the monitor ends it; events of other destinations set
  `startSeq`, `lastSeq` and `e.seq`, so that proofs are looked for in vain.
* `SkipExplained`. Ethbr: a restart at a stored `LastReceiveHeight` above an undelivered
  event skips it, now and at every later restart; so does polling when a request fails.

**`storage`.** `RefinesMap`: `LayerDB` implements `LayeredMap`: while buckets are flushed
one after the other, writes go on, writes fail and the process ends, nobody sees
anything but one map. `FlushInv` is its inductive invariant. `ProofsLeadToRoot`: for up
to 17 messages the root is that of the definition by halves, and proofs of all ranges
and all paths lead to it. `WitnessesVerify`, `SavedIsComplete`: witnesses of up to six
data verify at every length, before and after a crash between any two writes of `Flush`.

**`encodings`.** `NumbersRoundTrip`, `OneReading`, `StructsRoundTrip`, `StreamsAgree`,
`SignatureHolds`: what is written is read again; all ways to read a string agree and
refuse a part of it; structs survive a change of version; nested encoders and decoders
may be used in any order; the bytes that are signed are those of one transaction,
however Go ranges over its maps. For transactions with numbers or lists they are so up to
what `serializeValue` drops, which `Meaning` names: a number is written like the string
of its integer part, and empty strings at the head of a list leave no trace. The relay's own
transactions have neither. `NumbersRoundTrip` also has the texts of numbers with any
prefix: where `ParseBigInt`, `ParseInt` and `ParseUint` all accept one, they agree, except
on a leading 0, which is decimal for the first and octal for the others. The reader takes encodings that the writer does not
make; they mean the same. Near the largest int `size+len(org)` in `readMore` wraps and the
buffer cannot be made: the model has that panic as an outcome of `ReadRaw`, and
`OneReading` counts it among the refusals. `null` in a field that is not nullable, an encoder used
after its parent was closed, and arrays decoded into a used variable are outside what
is claimed.

**`senders`.** `ResultIsRight`: a result that is reported is right. For ICON, success means
that the BMC has handled the whole message, an error code that it has not; where
transactions may be lost, success speaks of what ended with the last fragment. For ethbr,
the codes say whether the transaction failed and whether the BMC has the message.
`Answered`: without faults every message of the ICON sender gets its result, and its
polling ends whatever happens; the goroutines of the ethbr sender end if no pool forgets
a transaction, with a result unless a request failed or the refusal has no code.
`WholeMessages`: the BMC never joins fragments of two messages, also after a failure between
two of them; with lost fragments it may. `PanicExplained`: `GetRevertMessage` takes the text of a nil
error exactly when the BMC has meanwhile moved to where the message fits. Not claimed:
a transaction that the pool drops leaves a gap in the nonces, and the ethbr sender polls
the later ones for ever; the answer that a transaction is a duplicate gives an empty
hash, and no result; neither does an http error without a JSON-RPC error in its body, which
panics. A call of `GetRevertMessage` that fails is taken for the contract's answer, and may be
reported as `BMVUnknown`, which ends the relay.

**`process`.** `StartedAsAsked`: the links are between the chains asked for, and a relay is
refused only for a reason; a client of an Ethereum chain that cannot be made exits the
process (`DialFails`). `ErrorEnds`: the first error ends it, also during the start.
`OneConnection`, `NoBlockSkipped`, `MonitorsProceed`: nested monitors leave one connection,
skip nothing, and end together. The exceptions: over http a failed callback skips the block
and what was to be caught up with, and a connection that cannot be made panics.
`ErrorsKept`: codes and causes survive wrapping.

Three runs refute what a comment or a test of the repository says (`findings` in
`PROJECT.json`):

| run | property | what happens |
|---|---|---|
| `ethbr_receipts` | `ProofCovers` | `BuildMessageProof` of ethbr removes the last receipt when none of its events was taken, also when it was not appended: an index out of range, or another receipt lost. Needs an event of another destination |
| `mbt_add` | `AddIsNew` | a tree grown by `Add` differs from `NewMerkleBinaryTree`'s from the eighth content on |
| `mta_newer` | `NewWitnessVerifies` | a witness of a longer accumulator is cut at the wrong place in a shorter one that has an empty root |

`Add` and witnesses of longer accumulators are not used by the relay at present.

### Bounds

* Link: three to five blocks, with a gap in the heights, blocks of zero to four
  messages; a queue of two, so that it fills, with up to four transactions alive, so
  that ids dropped by `dequeue` matter; `MaxRms` relay messages, which stops
  `BuildProofNil`, repeated by the code without end; two crashes. `KeyBase` is 256 as in
  the code. Sizes are chosen so that a block fits the limit, except in `link_restart`.
* Events: two to six blocks, of up to three events in up to two transactions;
  `StoreInterval` 2, so that heights are stored within the run; one restart, one error or
  reconnect. The limit is compared with sizes of
  pointers, as in the code, and so is never the reason to cut.
* Storage: two buckets of which internal keys overlap, two keys, one value; 17 leaves go
  past four powers of two; six data have one or two roots, with and without empty places between.
* Encodings: a byte has four bits and a word two bytes (`ByteBits`, `Word`). No line of
  the conversions depends on eight; all strings of four bytes cover every tag, short and
  long headers, and sizes above what is there. `int16`, a quarter of a word, is empty then.
* Senders: two messages of one or two fragments, two signings, one retry. The ICON node
  works as it should, fails requests, answers late and says that a transaction is a
  duplicate, or also loses transactions; for ethbr there are another relay and
  refusals of the contract, failing requests, and a pool that drops. Three Ethereum
  transactions and four messages, one too heavy for the gas limit, one failing without a code.
* Process: two networks, all configurations; three blocks and connections over two
  addresses, so that an address is given out again; six heads; errors of six layers.

### Fairness

Weak fairness, of what can go on by itself. Link: each goroutine of the link, the
receiver and the sender, and the execution of each pooled transaction: Go schedules
every runnable goroutine, RPC calls return, and a chain executes what is in its pool.
Progress notifications, the other relay, faults and crashes are not fair. A
transaction's position in `txs` may change when earlier ones finish; fairness is stated
per position, and positions only decrease. The other components have one action
`Proceeds` each, the disjunction of such steps. Weak fairness of the disjunction is
enough, as no bounded component can take fair steps for ever: each one consumes a block,
a request, a retry or a place in a list. For `events` it is assumed only in undisturbed
surroundings, where liveness is claimed.

## The proofs

`tlapm` proves, for every value of the constants that satisfies the named
assumptions.

The link's proofs are in five modules. `LinkLemmas` has what they share: sequences,
minima, the loops over slices, the source. `LinkProofs` (types, labels, the database,
`Delivery`), `LinkTurns` (goroutines that take turns) and `LinkCalm` (a relay that is left
alone) build on it and not on each other; `LinkTheorems` puts them together. A
proof step gets slower with every lemma in reach and with every definition behind the
first lemma. So the invariants are in modules without lemmas, `LinkInvariant` and
`LinkTurnsInv`, and the few facts about sequences that are needed are lemmas here, instead
of the library's. `MCLink` extends `LinkTurnsInv`: its invariants can be given to TLC too,
which agrees on the instances of `link_clean` and, for `TurnsInv`, of `link_order`.

Of the link, with or without preemption, for every set of faults and any number of
crashes:

* `TypeCorrect`: `Spec => []TypeOK`. Two facts are needed
  beside the types: `CursorOK`, the monitor that is about to store a status is at a
  block, and `StatusOK`, so is the status the link is about to append.
* `Finalized`: `Spec => []FinalizedIsDelivered`. A result is matched
  by id to a message whose label is the link's position when it was appended.
  Since that position is replaced without the mutex, the label need not be where
  the message takes the BMC. `DeliveryInv` says it is never above that: for every
  message held, sent, or about to be stored, the label's height is at most the
  height of its block update or already taken by the BMC (`Reached`), and a
  transaction that succeeded has a label the BMC has. `Locked` is needed since only
  the holder of the mutex may build on a block update.
* `Retained`: `KeysOrdered => (Spec => []BlocksRetained)`, from
  `Finalized`'s invariant and `RetainedInv`: every status in `b.rss`, or in a slice
  about to be stored there, is of a stored block unless the BMC has it.
  `KeysOrdered` says that the keys sort like the heights they stand for. The code
  does not ensure it: it holds while all heights have keys of the same length.
  `MCLink` evaluates it for the instances.
* `Delivers`: `KeysOrdered => (Spec => RefinesDelivery)`. Of all steps
  only five change what `Delivery` sees: an execution or another relay is a `Take`
  (the model of the BMC accepts the next block only), the monitor's callback a `Read`,
  `FinalizedStatus` a `Release`, a restart a `Start`. That `FinalizedStatus` deletes
  only what the BMC has is `DeliveryInv` again, with `KeysOrdered`. `Delivery` leaves
  open where a new process starts: that is `RestartCovers`.
* `Covered`: `KeysOrdered /\ FirstIsStart => (Spec => [](crashes = 0 => RestartCovers))`:
  a process that starts on the database asks the source for no height above a block that
  the BMC has not taken; the exception is that of `link_clean`, and then the process after it
  does not: `removeAllReceiveBlock` deletes the BMC's block and none above it
  (`FirstIsRemoved`), so that the first one stored then is above it. `CoveringInv` says that the database has every block between the
  BMC and the monitor, and none beyond the monitor; `getFirstHeightForReceiveBlock`
  then finds the first of them, by `KeysOrdered`. `FirstIsStart`: no block is below
  `StartHeight`. After a restart it does not hold: the new process may resume at a
  height that is above what it has to deliver (see the hazards).
* `Inductive`: `KeysOrdered => (Spec => []IInv)`, the three invariants
  together, as `link_races` checks them.

Of the link without preemption (`LinkTurns`), for every source, limit and queue, all
faults and any number of crashes, under `TakingTurns`: goroutines switch only where
they wait, `SequenceOffset` is 0, and no block is below `StartHeight`. `MCLink` evaluates
it for the instances that are not preemptive.

* `NothingPartial`: `Spec => []DeliveredWhole`. `BlocksChained`: `Spec => []MessagesChained`.
  `SizesBounded`: `Spec => []SizeBounded`. `ProofsEnd`: `Spec => []NoSpin`.
* `StatusesStay`: `Spec => [](crashes = 0 => StatusesKept)`. After a restart it does not
  hold: a new process may resume above blocks that the BMC has not taken.

They share one invariant, `TurnsInv`. A process is described by two heights that are
fixed when it starts: the BMC's block `b`, and the height `c` above which the receiver is
told of blocks. If a restart has skipped messages (`Skips`), the receiver's counts are
too low by them, and its check of the sequence stops it at the next block with messages;
until then it relays blocks without messages only. Otherwise every status counts the
messages up to its block (`Said`), and the link's position is at the end of a block
(`Between`) except while it builds, where `At` says what is known at each place of
`handleRelayMessage`: the block at hand follows the last message, its status is in both
lists, and the proof covers all of its messages or the message is already full. `Slices`
says that what a goroutine has read is still what the field holds, which is where taking
turns matters. `Keeping` says that the statuses above every height somebody needs are still there;
it needs `Passing`: a position that is reported or used to drop statuses is below
every block under way.

Of the link that is moreover left alone (`LinkCalm`), for every source, limit and queue and
any number of messages built ahead, under `LeftAlone`: `TakingTurns`, and no faults, so
that the chain executes all transactions in their order and there is no other relay.
Both are about the time until the first restart: a new process meets the transactions of
the one before.

* `AllAccepted`: `BlocksFit => (Spec => [](crashes = 0 => NothingFails))`. The BMC rejects
  nothing, no check of the link or the receiver fails, and no index is out of range.
  `BlocksFit` says that a block's messages but the last fit within the limit, so that one
  proof covers all of them. Without it the process ends at such a block: `buildProof` goes on
  with a block proof, which btp2 answers with nil, and uses it (`NilBlockProof`).
* `WakeupComes`: `Spec => [](crashes = 0 => PendingHasWakeup)`, with or without `BlocksFit`.

They share `CalmInv`, beside `TurnsInv`. There are two blocks f and t: what is sent and not
executed carries the blocks after the BMC's up to f, one each and in order
(`Executing`), what is built and not sent those after f up to t (`Ready`), and the link's
position is t, except while a block after t is being built (`Tip`). So the next
transaction is the one the BMC waits for. A goroutine in `sendRelayMessage` holds a copy of
what is not sent; the other one may drop messages meanwhile, but none above f, and f
itself only when its result is there (`Done`). The queue ends with f's id, which has a
result to come as long as the queue is not empty (`Queued`); since f is also the last
message marked as sent, it is still in `l.rms` when the queue is full (`Waking`).

The assumptions are those of the modules: `BlockHeightsAssumption`,
`EndSeqAssumption`, `SequenceOffsetAssumption`, `ReceiverAssumption`,
`SenderAssumption`, `FaultsAssumption`, `LinkAssumption`. `LinkLemmas` has the facts
about the loops over slices.

Of the layer over the database (`LayerDBProofs`), for all buckets, keys and values,
if internal keys of different buckets and keys differ:

* `Invariant`: `Spec => []FlushInv`. While a bucket is being written, what is no longer
  in `rest` is in the database, and the bucket is not given out as one of the database
  (`opened` and `reals` are disjoint), so nobody else writes it there.
* `Through`: after a `Flush` that returned nil nothing stays in memory.
* `Refinement`: `Spec => RefinesMap`. What is read through the layer is the `view`, the
  contents of the database are the `base`; each step of `Flush` is a `Save`, a `Commit`
  or a `Discard` of one bucket, or changes neither.

Of the senders (`SenderProofs`), for all limits, sizes and numbers of messages, and all sets
of faults (`IconFaults` and `EthFaults` are constants):

* `ResultsRight`: `Spec => []ResultIsRight`. For the ICON sender, a transaction's hash
  belongs to one signed fragment (`HashesApart`), and a message is handled with the last
  of its fragments (`OneFinal`), the one `GetResult` asks for; so a success is that of a message that ends
  with it, and by the invariant of `MessagesWhole` of the whole one unless transactions are
  lost. For ethbr, what a goroutine has learnt stays true since the BMC does
  not go back (`EthRight`).
* `MessagesWhole`: `Spec => []WholeMessages`, which is about nodes that lose no
  transaction they have accepted; they may be late and answer anything. `InOrder` follows the fragments through the
  sender, the pool and the BMC's cache: each one in the pool is the first of a message or
  directly behind the one before it, which may already be in the cache.
* `Panics`: `Spec => PanicExplained`, an action property.

Of what surrounds the links (`ProcessProofs`), for any number of blocks, addresses and networks:

* `Connected`: `Spec => []OneConnection`. The monitors that wait for an inner one have
  closed their connection, and will only return.
* `BlocksFollow`: `Spec => NoBlockSkipped`, an action property: for the ICON monitors from the same
  invariant (the running one goes on from the last block), for `MonitorBlock` of ethbr from
  one that relates the height asked for, the header at hand and the last block reported
  (`InStep`), until a callback has failed over http.
* `Started`: `Spec => []StartedAsAsked`, from an invariant over what `NewRelay` has looked at.

Model-checked only: liveness (fairness is out of the prover's reach); everything about recursive
algorithms (trees, codec, integers, chains of errors), since induction over data is out
of the prover's reach; the receivers that prove by events, whose properties are about
bounded fault scenarios.

## Not modelled

* Message and header bytes, hashes and signatures; the trie proof of a receipt
  (`common/mpt`, a library's trie); the contract binding (generated).
* In the link: `FilledBlockUpdate`, `LatestResult` and results that are not final, which
  neither sender's preferences nor results select. In the accumulator: `SetLen`.
* `common/address.go`, `btpaddress.go`: texts cut at fixed places, without state. An
  address is its network where it matters (`RelayStart`).
* Wallet and crypto: library primitives; only whether a key store opens matters here.
* Log, command line, configuration files: I/O. Msgpack, RocksDB, the map
  database and the flag table: bindings and structures the relay does not use.
* Requests of the clients that only fetch a value; http.
* The write of the keepalive goroutine that may overlap with the close message.

## Plan

1. A second abstract specification, of the messages under way (a window of consecutive
   blocks that moves with the BMC), and `Link` without faults as a refinement of it.
2. Proofs: `KeysOrdered` for heights of one key length, which needs powers and so
   induction; the event receivers, once their lists are no longer folds.
3. The bridge and ethbr receivers with the goroutines of `Link` instead of `EventRelay`'s
   exclusive calls.
