# Verification of the Digital Objects Network

TLA+ models of the parts of this repository whose correctness depends on the
order in which things happen or on two pieces of code that must agree, the TLC
configurations that check them on small instances, and TLAPS proofs of the
properties that matter most, for every value of the constants.

`PROJECT.json` maps every definition to the lines it models, and lists runs,
theorems, hazards and mutants (each property has a plausible bug of a mapped
definition that breaks it).

## The system and its modules

A client executes an action of a plugin and proves a transaction locally. The
**relayer** posts the proof as a blob to Ethereum, the **archiver** keeps the
blobs, and the **synchronizer** derives the shared state from the beacon chain.
The **driver** library, inside the daemon **dobjd**, keeps the user's object files
and transaction records in line with that state. The CLI, the browser GUI, an MCP
server and the Bitcraft desktop app are clients of the daemon.

| Part of the system | Module | Its state | What makes it hard |
|---|---|---|---|
| driver: transactions | `Transactions` | object files, payloads, records; holds, proofs, submissions, passes in memory | network reads outside the store lock, crashes, late submissions |
| driver: object files | `ObjectStore` | files in three directories under names that change, records, the store lock | crashes inside an operation, torn writes, name collisions |
| driver: plugins | `Plugins` | archives on disk, the catalog in memory, actions under way | a plugin replaced while it is used |
| txlib | `TxPredicates`, `TxReplay`, `TxBuilder` | a builder's scopes, events and guards; the ledger | the builder and the proof rules must accept the same event lists |
| sdk | `ScriptValues`, `ActionScript`, `ActionExecution` | the instructions of a script at Load and at Execute | the two runs of a script must line up |
| synchronizer | `StateMachine`, `Synchronizer` | the log and index in Postgres, nodes in RocksDB, the loop | reorgs between requests, wrong 404s, two stores |
| synchronizer's membership API, driver's client | `MembershipQuery` | the head and index an answer read, the batches | the head moves between batches and inside one answer |
| archiver | `Archiver` | links by slot, directories by root, torn files | every file operation can be the last before a crash |
| both followers | `ChainFollower` | the last block taken in, the state | the abstract specification |
| relayer | `Relayer` | rows, the copy the worker holds, the node's pool | lost answers, fee bumps, nonces given to others |
| dobjd: runs and settlement | `Dobjd` | records, runs, passes, retries, event queues | a wake-up or an event between two reads |
| dobjd: run streams, CLI | `RunStream` | the log of a run, its stream, the following command | connections that break while the log grows |
| dobjd: settings, MCP server | `McpSettings` | the settings file, the server, requests | requests that overlap |
| MCP: user commands | `UserCommands` | directories, the cached menu | files examined one by one while others write |
| GUI | `ObjectList`, `RunPanel` | the page's copy of the objects, the one panel | events older than the list; two presses of Run |
| CLI: updater | `Updater`, `UpdateCheck` | binaries, backups, pidfile, daemons; the release cache | a failure or a kill between two renames |
| Bitcraft app | `BitcraftApp`, `DesktopWindow`, `Presence`, `InventoryMetrics` | daemons, home directories, window, tray, activity, totals | child processes, hosts that come and go, hung calls |
| Bitcraft bot | `Leaderboard` | scores, the saved and the public object | a save racing a score, restarts |

The comment at the head of a module says what its variables stand for and what
was abstracted; names are those of the source where TLA+ allows it. What the code
does under one lock or in one database transaction is one action; what it does
around a network call, an `await` or two file operations is split there.

### How the parts meet

* `Transactions` sees the relayer as `RelayerAccept` and the synchronizer as
  `head`, `chain` and `foreign`. It relies on: an accepted payload is broadcast
  or dropped (`Relayer`), statuses and membership describe one head
  (`Synchronizer`'s `IndexExact`, `MembershipQuery`).
* `Dobjd` takes each call of the driver as one change of a record, which is what
  `Transactions` shows of it. `RunStream`, `RunPanel`, `ObjectList` and
  `InventoryMetrics` take the daemon's events as `Dobjd` publishes them: in order,
  numbered, and dropped when a subscriber is slow.
* `Synchronizer` and `Archiver` each implement `ChainFollower` (`INSTANCE ... WITH`).
* `ActionExecution` keeps of a transaction what `TxBuilder` checks of one.

### MC modules

`MCTransactions`, `MCFollowers`, `MCServices`, `MCDobjd`, `MCProgress`, `MCDriver`,
`MCExecution`, `MCClients`, `MCDesktop` and `MCScores` give the constants values.
Most hold several instances. A variable `part` chooses one of them in the initial
state and never changes; the variables of the others stay as they start. The
behaviours are the union of those of the instances, so an invariant
`part = "x" => X!P` holds exactly when P holds of instance X. An action property
or a refinement that is stated without the guard holds trivially in the other
parts, whose steps stutter for it. Fairness conditions are conjoined per part; in
`MCProgress` conditions of different parts are merged by disjunction, which is the
same condition in each part because the other disjuncts are disabled there.

## Runs

| Run | What it shows |
|---|---|
| `transactions_rivals` | Two proof owners want one input and one output name: open records stay disjoint, outputs stay on disk, a file's status only moves forward. |
| `transactions_race` | One repeatable transaction on an imported object, with submissions, passes, re-proofs, other spenders, crashes and late answers in every order: records and files agree with the chain, attempts are durable, removal is clean. |
| `followers` | Synchronizer: the log is one chain, states equal a reference replay, each transaction is applied at most once, the index is exact, roots are on disk, syncing never stops, and the log becomes the live chain. Archiver: sound and complete after every crash, becomes the live chain. Both implement `ChainFollower`. Membership answers hold at the oldest of their heads. |
| `services` | Relayer: a nonce per stored attempt, bumps replace the job's own transaction, a confirmed job names its mined transaction, nothing stored is forgotten, every job ends. Settings: every overlapping write is answered and the MCP server never collides with itself. |
| `dobjd` | A finished run agrees with the record; the loop never sleeps on an open record; retries are bounded; settings written one after the other are in effect. |
| `progress` | Terminal records are announced, runs end, attempts are offered again, open records settle, a store hit by a crash loads again. |
| `driver` | An object is in one file; names pass from version to version; the catalog is the one on disk; an object is spent by the module that made it; chained transactions agree with the chain. |
| `execution` | `finalize` accepts exactly the replayable event lists, with the effects of a reference; no object is in two states; Execute's statements match the clauses Load rendered. |
| `execution_outputs` | *Violation*, see Findings. |
| `clients` | Followers get each event once and in order; pages and panels come to show what is true; a failed update leaves one release and one daemon; a menu with the store's fingerprint has every stored command. |
| `desktop` | A launch archives what it replaces; no daemon outlives its app; the window is never hidden out of reach; presence is taken back when sharing ends. |
| `scores` | Totals and rates are those of the inventory; no score is forgotten; posts and `/rank` agree. |

### Bounds

Each bound is a constant named `Max...` (faults, crashes, reorgs, lives, writes)
or a small set, and guards the action it bounds. They are chosen so that the case
a property is about occurs, and the mutants show that it does.

* Transactions: `MaxHead` exceeds the age limit of every grounding, so
  transactions land and expire; `MaxAge` is 1 in place of 50400 blocks.
* Followers: five slots, two branches of unequal density, a batch of two headers:
  a reorg falls inside a batch, between batches and at the head. Gloas starts at
  slot 4. The last slot's block is not reorged out, as convergence needs a block
  that stays. One transaction is on both branches, one is in three blobs.
* Relayer: two jobs with one fault and one eviction; one job with passes that take
  time and fees that rise; one that must end.
* Dobjd and its clients: channels of one or two events, so they overflow; one
  fault and one crash; two transactions compete for one retry slot.
* Execution: up to three events, nested scopes, three grounded inputs (each
  takes another grounding rule), two- and three-level call trees.
* Updater: two updates with two failures; one update killed at any step, followed
  by the installer, start and stop.

Deadlock is checked in `clients`, `desktop` and `scores`, whose modules say when
everything is over. In the others the bounded environment ends (the chain has its
last block, the user their last request) and the system may stop with it.

### Fairness

Liveness is checked under the fairness the schedulers give, with failures bounded.

* Synchronizer and archiver: weak fairness of the loop (polled every few seconds
  when no event arrives) and of the chain producing blocks.
* Relayer: weak fairness of the single worker, its restart, the clock and the node
  serving receipts. `JobsEnd` holds only with a receipt timeout configured.
* Dobjd: weak fairness of each task. Strong fairness of taking the pass mutex:
  clients do not send requests back to back, so a waiting thread gets the mutex in
  the end. Where runs must end, a record the passes look at again and again is
  expired in the end, because blocks keep coming. Where the chain need not decide,
  a retry which starts again and again gets past its read of the head.
* ObjectStore: weak fairness of the holder of the store lock, strong of those that
  wait for it; the loop makes passes while a record is open.
* Transactions: weak fairness of the settlement loop and of blocks; nothing fails
  from `CalmFrom` on.
* `progress` assumes of the fairness that `Dobjd` and `ObjectStore` state only what
  its properties need: none of the conditions of `MCProgress` can be dropped from
  the part that has it.
* Clients and desktop: weak fairness of each task, timer and callback; that the
  daemon ends every run is what `progress` shows. A Discord that hangs comes out
  of it; whether it is started again is left open.

## Proofs

All theorems hold for every value of the constants, under named assumptions.

### Transactions
`TransactionsProofs`, `TransactionsSteps`, `TransactionsAgreement`; from
`ObjsAssumption`, `FreshAssumption`, `RepeatAssumption`, `BoundAssumption`, under
`Spec`, in which the synchronizer's head never goes back.

* `TypeCorrect`, `HoldsAreExclusive`, `OpenRecordsDisjoint`, `FilesForward`.
* `RecordsAgreeWithChain`. `TerminalAgreesWithChain` is not inductive.
  `AgreementInv` adds that what a pass read is still sound (a transaction it found
  absent was absent up to its head), that groundings on the way to the relayer are
  no newer than the recorded one, that a transaction never offered is not on
  chain, and that proofs of one transaction run alone.
* `FilesBackedByChain`, `OutputsAreKept`, `AttemptsAreDurable`, `RemovalIsClean`
  rest on it. `TransactionsSteps` has, for each variable, the only ways a step
  can change it; the later proofs split on those instead of on thirty actions.

### Synchronizer
`SynchronizerProofs`; from `TreeAssumption` (a tree of blocks whose slots grow).

* `LogIsChainHolds`: the invariant `ChainInv` adds that after starting exactly the
  slots below `next` are committed, that answers are blocks of the slot asked for,
  and that the slot in hand continues the stored chain.
* `RootsOnDiskHolds`: `NodesInv` says where the nodes of the slot in hand are.

### Relayer
`RelayerProofs`, `RelayerNonces`; from `load_config` (what the function of that
name accepts, with a clock that runs past its timeouts) and `Clock` (delays are
whole seconds).

* `RelayInvariant`: `RelayInv` relates each row to the transactions it names, the
  copy in the worker's hand to its row, phase by phase (between asking for a nonce
  and sending nothing else takes it; between looking a transaction up and
  replacing it its nonce holds none of another job), and keeps at most one
  transaction per nonce in the pool.
* `ConfirmedAreMined`, `BumpsReplaceOwn`, `HistoryIsKept`.
* `NoncesAreAccounted` counts: a payload has no more nonces than stored attempts,
  fewer while an attempt has not been sent, and all but one of them are paid for
  by a fault. That a free nonce exists is a pigeonhole argument.

### Archiver
`ArchiverProofs`, `ArchiverFollows`; from `Tree`, and where the first block is
concerned `InitSlot \notin FlakySlots`.

* `ArchiveInvariant`: links, headers, torn files and the position of the process
  fit together after every file operation and crash.
* `ArchiveIsSound`: the links are one chain from the first block on, linking never
  fails, and what a `header.json` stands for is complete and served.
* `ArchiveImplementsFollower`: every step takes in a child of the last block, drops
  blocks from the end, or stutters. That the ancestors function exists and that
  every block descends from the first one are proved by a least counterexample.

`Relayer` and `Archiver` are instantiated, not extended, by their MC modules, so
their conditions on constants are hypotheses of the theorems; `MCServices` and
`MCFollowers` assume them of each instance, and TLC evaluates them.

### Only model-checked

* Every liveness property: the prover does not reason about fairness and `ENABLED`.
* The synchronizer's `StateIsReplay`, `IndexExact`, `AppliedOnce`, and with them
  `NeverHalts` and `FollowsChain`: they say what a recursion over the blobs of a
  slot computes.
* `MembershipQuery`, txlib and sdk: recursive evaluation against a recursive
  reference, for bounded inputs.
* The daemon, its clients and the desktop app.

## Findings

`execution_outputs`: a parent action that declares an object before it calls a
sub-action returns its objects in another order than `total_outputs` lists them,
although `libs/sdk/src/lib.rs:3129` promises declaration order.

## Behaviour worth knowing

Met while modelling. Where it concerns a property above, that property is stated
so as to hold beside it, or the configuration keeps it out; the modules' comments
say where.

* Transactions: a delete that fails half way leaves a record that can still land
  without its outputs (`halfDeleted`). A landed record is not revisited when the
  chain reorganises. A transaction without inputs and with all keys given can be
  proved and submitted twice (`RepeatAssumption` excludes it).
* Object store: files are replaced in place, so a crash during a settlement's
  write leaves one that does not parse (`object_store.rs:230`). After a rename
  between two crashes, pruning can leave an input in both directories.
  Discarding takes no lock and may move the next version (`driver.rs:341`). A
  proof that holds an output when its record is due leaves it with a pending
  name. Settling two chained records in one pass can miss the second's input
  until the next listing.
* Plugins: `install_plugin` takes no lock, so two failing upgrades of one plugin
  can lose it, and of two installs one may be missing from the running catalog;
  a kill between the renames leaves an archive that stops the next start. A copy
  of a plugin under another name shares its class hashes.
* sdk: an input that is updated, a mutate that changes nothing, a commitment used
  after an update, a set that reads its own target and a repeated set before an
  update all load and cannot be proved.
* Synchronizer: a 404 for the genesis slot at the first start ends the process.
* Archiver: a 404 for the first slot on an empty store skips it for good. A crash
  inside `remove_dir_all` can leave a header without its blobs (`torn`).
* Relayer: once a replaced transaction is mined after the last bump its receipt is
  not looked for again, and the job fails although the payload is on chain.
* dobjd: `announce_transaction` and `publish_objects` publish what they read
  earlier, so the last event about a record or an object may be an older one.
  Overlapping writes of the settings can undo one another.
* CLI: an update that is killed between its phases leaves no binary until the
  installer runs; two updates, or two starts, side by side break each other's
  result. A child that dies while starting is waited for to the full timeout. A
  failed release check can write back an older cache.
* MCP commands: a directory renamed to a name that is no slug is listed and cannot
  be deleted. After a deletion the store can have the fingerprint of an older menu,
  which is then served (`commands.rs:33` says an unchanged fingerprint means the
  listing is current). A failed second save leaves an empty README.
* Membership: batches on both sides of a rollback can mix two branches.
* GUI: a change between the first load and the opening of the stream, an event
  during a reload, and a reload that fails leave the list stale (`holes`).
* Bitcraft: the metrics accept the first event of a stream whatever its number; a
  lost upload answer leaves the public file ahead of `/rank`; a crash while
  `settings.json` is first written leaves it empty, and the daemon refuses it.

## Not modelled

* Byte encodings (`payload`, `pexe` archives), circuits (`intro-pods`), macros
  (`pod2utils`), HTTP, retries inside clients, database errors, log output.
* Transactions: creation proofs, relayer annotations; two crashes inside one
  operation; a crash while a foreign spend is being reconciled.
* Synchronizer: graceful shutdown (a `Crash` without loss) and the primary key of
  `tx_statuses`. Answers of a dishonest synchronizer, which
  `collect_created_proofs` refuses.
* sdk: Rhai syntax, arithmetic, rebinding of variables, branches on values.
* Plugins: `pexe build --install` on archives it refuses.
* MCP: two concurrent definitions of one command, restarts, users editing the
  command directories by hand.
* Bitcraft: quitting is one step with the end of the process; an app without a
  Discord application id; agents, appearance, onboarding.
