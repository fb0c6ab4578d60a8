# A TLA+ model of remindb

remindb compiles a directory of notes into a SQLite database of nodes, keeps a
git-like history of them, serves them to agents over MCP, and lets agents write
back. This directory models the parts whose correctness depends on order: what
the history records when a rescan loop, tools, several processes and users work
at once; how transactions retry; how the cold-node notifier deduplicates; how
bridges start one daemon; how the Windows service stops; and the sequential
algorithms in between: how documents become nodes with ids, which files a walk
finds, which temperature seeds a file gets, how answers and search queries are made.

## Inventory

| Part | State | Operations | Hard behaviour | What makes it correct |
|---|---|---|---|---|
| Parser, transformer, ids (`pkg/parser`, `pkg/transformer`, `internal/contentid`) | stack of open sections | parse a block, split a preamble's values, number siblings | heading levels that jump; several files in one compile | a node hangs under its nearest heading; ids are unique and independent of the other files |
| Splitting (`pkg/parser/split.go`) | none | inline small values, promote large ones | nesting | every value is in one node |
| Ignore rules and walk (`internal/ignore`, `internal/fileext`) | rules | parse, match, walk | negation, `**`, pruned directories | the walk finds what the rules leave |
| Temperature file (`internal/tempfile`) | a tree | insert, merge, resolve | keys visited in random order, spelled in several ways | one result per file, conflicts found |
| Query rewriting (`pkg/store/search.go`) | none | split, quote, join | parentheses and stars that do not fit | no symbol lost; what a bareword cannot hold is in quotes |
| Diff and emitter (`pkg/diff`, `pkg/emitter`) | none | diff flat trees, hash, emit deltas in one transaction | the previous state may be stale or of the wrong scope | each diff records what changed |
| Store (`pkg/store`, `migrations`) | tables nodes, snapshots, diffs, cursors; `OpMu`, `txMu` | upsert, delete with cascade, create snapshot, advance HEAD, retry | SQLITE_BUSY, several processes, UNIQUE and foreign keys, crashes | linear chain, no dangling parent, a call commits once |
| Compiler (`pkg/compiler`) | none | `Compile`, `CompileDir`, `CompileFile` | which previous state each loads | adds, modifications and removals match disk and store |
| Rescan loop (`pkg/mcp/rescan.go`) | `modTimes` | walk, purge, compile, record mtimes | files change between walk, lock and read; errors; restarts | the store follows the disk or an error is logged |
| Tools (`pkg/mcp/tools`) | none | write, summarize, compile; fetch, search, tree, history, delta | stale anchors; reads beside commits | history is exact; answers are within budget |
| Query engine (`pkg/query`) | none | three concurrent reads, rank, fill a budget | commits between the reads; budget boundaries | each node once, nothing that fits dropped |
| Temperature tracker and MCP push (`pkg/temperature`, `pkg/mcp/server.go`) | temperatures, `recentlyNotified`, sessions | boost, decay, query, dedup, push, mark | TTL and limit boundaries; sessions that break | no repeats, nobody starves |
| Startup (`cmd/remindb/serve.go`, `pkg/store/migrate.go`, `pkg/mcp/initial.go`) | schema version, goroutines | open, migrate, initial compile, listen, shut down | several processes at once | one of them wins |
| Bridge (`cmd/remindb/bridge.go`) | a connection | dial, start a daemon, poll, copy both ways | bridges launched together; half-closed connections | a bridge is served, and ends |
| Windows service (`cmd/remindb/service_windows.go`) | the SCM's entry, processes | install, uninstall, start, stop, Execute | commands of several consoles; failures and time limits while draining | stops are honoured, failures are reported, cores do not overlap |

Interaction: the rescan goroutine and the tool handlers of a process take
`Store.OpMu` around "read, diff, emit"; every transaction takes `Store.txMu`, and
processes meet in SQLite's write lock. The tracker goroutine reads and decays
without `OpMu`; read tools take no lock and boost temperatures afterwards. The
tracker calls back into the MCP server, which pushes to every session. Bridges
talk to a daemon over TCP and start it when nobody answers.

`PROJECT.json` lists all components, also the ones left out, and the hazards at
their lines.

## Modules

| Module | Models | Builds on |
|---|---|---|
| `SourceTree` | files, parsed docs, node ids, rows | |
| `MemoryStore` | tables, diff, emission and its transaction | extends `SourceTree` |
| `VersionedMemory` | abstract: a map with an exact history | |
| `MemoryHub` | server processes: startup, rescan loop, write tools, crashes, users | extends `MemoryStore`; instance of `VersionedMemory` |
| `StoreTx` | `Store.Tx` by statement: mutex, write lock, busy, retries | |
| `Tracker` | temperatures and cold-node notifications | |
| `Outline` | Markdown section stack, sibling numbers, ids | |
| `Split` | JSON, YAML and TOON documents to nodes | |
| `IgnoreRules` | `.remindb.ignore` and the directory walk | |
| `TempFile` | `.temp.json` | |
| `SearchQuery` | rewriting of full-text queries | |
| `Bridge` | bridges, daemons, migrations, initial compile, listener | |
| `Query` | fetch and search with their budget | |
| `Service` | the Windows service, its commands and the SCM | |

`MC*` modules give TLC instances, `*_proofs` the theorems (`SingleServer_proofs` those
about `MemoryHub` that rest on `Store.OpMu`, `Algorithms_proofs` those about `Outline`,
`IgnoreRules`, `Split`, `TempFile` and `SearchQuery`). `MemoryStore` is the
composition point: it takes the ids `Outline` makes as pairs of source and
position, and takes as one step the transaction `StoreTx` shows by statement.
`MCAlgorithms` puts the five sequential algorithms and the query engine in one run; a
behaviour is about one of them.
Operators whose comment begins with "Faulty" are deliberate mistakes used to see
that a property can fail; no specification uses them.

### How state and actions correspond to the code

**MemoryHub.** `nodes`, `log` and `head` are the tables (a snapshot carries its diffs);
`modTimes` is `RescanLoop.modTimes`; `opMu` is `Store.OpMu`; `disk` has each file's parse
result and mtime. An operation has two steps. The first reads store and files and plans an
emission (`ScanLock`, `ScanCompile`, `Start`, the `Handle...` actions, which call `Compile...`
and `DiffFlat`); the second commits it or fails (`Emit`, `EmitNothing`, `EmitFails`,
`EmitBusy`, with everything the caller does after `emitter.Emit` returns in `Finish`).
`ScanWalk` is the walk before the lock. A crash may come anywhere and loses all but the
database. `failed` records which kinds of operation have reported an error: `ErrorReported` is
what an operator could see. With `ReadErrors` the statements that read the store may fail:
`ScanLoadFails` (the purge is skipped and the loop goes on), `ScanCompile` (an error) and
`HandleWriteUnread` (`MemoryWrite` drops the error of `GetNode` and takes its anchor for a new
node). A tool that fails otherwise changes nothing, nor does a walk that fails. An error of a
read at startup ends the server like a file that does not parse. Users edit files (`EditFile`,
the mtime is the present) or restore an old copy with its old mtime (`RestoreFile`); `Edits`
and `Archive` say which.

A *content* stands for text and hash together: xxhash64 is taken to be injective,
in ids and cursor hashes too. The refinement mapping to `VersionedMemory` is
`Memory` (the content of each live node) and `History` (the old and new contents
of each snapshot's diffs). `SourceArg` is the text of `--source`: rescans record it
as given, directory compiles its absolute path.

**StoreTx.** One goroutine's call goes `waiting` (txMu) - `begin` - `writing` -
`inserted` - `committed` - `idle`. An emission's first statement writes, so a deferred
transaction takes the WAL write lock before it reads HEAD. SQLite itself is
external; it is modelled as one lock with rollback.

**Tracker.** Time is counted in ticks. A tick is up to three steps: decay,
cold query with dedup, push with mark. `cold` keeps the temperatures as they were
read. `since` and `warmed` are history variables for the properties. `CompileDir` is
what a directory compile does to temperatures: the nodes it upserts take the seed
`.temp.json` gives their file. `Reseed` is one transaction of
`--reseed-temperatures`. What
`ServerSession.Log` of the MCP library does is external: it returns no error and
sends nothing to a session that set no logging level.

**Outline.** Blocks of the files arrive one at a time and nondeterministically,
so a run covers every outline up to `MaxNodes`. A YAML preamble is a root node whose
promoted values become nodes below it; `Split` has how they are chosen.

**Split, IgnoreRules, TempFile, SearchQuery.** Each has one variable, the input, which grows
by a value, a rule, a key or a symbol, and operators named after the functions of the code
that compute on it. The properties compare them with a definition of the result that does not
follow the code. A path or key is a sequence of segments, a glob the set of names it accepts.
Recursion of the code over a document, a path or a list of rules is a recursive function of
positions in it: `matchPath` gives for each segment the places of the path from where the rest
matches, the walk gives for each directory whether it is entered, `Rendered`, `BuildNode` and
`ParseValue` give a result for each value of the document. The functions of `SearchQuery` that
call each other take `rewriteFTSToken` as a parameter, a function of texts, which is then
defined by them. Go's order of map keys is a choice in `BuildEntry`, which gives the trees
that can result for each set of keys visited so far, so `Load` is a set of results; the
theorem about it says that the set has one element. `Failed` is the error of a load. The
symbols of a query stand for words, operators, `NEAR(`, a column with its colon and single
characters.

**Service.** `exec` is where `Execute` stands and so what the service manager (SCM)
answers to a query; `core` is the `serveCore` goroutine, whose inside is in `Bridge`. The
SCM is external: it starts a process for a stopped entry, delivers stops only to a
running service, and removes a marked entry once the service is stopped and all handles
are closed. The time limits (30 s of the drain, 20 s of an uninstall) may strike any time.

**Bridge.** A daemon goes through `serveCore`: `opening`, `migrating`, then the initial
compile with its emptiness test (`checking`), `parsing`, `loading` of the previous nodes and
`compiling` (the emission), `running` (goroutines started), `serving` (it has the
address). The content of the source directory is a version number.
A transaction is one step. That SQLITE_BUSY can outlast the retries is not in
this module: the transaction that holds the lock then is of a daemon that goes on.

**Query.** `table` has token counts; a commit may change it to any table with live
parents. Scores are floats; any ranking is possible, so results do not
depend on the score formula. The three reads of `collectContext` are separate steps.

## Runs

Passing runs:

| Run | Instance | Shows |
|---|---|---|
| `history` | one server; one file with heading and child, two contents; writes, summaries and compiles of the file, 2 calls; 1 crash | with one server and no directory compile the history is exact (`HistoryIsExact`), no foreign key fails (`NoForeignKeyFailure`), `TypeOK` |
| `rescan` | one server whose reads of the store may fail; two files: users break and mend one, and edit, empty, delete and restore the other from an old copy; 1 crash | a file the loop skips is stored as it is on disk (`SkippedFilesAreStored`); the store catches up or an error is reported (`RescanConverges`) |
| `two_servers` | two servers; one file of a subdirectory; writes with stale anchors, reads that fail and compiles of either directory, 2 calls; 1 crash | whatever the writers read, `ParentsLive` and `LogCoversNodes` hold |
| `cold` | two nodes, one with a seed, two sessions, four temperature levels, a limit of one node | `NoRepeatWithinTTL`, `ColdNodesArePushed`, `TypeOK` |
| `tx` | two goroutines of one process with 2 and 1 calls, one of another with 2; two attempts | `TypeOK`, `SnapshotsChain`, `CommittedExactlyOnce`, `BusyOnlyAcrossProcesses`, and every call returns (`TxReturns`) |
| `algorithms` | outlines of two files with three levels and five nodes; documents of six values; ignore files of two rules over three directories; temperature files of four keys; queries of five symbols; fetches and searches over four nodes in a tree with token counts 0 and 2, budgets 1 and 4, one commit | `Outline`: parents, unique ids, ids per file. `EveryLeafInOneNode`, `WalkFollowsTheRules`, `LoadFollowsTheKeys`, `RewriteKeepsTheQuery`, `TermsAreShielded`. `Query`: `EngineTypeOK`, the answer's budget (`WithinBudget`), fullness (`NothingThatFitsIsDropped`) and uniqueness (`AnsweredOnce`) |
| `startup` | two bridges, three daemons, two migrations, one edit, one stop | `TypeOK`; a daemon survives (`SomeDaemonSurvives`), bridges that wait are connected to it (`WaitingBridgesAreServed`), one server remains, bridges end |
| `service` | two processes, two consoles | `CoresDoNotOverlap`, `UnrequestedStopsFail`, `StopIsHonoured`, `CommandsReturn`, `UninstallRemoves`, `TypeOK` |

Runs that end in a violation state what a document or comment says and the code
does otherwise; `PROJECT.json` quotes the line of each.

| Run | Property | What happens |
|---|---|---|
| `restart_rejected` | `ServersComeUp` | all files' nodes were purged and a file is back with a content compiled before: the initial compile of the next start repeats a `cursor_hash`, which is UNIQUE, and the server exits, as on every later start |
| `reinclude` | `ReincludedFilesAreWalked` | the README's example `**/cache/**`, `!cache/keep.md`: the first rule also matches the directory, the walk does not enter it and the file stays out |
| `compile_dir_history` | `HistoryIsExact` | a directory compile after a summary takes the node as new |
| `notify_hysteresis` | `PushedOnceUntilWarm` | after the TTL a node that stayed cold is pushed again |

### What the properties except

The passing properties are as strong as the code allows. Each exception was found
with the model, and the models reach every one of these states:

- A repeated `cursor_hash` also fails a `MemoryWrite` that returns a node to an earlier
  content, and a rescan of a file that was edited back, on every
  later scan until the file changes again. Hence the `ErrorReported` of
  `RescanConverges`; `NoForeignKeyFailure` speaks of the other constraint.
- A file deleted while no server runs keeps its nodes: `modTimes` is empty after a
  start. `RescanConverges` speaks of files that are there, or were recorded by a server
  that stayed up.
- A file replaced by an older one, with an mtime that is not after the recorded one,
  is not compiled until it changes or the server restarts (`Backdated`).
- A file that parses to no node keeps the nodes it had (`InSync`,
  `SkippedFilesAreStored`), because `Compile` loads the previous state by the source
  files of the parsed nodes.
- With two processes a diff may hold an old content that is not the one it
  replaced, and with a relative `--source` a directory compile does not find
  what rescans stored. So `HistoryIsExact` passes with one server and without directory
  compiles only; `two_servers` has what holds regardless.
- `MemoryCompile` of a file in a subdirectory has that directory as its root and makes
  a second set of nodes with other ids.
- `ColdNodesArePushed` requires the node to be among the `ColdNotifyLimit` coldest:
  the limit is spent before the dedup drops nodes. A node is marked
  even if the only sessions are ones without a logging level, so the property waits
  for the next TTL after one listens.
- While daemons race, two of them may run the rescan loop and the notifier, until one
  is refused the address; `OneServerRemains` speaks of the end.
- A service whose `serveCore` does not drain in 30 s is reported stopped all the same
  (README.md:574 speaks of draining first), so the next one may start beside it:
  `CoresDoNotOverlap` excepts that. A stop that races a failure of `serveCore` hides the
  failure: the exit code is 0, and `UnrequestedStopsFail` speaks of stops nobody asked for.
- An uninstall that finds the service starting has its stop refused and ignores that; it
  marks the entry after 20 s and the service runs on (`UninstallRemoves`).
- A negated rule does not bring back a file below an excluded directory, which the walk
  does not enter. `WalkFollowsTheRules` says nothing of such a file; `reinclude` shows that
  the example at README.md:469-471 fails.
- Two keys of `.temp.json` for one path fail the load also when they agree
  (README.md:500 speaks of disagreeing values only), and a directory with
  a temperature admits no key below it. A `*` seeds only where it is the last segment.
- `TermsAreShielded` speaks of queries without quotes: an unclosed quote goes to FTS5
  as it is, and so does one cut at a space, as in a column filter with a phrase. It speaks
  of no query with both a `NEAR` and a comma, whose distance is passed on unchanged. That
  FTS5 accepts the rewritten query is not claimed: a dangling `OR`, `()` and
  `label:label:word` reach it as typed, and it rejects them.
- skills/remind/SKILL.md:64-76 says that a query with an operator passes through unchanged.
  `rewriteFTSToken` quotes the terms of such a query where they need it (`NeedsFtsQuoting`),
  joins tokens with `OR`, and the model does the same; what it keeps is
  `RewriteKeepsTheQuery`.
- `HistoryIsExact` is checked with reads that succeed. A `MemoryWrite` whose `GetNode`
  fails takes its anchor for a new node: the node becomes a note without file and parent,
  and its diff says `add`.
- `WithinBudget` allows an anchor that is larger than the budget: it is always answered.

### Bounds

`MaxTime`, `MaxCalls`, `MaxCrashes`, `MaxStops`, `MaxEdits`, `MaxCommits` and `MaxNodes` end
the users', clients' and faults' activity; two contents are enough to change a node, change it
back and collide; heading and child are enough for a foreign key and a cascade; two servers
for every race on the store; `MaxTime` 4 lets a file be edited twice, with a settle window and
the recording of its mtime in between. In `two_servers` it is 3: the removal of a heading
under which the other server has just put a child there comes from a directory compile of the
emptied file. Two goroutines of one process and one of another meet both locks. Two attempts
stand for `maxAttempts` 6: one that is retried and one that gives up. The deepest heading of
Markdown is 6; three levels include jumps by two, returns and repeats. A cold-node limit of
one of two nodes is to them what the default of 50 is to 51. Two entries make a value large in
`Split`, where the code has `MaxInlineFields` 5; six values nest three deep. Two rules suffice
for one to overrule the other, three segments for `**` between, before and after names. Four
keys give a path twice, in two spellings and nested, beside a `*`. Five symbols are a `NEAR`
with a term and a distance, or a term in two pairs of parentheses. Two processes of the
service are the last and the next.

Deadlock is not checked where the bounds let the system come to rest: in
`MemoryHub`, `StoreTx`, `Bridge` and `MCAlgorithms`. `Tracker` and `Service` always have
a step.

### Fairness

- `MemoryHub`: the clock runs; the ticker of the loop fires and a goroutine that
  holds `OpMu` goes on (weak fairness of scan and emit steps); a supervisor or client
  restarts a server that is down. Users, clients and crashes owe nothing.
- `StoreTx`: statements, busy timeouts and backoffs end (weak fairness), and
  `sync.Mutex` in its starvation mode hands the lock to waiters (strong fairness of
  `TxMuLock`).
- `Tracker`: the ticker fires, and decay and query do not fail for ever (strong
  fairness: a failure also ends the step); the push is weakly fair.
- `Bridge`: started processes go on, a server accepts and closes; clients,
  signals and timeouts owe nothing.

- `Service`: the control loop with its timers, a started command and the SCM go on;
  `serveCore` owes nothing, not even to return once cancelled. The SCM removes a marked
  entry whenever its last handle is closed (strong fairness), however soon
  another is opened.

## Proofs

Every theorem holds for all values of the constants that satisfy the named
assumptions (`SourceTreeAssumption`, `MemoryStoreAssumption` and `MemoryHubAssumption`, and
one per other module): any number of files, nodes, processes, sessions, retries. Of the
assumptions, that no file is named like `WriteSource` is what makes a note's id differ
from a file's: notes are stored under a name without a parser's extension, and only names
with one are compiled. Where a theorem needs more (`OneServer`, `~StaleAnchors`, ...) the
condition stands in its statement.

- `MemoryHub_proofs`: `TypeCorrect`, `ParentsStayLive`, `LogCoversTheNodes`. The inductive
  invariant is `StoreInv`. That `ParentsLive` is inductive rests on lemmas about the least set
  a cascade deletes (it is closed under children) and on the foreign-key test of the emission.
  `LogCoversNodes` needs `ParentsLive`-independent facts only: a commit's upserted rows are
  those of its own deltas, and a row it does not touch keeps its latest diff. No assumption
  about what the emission's planner read is used, so the theorems cover stale emissions of any
  number of processes.
- `SingleServer_proofs`, what `Store.OpMu` is for. `OpMuSerialises` holds for any number of
  servers: a stage of the loop, a tool call and startup each fix who holds `OpMu`
  (`OpMuDiscipline`), so one process never has two operations between their reads and
  their emissions.
  `ForeignKeysNeverFail` needs `OneServer`: the table at the commit is then the one
  that was diffed, and every parent an upserted row names is live or upserted with it.
  With two servers it is false: the instance of `two_servers` reaches
  emissions whose foreign keys fail.
  `IdsPlaceRows` needs no limit on servers: source and parent of a row follow from its id
  (`PlacedInv`, which speaks of planned rows too). A note that a client writes
  with the id of a node that is gone has no file, hence `~StaleAnchors`, nor has one written
  over a node that could not be read, hence `NodesAreRead`.
  `HistoryRefinement` is the step-by-step refinement of `VersionedMemory` under
  `ExactConditions` (one server, no stale ids, `NodesAreRead`, no directory compiles; a
  directory compile breaks it, as `compile_dir_history` shows). Its invariant adds
  `FitsInv`: each planned delta says of its node what the table holds now, and what it
  removes is closed under children, so the cascade deletes nothing the diff does not list.
  `SkippedFilesStayStored` holds under `LoopConditions`: tools write notes only, and the
  settle time is not zero (the code's is 500ms), so that a file recorded at some mtime
  cannot be edited again with the same mtime. Its invariant says that recorded and walked
  mtimes lie in the past (`TimesInv`), that a purge, a compile and a note touch only the
  rows of deleted files, of changed files and of notes (`LoopInv`), and that a file
  whose recorded mtime is the one on disk is stored as it is (`SkipInv`).
- `StoreTx_proofs`: `StoreTxTypes`, `TransactionsChain`, `RetriesCommitOnce`,
  `BusyNeedsAnotherProcess`. `TxInv` adds `AttemptsLeft` (one that backs off has an attempt
  left), `Locking` (the WAL lock holder is in its transaction and holds its process's mutex,
  and the parent it read is still HEAD), `Calls`, `Done` and `Once` (a call has a snapshot
  exactly from its commit on).
- `Bridge_proofs`: `BridgeTypeCorrect`, `TheRaceLeavesADaemon`. `SomeDaemonSurvives` is not
  inductive: `Winner` says who survives. It is the daemon that changed the database last, or
  the one that listens, and once a compile has committed one that runs or serves; a daemon
  dies only of what another has done, and that one is then the winner.
- `Query_proofs`: `QueryTypes`, `AnswersStayWithinBudget`, `AnswersAreFull`,
  `NodesAreAnsweredOnce`. `QueryInv` adds `FillOK` (what the loop has taken and left
  behind so far), `BatchesOK` (each read has one row per node) and `ReadsAnchor`.
- `Tracker_proofs`: `TrackerTypeCorrect`, `NoRepeats`. `TrackerInv` adds that a node
  delivered within the TTL is marked with an age that is not greater
  (`DeliveredIsMarked`) and that a node about to be pushed is not marked
  (`PushedIsUnmarked`).
- `Algorithms_proofs`. A recursive function is a `CHOOSE` of a solution of its
  equation, and the provers cannot induct over data. The proofs therefore give a closed form
  of each one, show that it solves the equation, and show by induction over a set of natural
  numbers (`NatSet`: a set with 0 and the successor of each of its elements has them all)
  that any solution agrees with it: over the segments left, the rules read, the depth left in
  a document, or the keys left. Where there is no closed form, `Recursion` shows that a
  recursion with a rank that falls has a solution, and the induction is over the rank.

  About `Outline`: `OutlineTypes`, `StackFindsTheParent`, `NumbersArePerFile`,
  `IdsAreUnique`. `OutlineInv` says what the stack means: its frames are headings of the
  file being parsed with rising levels (`StackInv`), and a heading that is not on it was
  closed by one that is (`HeadingsInv`). Nodes of a preamble have parents in the preamble
  (`FrontInv`). That the recursive `Identity` is defined and
  one-to-one is shown along the steps: each node that is made extends the ids of the nodes
  before it (`IdentifiedGrows`), since its parent is one of them and a later sibling has
  a larger number.

  About `IgnoreRules`: `WalksFollowTheRules`, for any tree, globs, rules and numbers of
  `**`. A place of the path is in the function of `MatchPath` exactly when the rest of the
  path can be cut into pieces for the rest of the segments (`FromIsCuttable`); `Match` is the
  last rule that says anything (`MatchExcludes`); a directory is entered when nothing on its
  path closes it (`EnteredOpen`). So the walk is known exactly (`WalkIsExact`), and the
  theorem follows. `IgnoreAssumption` says that paths are sequences of
  names and that what a walk meets is in a directory it can meet.

  About `Split`: `LeavesAreInOneNode`, for documents of any size and depth and any
  threshold. The invariant `DataOK` says that only maps and lists hold values and that
  nesting ends. `buildNode` makes nodes of the values that are promoted all the way from the
  root (`BuildNodeNodes`); a leaf is in the content of the last of them on its path and of
  no other.

  About `TempFile`: `LoadsFollowTheKeys`, for any document. The tree of a set of values has an
  entry for each path that leads to one of them, with the temperature some value gives it
  (`TreeOf`). `insertKey` reports a conflict exactly when the tree and the new values
  give a path two temperatures (`ConflictClashes`, `ClashConflicts`), and otherwise makes the
  tree of both (`MergedIsTree`), whichever key comes last (`InsertStep`), so any order of the
  keys ends in the tree of all of them (`BuiltPart`, `ParseOutcome`). `Resolve` stops at a
  missing entry, below which there is nothing, or at a temperature (`ResolveAnswers`).
  `TempFileAssumption` says that keys are sequences of strings that are not empty and that
  temperatures are none of the model's marks.

  About `SearchQuery`: `RewritesKeepTheQuery`, for queries of any length and nesting. The
  kernel of a text is the text without spaces, quotes and OR. It is the kernels of its
  parts (`KernelConcat`), so trimming, splitting (`SplitKeeps`, an induction over the
  symbols left), quoting and joining keep it, and a rewrite keeps it if the rewrite of
  shorter texts does (`StepKeeps`); `TokenKeeps` is the induction over the length of a text.

  `TermsStayShielded`, by the same induction. A text is safe (`SafeTexts`) if its strings are
  closed, its parentheses outside strings lead from depth 0 to depth 0 and never below
  (`Level`), and outside strings no byte needs quoting and a star follows a term (`Shield`).
  Commas need quotes unless a `NEAR` takes them, so the induction is over queries that have
  not both (`Plain`). Strings of two parts are those of each if the first part closes its own
  (`UnquotedConcat`), so safe texts can be joined, put in parentheses and, after a term,
  starred. A text without quotes is safe in quotes (`QuotedIsSafe`), one of words, spaces and
  columns as it is (`HarmlessAreSafe`). `StepIsSafe` puts them together: parentheses that do
  not match are in a token that is quoted whole.
- `Service_proofs`: `ServiceTypes`, `ServiceCoresDoNotOverlap`,
  `ServiceUnrequestedStopsFail`, all from `ServiceInvariant`: every process but the one the
  entry was last started as has reported that it stopped, and a stage of `Execute` fixes
  what its core and its outcome can be.

Only model-checked: liveness (`RescanConverges`, `ColdNodesArePushed`, `TxReturns`,
`WaitingBridgesAreServed`, `OneServerRemains`, `BridgesEnd`, `StopIsHonoured`, `CommandsReturn`,
`UninstallRemoves`), which needs fairness and ENABLED.

## Not modelled

The decoders of JSON, YAML and TOON and the choice between plain text and TOON for a list;
the text of Markdown blocks; labels, whitespace and token estimates; formatting of
answers: functions without state. The read-only tools MemoryTree, MemoryHistory and
MemoryDelta, each one query whose rows are printed (MemoryHistory prints the oldest rows
first and cuts at its limit). `inspect`, `compile`, `update`, `version` and the benchmarks:
front ends and tools. Power failure: `synchronous=NORMAL` may lose the latest
commits, the model loses none. An ignore file edited while a server runs: the loop keeps
the rules it started with, `MemoryCompile` reads them anew.

## Plan

1. Core: `SourceTree`, `MemoryStore`, `MemoryHub` with `VersionedMemory`; `StoreTx`;
   `Tracker`; `Outline`; `Bridge`; `Query`, with their runs and the theorems above. Done.
2. Extend: `Service`; `Split`, `IgnoreRules`, `TempFile` and `SearchQuery` against
   reference definitions; temperature seeds and reseeding in `Tracker`; restored files with
   old mtimes, crashes and restarts under the rescan loop in `MemoryHub`. Done.
3. Prove, for one server, `NoForeignKeyFailure`, `HistoryIsExact` and
   `SkippedFilesAreStored`; the properties of `Outline`. Done.
4. Prove `WalkFollowsTheRules`, `EveryLeafInOneNode`, `LoadFollowsTheKeys`,
   `RewriteKeepsTheQuery` and `TermsAreShielded`, with the recursive operators as functions.
   Done.
