# itaruby: models, checks and proofs

itaruby is a Ruby type checker in Rust. It runs as a batch command (`ita
check`) and as a language server (`ita server`), and a ruby-lsp add-on drives
the server for editors that talk to ruby-lsp. This directory models the server
and its client, the batch driver, the class index and the checker in TLA+,
checks them with TLC on small instances, and proves the main safety properties
of the server, its client and the batch driver with TLAPS for every instance.

## 1. The system

| Part | Source | State | Operations | Talks to |
|---|---|---|---|---|
| LSP message loop | `crates/itaruby_server/src/main_loop.rs` | `pending`, `cancelled`, `files`, `open`, `warned_out_of_root` | one per message kind; pop, drain, dispatch; shutdown | editor (stdio threads), salsa, worker (channel) |
| Diagnostics worker | same file, `schedule_recompute`, `diagnostics_worker` | the request it works on, with a `Db` clone | receive and coalesce, check, publish | salsa (cancellation), editor |
| Workspace loading | same file, `load_workspace` | `ProjectFiles`, `IgnoredFiles`, `declarations_only` | once, at start | disk, discovery |
| Paths and URIs | same file, `ProjectRoot`, `percent_*` | none | pure | |
| ruby-lsp add-on | `scripts/ruby-lsp-itaruby` | `@mutex`, `@disabled`, `@respawn_attempted`, `@open_documents`, the child | `diagnostics`, `shutdown` | `ita server` over pipes |
| Batch driver | `crates/itaruby/src/main.rs` | chunks, results | parse arguments, check in parallel, report | discovery, semantic crate |
| Discovery, closed world | `itaruby_semantic/src/discovery.rs`, `main.rs` | none | upward search, ignore match, proof that a root is gem-safe | disk |
| Class index | `itaruby_semantic/src/index.rs` | salsa-memoised tables, two caches behind mutexes | resolve constants, linearise, look methods up | syntax |
| Checker | `itaruby_semantic/src/check.rs` | environments while walking a body | infer, narrow, report | index, types |
| Types, core tables | `types.rs`, `core.rs` | none | join, narrowing | |
| Annotation and schema readers | `rbs_comment.rs`, `sorbet_sig.rs`, `schema.rs`, `structure_sql.rs`, `rbi.rs` | none | text processing | |
| Syntax | `itaruby_syntax/src/lib.rs` | `SourceFile` text | `LineIndex` | prism |

What is hard here is the server and its client. The main thread writes to a
salsa database of which the worker holds a clone: a write cancels the check in
flight and waits for the clone to go, while the worker may be blocked sending,
publishing a list computed a moment ago, or dead. Notifications apply at once
and requests queue, so the two overtake each other. Which of three salsa
inputs a file belongs to is decided at load and again at each `didOpen`. The
add-on's client shares one child among several threads, and must survive its
crash, its silence and its late answers. The
batch command splits its files over threads and must print as if it had one.

The index and the checker are sequential, and hard for another reason. Every
diagnostic rests on an absence: no file of the project, no mixin, hook, evaluated
string, ignored file or gem gives this class this method, and no way through the
body gives this local another type. An absence is only as good as the walk that
looked for it, and the ways Ruby has of adding a method meet in combinations no
test enumerates. So those two are modelled as functions of small programs, and
compared with an independent statement of what Ruby does with the same programs.
`PROJECT.json` lists the hazards at their lines.

What makes each part correct:

* *feed*: what the editor is shown is computed from one revision, the current
  one, with the version of the text it is about; and once typing stops, it is
  complete;
* *requests*: answered in order, each once, never about a text older than what
  was sent before the request; cancelled ones say so;
* *inputs*: `ProjectFiles` is the known files less the ignored ones, whatever
  was opened in which order;
* *endings*: no write blocks for ever, both threads end;
* *client*: a call returns, with diagnostics of its own text or none; at most
  one child; after two failures, none;
* *batch*: the report of one thread in path order, an exit code that tells the
  errors, each file in one role, a closed world only where every gem is known;
* *index*: a method or constant called absent is absent, a definition found is
  the one Ruby would call, whatever file comes first; ignored files only silence;
* *checker*: a type holds the values of its expression, an accused call fails.

## 2. Modules

`LspServer` models the message loop, the worker, the database and the editor.
`DiagnosticsFeed` is the abstract specification of the diagnostics half.
`LspServerProofs`, `LspFeedProofs` and `LspRequestProofs` prove about `LspServer`.
`ServerClient` models the add-on's client with the child process as its
environment; `ServerClientProofs` proves about it.
`ClassLookup`, `DefScan` and `ClassIndex` model the class index, `FlowTypes` and
`FlowCheck` the checker, `Discovery`, `LineIndex` and `Cli` the command.
`CliProofs` proves about `Cli`, with `LineIndexProofs` for positions and percent
coding; `FlowTypesProofs` proves about the types and environments of the checker.
`SequenceInduction` has what these need of induction over sequences.
`RubyReference` and `RubyRun` say what Ruby does; they model no code of the
repository. `ClassIndexCorrect`, `FlowCorrect` and `CliCorrect` hold the
properties. The modules whose name begins with `MC` are the ones TLC runs.

```
DiagnosticsFeed <- LspServer <- LspServerProofs <- LspFeedProofs <- LspRequestProofs
ServerClient <- ServerClientProofs
ClassLookup <- DefScan <- ClassIndex, RubyReference <- ClassIndexCorrect
FlowTypes <- FlowCheck <- RubyRun <- FlowCorrect
Discovery, LineIndex <- Cli <- CliCorrect <- CliProofs
LineIndex, SequenceInduction <- LineIndexProofs <- CliProofs
FlowTypes, SequenceInduction <- FlowTypesProofs
```

### LspServer

Texts and versions. The editor numbers its messages; the number of a `didOpen`
or `didChange` is the document version and stands for the text. The server
neither compares versions nor reads texts, it only carries them, so comparing
numbers tells whether version and text stayed together. Text 0 is the text on
disk. A `SourceFile` (`FileId`) is a path plus the occasion of its creation,
since one path can get several `SourceFile`s.

`rev` counts completed salsa writes. A diagnostic may depend on any file of the
project, so a check is described by its file's text and the revision it saw.

| Variable | Code |
|---|---|
| `mpc`, `req`, `note`, `outmsg` | the main thread's position, the popped request, the notification in its salsa setter, the message in `sender.send` |
| `pending`, `cancelled`, `files`, `open`, `warned` | the locals of `message_loop` with those names |
| `text`, `project`, `ignored`, `rev`, `flag` | `SourceFile.text`, `ProjectFiles`, `IgnoredFiles`, salsa's revision and cancellation flag |
| `workq`, `wpc`, `witems`, `wpub` | the work channel, the worker's position, its remaining items, the list it is computing or sending |
| `wire`, `shown`, `resps` | the editor's unread messages, its last list per path, the responses it got |

Actions. `Absorb(m)` is `absorb_message` with `handle_notification`: one
disjunct per outcome of the code's early returns. A notification that writes is
split where the thread can block: `AbsorbWrite` raises the flag, `WriteText`,
`WriteNewFile` and `WriteNewIgnored` complete the setter once `ClonesGone`, and
include the `open.insert` and the `schedule_recompute` that follow. `PopRequest`
and `Dispatch` are the two ends of the drain; between them any number of
`Absorb` steps may happen, and `Dispatch` may happen though `wire` is not empty,
because the reader thread hands over one message at a time. `MainSends` is the
send of whatever the action before prepared. `GetExit` and `NoExit` are
lsp-server's `handle_shutdown`. The worker's actions follow its loop: receive
and coalesce, begin a check (only with the flag down), finish it, be cancelled,
publish, end.

External: the editor (a client that respects open/change/close but may die at
any point), salsa's setters, lsp-server's handshake and threads.

### DiagnosticsFeed

Documents change one at a time, to newer texts, each change a new revision; a
report is of the revision current when it is published, carries that version
and text, and is about a document under review; a list may be withdrawn.
`LspServer` maps `doc` to the text of the file a path is known by.

### ServerClient

`pc[t]` follows a calling thread through `diagnostics` or `shutdown`. Call *n*
passes text *n*. The child reads its pipe in order and behaves as `LspServer`
does towards a client that pulls; its faults (crash, hang, error answer, failed
spawn, an answer slower than the deadline) are bounded by `MaxFaults` and may
strike at any step. It may obey the exit handshake and TERM or ignore them; KILL
works.

### ClassLookup, DefScan, ClassIndex

A Ruby file is a sequence of nodes, prism's tree reduced to the fields the walks
look at. `DefScan` is `parse_defs_text`: `DefWalker` over class and module
bodies (definitions, mixins, macros, hooks, aliases, constants, and the reason
that *opens* a class when something cannot be read) and `FileScan` over every
call of the file (mixins into other classes, evaluated code, patches of core
classes). The statements of a hook or of a branch are read to the code's own depth,
an `else` or `elsif` being one level further down; beyond it, and at a `delegate`
with options the code cannot read, the hook is opaque. `ClassIndex` is `build_index` and `project_index`: fragments interned
and merged in file order, headers reconciled, then the passes over the merged
table in the code's order (schema columns and gems, evaluated strings, concerns,
constants, mixins made elsewhere, core pollution, hooks, ignored evidence). `ClassLookup` holds the queries.
The state is the list of project files, the list of ignored files and the index;
the actions add a file to either list, and the index is recomputed, as salsa does.

`RubyReference` reads the same trees as Ruby would load them, into a *world*: the
statements class bodies execute, each with its class. It over-approximates what
a class may come to answer (every branch runs, every method may be called, an
unreadable call defines anything), so absence in the index is compared with the
most Ruby could do.

### FlowTypes, FlowCheck

A type is the set of its members. `FlowCheck` is the walk of one method body:
state `s` is what the walk changes, context `c` what a construct sets for what is
below it; each expression form is one operator returning type and state, as
`infer` and its helpers do. `c.core` is what the index knows of patches to the core
classes: methods added to named classes, and the additions whose class, name or
kind it could not read, which stand down every conclusion about a class they may
have reached. A call dispatches to instance methods, to singleton methods and `new`
of a class, or to the core tables with the RBIs' additions. The body is written statement by statement and checked
after each (`WriteStatement`), then executed once (`Run`) by `RubyRun` on every
receiver and argument the declarations admit; `trace` holds what happened at each
node, which the properties compare with the report. `RubyRun` marks an execution
`odd` from where it takes a way that the checker knowingly leaves out (section 5);
of the five properties, `OperandFails` and `ContradictionIsReal` speak about odd
executions too.

### Discovery, LineIndex, Cli

A file system is a record of real directories and files with the map from every
spelling of a path to the real one, so symbolic links are explicit. `Discovery`
holds the upward walks, the ignore list and the closed-world decision; `LineIndex`
the position arithmetic over characters of given UTF-8 and UTF-16 widths, and the
percent coding of paths over bytes. The two conversions to a `String`,
`to_string_lossy` before encoding and `from_utf8_lossy` after decoding, are the
substitution the standard library makes: `CharAt` says where a whole UTF-8 character
stands, and bytes that belong to none become U+FFFD, one for each broken beginning
of a character. `Runs` is any set of command lines with their
disks; `RunsAssumption` says only what makes one a run: finitely many files, none
of them a directory, each with a text and diagnostics that start within it (perhaps
inside a character), paths that are sequences of names, directories around every
spelling of a path, at least one job, absolute documents. A run says also whether
computing its index panics (`index_panics`): the thread that computes it unwinds,
and with it any of those that wait, to whom salsa hands the panic on; a thread that
was not yet waiting computes it again and meets the same panic. `WidthAssumption` says that a character has one to four bytes and one or
two UTF-16 units.
Sorting is a choice among the orders that the comparison allows, since equal paths
cannot be told apart. `Cli` is one process:

| Variable | Code |
|---|---|
| `run` | the command line, the disk, and what `check_file` finds in each file |
| `sources`, `ignored`, `found`, `closed` | `ProjectFiles`, `IgnoredFiles`, `DiscoveredSources`, `ClosedWorld` |
| `to_check`, `worker`, `results`, `outputs` | the locals of `run_check`: sorted files, one thread and one collected list per chunk, the joined list |
| `index` | who computes the project index, which the other threads wait for |
| `stdout`, `census`, `exit`, `asked`, `echoed` | what the run leaves behind |

## 3. Runs

| Run | What it shows |
|---|---|
| `feed` | two documents, one on disk and one new, opened, edited, closed: types, at most one live `Db` clone, the live request current, the feed refined, convergence |
| `containment` | a project file, a walked ignored file, a new ignored file and a schema above the root: the two writers of `ProjectFiles` agree, ignored files stay evidence, the feed refined |
| `requests` | three requests with edits and cancellations: order, freshness, cancellation, every request answered |
| `endings` | shutdown, exit, a dying editor, malformed input, a panic, and a workspace whose first ignored file arrives by `didOpen`: writes complete, threads end |
| `client_calls` | two threads, three calls, two faults |
| `index` | every project of one or two of 29 short files, and every third file after one order of each pair, with up to one ignored file among four: absence, first definition, unresolved constants, header order, core pollution, ignored evidence |
| `checker` | every body of three statements (15 x 30 x 13), and under three sets of core patches those that begin with a core value, executed on every receiver and argument: types cover values, accused calls, operations and contradictions fail, accepted arguments fit and accused ones do not |
| `drivers` | families of command lines and disks: gems and RBIs, roles of files, reports over threads and channels, positions in texts of up to three characters, names of one- to four-byte characters and of bytes that are none |

Bounds. `MaxSent` is four or five messages: an edit needs an open before it, a
race needs a second write while the first recompute is alive, and a reopen needs
a close between, so every pair of notifications meets every position of the
worker. `MaxId` is the number of requests: one queued, one draining, one
answered. Two documents are enough for a write of one to cancel the check of
the other. With `MaxFaults = 2` a call and its respawn both fail; with three
calls on two threads another call waits for the mutex meanwhile, and a later
one meets the result. `CHECK_DEADLOCK FALSE` is in every cfg because an idle
server, an idle client, and a process that ended, really stop. No symmetry is used:
the paths play different roles, and the liveness properties would not allow it.

In `index`, three files let one file define a module, a second mix it in and a
third reopen or subclass the class; each text takes one or two ways through the
walks. Every ordered pair of texts is a state, so the two orders of reading are
compared; the constraint `OneOrderGrows` adds a third file to one order of each
pair only (the other order is met behind a first file). `StackDepth` bounds the mutual
recursion of headers and ancestors, `AliasCap` is the code's own limit on alias
chains, and `Fuel` bounds the reference's resolution. In `checker`, the first
statement gives a local its type, the second is every branch, loop, block, guard
or rescue, the third uses the local: the shortest body in which a join can lose a
type. The four patches are none, methods the index can attribute, a core class
opened in ways it cannot read, and one it cannot even name; on a patched core only
the bodies whose local begins as a core value are completed (`PatchedUsesCore`),
where a patch can show. `D` has a `new` of its own, and `Struct.new` makes a class.
Two turns of a loop tell its first turn from the next; two nested calls let
an inferred return type depend on another. In `drivers`, three files over one to
three threads give equal, unequal and single chunks, each with an index that
panics or not. The gem trees are five directories deep with one link, so that roots
lie within the four levels an upward walk visits and beyond them; there are locks
with GEM and GIT sections, Gemfiles without a lock and locks without a Gemfile, an
RBI directory without gems, and projects with RBIs of their own, so each premise of
`ClosedWorldIsEarned` is needed by some tree and met by others. Names have up to
two of twelve parts, or three of five: a percent sign before digits, characters of
every length, a lone byte, a character that breaks off, a surrogate; an editor's
URIs also escape what the server would not, in digits of either case. A stray percent
sign cannot arrive: `lsp-types` parses URIs strictly.

The properties of `index` and `checker` compare two large pure computations at
every state, so `ClassIndexCorrect` and `FlowCorrect` take both sides as constant
operators (`Index`, `Lookup`, `Order`, `Check`, `Execute`, ...), which the cfg
assigns to the definitions that model the code and Ruby (`Index <- project_index`,
`Check <- check_file`). TLC's coverage statistics then count them as one call and
do not unfold them at each use.

Fairness. `LspServer`: weak fairness of each thread as a whole -- the operating
system runs both, and a blocked send ends because the editor reads its pipe or
dies. Nothing is assumed of the editor, nor of a panic. Since the editor's
messages are bounded, a drain ends, as it does in the code whenever the client
pauses. `ServerClient`: weak fairness of each thread (deadlines pass), of a
live child reading, and of KILL; not of the exit handshake nor of TERM. With a
bounded number of calls a thread that waits for the mutex gets it; Ruby's mutex
queues its waiters. `Cli`: weak fairness of the main thread, and of the pool of
workers taken together (some thread that can run does run), which is all the
scope's joins need. The `index` and `checker` runs have no liveness.

Four runs expect a violation. Each states what a comment says of the code and
shows the code doing otherwise; the findings in `PROJECT.json` quote the lines:

| Run | The code |
|---|---|
| `lost_recompute` | a new ignored file cancels the recompute in flight and schedules none |
| `shutdown_exit` | the drain takes the `exit` that `handle_shutdown` then waits for |
| `ignored_schema` | a schema that `--ignore` matches drops out of `ProjectFiles` at the next new file |
| `client_disabled` | a call waiting for the mutex spawns a child after the client was disabled |

The models show four smaller differences from the comments of `main_loop.rs`, for
which no run is kept: the drain stops at the first empty `try_recv`, so an edit
still in the pipe is not absorbed before the answer (line 110); `didClose`
publishes an empty list for declaration files (line 192); `didChange` edits a
schema that lies above the root (line 532); a reopened new ignored file is in
`IgnoredFiles` twice, with two texts (line 696).

## 4. Proofs

Each theorem holds for every value of the constants that meets the assumptions
named with it. An invariant named in section 3 is seldom inductive; what follows
says what had to be added and why.

### LspServer

From `ConstAssumption` and `NoneAssumption`: any set of paths, any classification
of them, any number of messages.

* `TypeCorrect` (`TypeOK`). The invariant is `TypeInv`, the types with
  the slot facts (`note`, `outmsg`, `wpub` are full exactly while their thread
  stands where it fills them), without which the type of what a step reads out
  of a slot is unknown.
* `SnapshotUnique`, `SnapshotStaysCurrent` (`OneSnapshot`, `SnapshotCurrent`).
  `IInv` adds: messages reach the database in order
  (`Ordered`), the version of an open document is the one of its text
  (`OpenIsText`), only reviewable paths have files beyond the declarations
  (`Admitted`), the worker's finished job is what the database says now
  (`JobCurrent`), and an idle worker holds nothing (`IdleIsEmpty`). The argument:
  a write finds no clone, so it starts from no live item; the request it
  schedules is built from the versions and texts it leaves; from then on no write
  completes until that request is gone, so the request stays current.
* `FeedRefinement` (`FeedRefined`). Under `IInv` a document write is an
  `Edit` to a newer text (`Ordered`), a new ignored file is `Evidence`, a
  publication is a `Report` of the present (`JobCurrent`, `SnapshotCurrent`) on a
  document under review (`ItemsReviewed`), the empty list of `didClose` is a
  `Withdraw`, and every other step stutters.
* `RequestsAnsweredInOrder` (`AnsweredInOrder`). A request is in one of five
  places: answered, being sent, popped, queued, on the wire. `QueueInv` says that
  each place is ordered and every id of an earlier place is below every id of a
  later one, so moving a request on keeps the order.
* `AnswersCoverEdits` (`AnswerCoversEdits`). `CoverInv` follows an edit: for every
  request, the newest text the editor had sent before it is in the database,
  in the setter the main thread stands in, or on the wire *before* the request
  (`EditsArrive`); a document is open at the server when its edits arrive
  (`OpensArrive`). A dispatched request has no wire before it and no write under
  way, so the text is in the database. An ended server drops what it has not
  read, hence `~Ended` before those two.
* `ProjectIsTheFiles` (`ProjectIsFiles`) and `IgnoredStaysEvidence`
  (`IgnoredIsEvidence`), under a premise on the workspace: no schema on disk is
  ignored, and no schema is ignored, respectively. Run `ignored_schema` shows that
  the code needs it. `EvidenceInv` adds that an ignored file which `files` knows
  is in `IgnoredFiles` under the same `SourceFile`.

### ServerClient

From `ClientAssumption` (no thread and no text is `None`): any threads, documents,
number of calls and number of faults. `ServerClientProofs!IInv` is `TypeOK /\
ChildInv /\ EditInv /\ AnswerInv`.

* `ClientTypeCorrect` (`TypeOK`).
* `OneChildAlive` (`OneChild`). `ChildInv`: only the thread with the mutex is past
  the lock (`Exclusive`); while it talks to or stops a child the handle is set, and
  where handles are cleaned up nothing runs (`HandleHeld`).
* `RespawnFlagIsSettled` (`RespawnFlagSettled`). `RespawnOwned`: an enabled client
  has the flag set only during the second attempt of the thread with the mutex.
* `GivingUpIsForGood` (`GivesUpForGood`), by the ways a call can return.
* `AnswersAreForMyText` (`AnswerIsForMyText`). `EditInv` follows the documents
  through the pipe: the child knows a document, or will have read its `didOpen`,
  before it reads a `didChange` of it (`ChangesKnown`, `OpenKnown`), and the last
  edit of the pulling thread's document, read or not, is the thread's own
  (`LastEditIsMine`). `AnswerInv`: ids are not reused, and an answer with the id
  waited for is about the waiting thread's text (`MyAnswer`). Answers to earlier
  calls carry smaller ids and are skipped.

### Cli

From `RunsAssumption`: any directory tree with any links, any roots, ignore lists
and number of jobs, any order of the walks and any interleaving of the workers.

* `ReportsLikeOneThread` (`ReportIsSequential`), `ExitCodeTells` (`ExitTells`).
  `Sequential` is what one thread would collect. `CheckInv` has, while threads
  run, `PoolInv`: thread *k* has a prefix of `Sequential`'s share for chunk *k*,
  the whole share once it has finished; the joined threads are the first *j*, and
  `outputs` is `Sequential` up to the end of chunk *j*. The lemma `ChunksCover` is
  the arithmetic: chunks of `ceil(n / jobs)` files follow one another without gap
  or overlap and end at *n*. `IndexInv` says that the thread which computes the
  index still has a file to check, so a panic there loses no finished chunk.
* `EveryFileHasOneRole` (`OneRole`), from `LoadedRoles`: which paths are loaded as
  code and which as evidence, for any order of the walks.
* `OnlyProjectCodeIsChecked` (`OnlyProjectCode`), from `FindsOwnSchema`: the first
  candidate of the upward walk is the root as the caller spells it, so a root's
  own schema is found under the path by which the walk meets it. `ScopeInv`
  carries this from discovery to the start of the threads. The stronger statement,
  that no schema is checked under any spelling of its path, is false of the code
  (section 5, *Drivers*, 3), which is why the theorem speaks of paths.
* `NamesComeBack` (`UriRoundTrip`), for every URI an editor may open a document
  with and every name on disk that is UTF-8. `DecodeEncode`: decoding inverts
  encoding for every byte string. `LossyIsText`: whatever bytes go in, what
  `from_utf8_lossy` makes is UTF-8; `LossyKeepsText`: what is UTF-8 it keeps. So a
  name that has been through it once is not changed by the later conversions, which
  is why an editor's URIs need no premise. `percent_decode` recurses by one or by
  three positions and `from_utf8_lossy` by one to four; `DecodesExists` and `Reading`
  show that their defining equations have solutions.
* `PositionsComeBack` (`PositionsLeadBack`), also from `WidthAssumption`, for any
  text. The arithmetic is in `LineIndexProofs`: widths before a character boundary
  are prefix sums that grow with it (`SumCounts`, `CountsGrow`), `line_starts` are
  the boundaries after a line feed (`LinesStart`), so a boundary has one line and
  one column, which lead back to it (`PositionComesBack`); `offset` stops at the
  first boundary that reaches its column (`PositionNames`). A diagnostic inside a
  character has no position and panics its thread. `PositionInv` says that the run
  then prints nothing: what is collected by a thread, or joined, did not panic
  (`Calm`), and so nothing in a finished report did.
* `ClosedWorldEarned` (`ClosedWorldIsEarned`). The property itself names what the
  code takes for granted (section 5, *Drivers*, 1 and 2), root by root. `WithinReach`:
  the Gemfile at most `Levels - 1` directories up, the lock beside it and no stray
  lock nearer. `RbisShared`: the nearest `sorbet/rbi` has a `gems` directory, and no
  other root finds another `sorbet/rbi`. `Bundle`: the gems of the GEM sections, whose
  names have no dot. The argument: the directories visited contain the nearest
  Gemfile (`NearestGemfile`), the first lock found is its (`FindsBundleLock`), so the
  root is judged by its own gems; and the RBIs it is judged by are those the run
  reads (`GemsBelowRbi`, `ReadsSharedRbis`).

### FlowTypes

For any classes, environments and values; a value is the set of members it belongs
to, its class and what that inherits from. `Fits` says that the type an
environment has for a local admits its value, an unknown local being nil.

* `JoinIsFold`: `join_envs` of the model takes the union over the branches at
  once, the code folds `Ty::union` over them pairwise. The two agree, in any order
  of the branches, for types that are Unknown or free of it, and make such types.
* `BranchesFit`, `LoopsFit`, `NarrowingFits`: the steps by which an environment
  changes where control splits and meets keep `Fits`. Their premises are the
  limits of section 5, *Checker*: a branch knows the locals of its base (a rescue
  need not, 2), and a turn of a loop ends as the walk of its body expects (a
  second turn need not, 1). The walk that puts these steps together is recursive
  and stays with TLC (`TypesCover`).

### Induction over data

The library's induction theorems take a predicate as an operator parameter, which
these provers cannot instantiate. `SequenceInduction` states induction with a
*set* of numbers instead (`UpTo`), proved from the well-foundedness of `<`, and
derives from it that a function with a recursive definition over an interval
satisfies its equation (`Recursion`, `BoundedRecursion`) and what is in a
flattened sequence. This reaches definitions by recursive functions over sequences
(`Keep`, `Schemas`, `Sum`, `line_starts`, `percent_decode`, `FlattenSeq`). It does
not reach `RECURSIVE` operators, nor the `LAMBDA`s of the folds.

### Only model-checked

* The liveness properties `Converges`, `RequestsAnswered`, `CancelTakesEffect`,
  `WriteCompletes`, `ProcessEnds`, `CallsReturn` and `Terminates`, which need
  fairness and `ENABLED`.
* The properties of the index and the checker (`AbsenceIsProven`, `FoundIsFirst`,
  `UnresolvedIsMissing`, `HeaderOrderFree`, `PollutionIsSeen`, `TypesCover`,
  `AccusedFails`, `OperandFails`, `ContradictionIsReal`, `ArgumentsFit`): their walks
  are `RECURSIVE` operators over syntax trees, as in the code. What is proved of the
  checker is `FlowTypes`, the lattice under the walk.

## 5. Differences and premises

Where the models of the index, the checker and the drivers showed the code doing
less than a comment says or than Ruby does, the properties are stated with the
case taken out, by a named premise where it is a condition on the program. No
run is kept for these; a maintainer may want to know them.

*Class index* (`index.rs`)

1. `resolve_superclass_ancestor` and `ancestors` (7740-7760) call each other
   without a guard, although the comment calls the linearisation cycle-safe; a
   nested class whose enclosing class inherits through it recurses without end.
   `StackDepth` cuts the model there.
2. A class with several reasons to be open keeps one per fragment;
   `AbstractRaise` hides `DynamicSuperclass` and `ReopenedExternal` (2543-2562),
   and `abstract_family_defines` does not read the mixins of a descendant.
3. Not read: the `else` arm of `unless`; the `begin`/`rescue` arms of nested
   statements; `private attr_reader :f`; a hook whose body has a rescue; a class-level
   call on a project constant (`A.include(M)`). `alias` with an interpolated new name in
   the body of a project class defines nothing and leaves the class closed, while
   the same statement in a core class or a hook makes that opaque. A nested `def` inside `def self.x`
   is filed on the singleton track.
4. Mixin edges resolve in the nesting of the first fragment, and `resolve_const`
   does not see inherited constants. A module on two places of the chain keeps
   its first occurrence (premise `NoDiamond`). A header written through a constant
   alias makes no edge (premise `Direct`).
5. A module mixed into a singleton class has its `extended` hook run by the index
   and not by Ruby (premise `NoSingletonMixin`).
6. Modules mixed in where only the run knows are read for their literal
   definitions: their openness or `method_missing` covers nothing (`ReadByName`).
   Instance lookup does not reach methods added to Object or Kernel.
7. A module or subclass that only an ignored file writes is in no class table, and
   an ignored file that reopens a core class does not stand E0108 down (premises
   `OnlyReopened`, and `hidden = {}` in `PollutionIsSeen`).

*Checker* (`check.rs`). `RubyRun` marks these ways as odd:

1. a loop's body and condition are analysed with the environment before the first
   turn; states at a `break` or `next` inside a body are lost;
2. a rescue starts from the environment before its body; after `begin`/`rescue`,
   `join_envs` falls back on the environment the body changed, while its comment
   (5092-5094) says it keeps the value before the branch;
3. assignments in the right operand of `&&` and `||` count as executed;
4. a method overridden in a subclass may return another type; a second name of an
   object that was `extend`ed keeps its type.

E0107 counts as candidates only classes that themselves define the method, lists
inherited Object methods that the comment near 4021 says are excluded, and keeps
constraints over a rebinding by a pattern, a rescue or a block, and across
exclusive branches; nor does it look at what the project or an RBI added to a core
class: the premises inside `ContradictionIsReal`. The number of arguments of a core
method is checked by the table even when the project has reopened the class. A
`new` that a class defines itself is taken to return an instance of it, and
`RubyRun` lets it. An open class is
assumed not to redefine what every object has. `respond_to?` guards,
`is_a?(Class) &&` and the flow agreement of operands only suppress; no property
tells their presence from their absence.

*Drivers* (`main.rs`, `discovery.rs`)

1. The upward walks visit four levels, while the comment of `wire_closed_world`
   says anywhere upward (`main.rs` 210-211): a root four levels below its Gemfile
   closes the world. Premise `WithinReach` of `ClosedWorldIsEarned`.
2. With several roots only the first `sorbet/rbi` is wired, and each root's coverage
   is judged by its own; the nearest `sorbet/rbi` may lack the `gems` directory by
   which a farther one certifies coverage. GIT and PATH gems and gem names with a
   dot do not count; a Gemfile without a lock is judged by an outer lock. Premises
   `WithinReach` and `RbisShared`, and `Bundle`, which is the GEM sections only.
   Run `drivers` has trees that close the world unearned when a premise is dropped.
3. Paths are compared as they are spelled. With the roots `w` and `w/l`, where `w/l`
   links to `w/p`, the schema is found as `w/l/db/schema.rb` and the walk of `w`
   reports on it as `w/p/db/schema.rb`, although the comment of `DiscoveredSources`
   says a schema is never code under review. A root that is itself a link to `db`
   does the same, and a file may have both roles under two names. Overlapping
   roots report a file twice.
4. A checked file that cannot be read leaves only a line on stderr and exit 0; a
   census file that cannot be written exits 2 even when there are errors; a
   diagnostic that starts inside a character (in the text format, also one that ends
   inside one) panics the run with nothing printed.
5. An ignore entry is searched as text without overlap (`a/a` is missed in
   `xa/a/a`); the model matches whole names.
6. `LineIndex::offset` with a column past the end of a line gives the start of the
   next. A relative path gains a slash in its URI, and `%+5` decodes. A file on disk
   whose name is not UTF-8 is published under a name with U+FFFD in it, which comes
   back as another path: diagnostics pushed for it belong to no document (the premise
   of `UriRoundTrip`).

## 6. Not modelled

The parsers of RBS comments, sigs, schema, structure.sql and RBI files: text into
tables, without state; the properties would be their grammars over again. The RBI
half of `index.rs` (6551-7521) with its cache, which turns those files into the
declarations the model takes as given. The rows of the core tables: data, given as
constants. In the checker: instance variables, element types, cast comments,
lambdas, RSpec subjects, E0105 and E0106 (E0104 is `check_const_ref` in the index run), the
escalation through RBI, singleton bodies, and the hover, goto and census queries.
In the drivers: relative roots, the gitignore and hidden filter of the walk, the
namespaces of gems, `--verbose` and `--stats`. In the server: the lexical
normalisation of a path before containment. Log messages and formatting, the development
scripts, the registration half of the add-on, and the VS Code extension. Ids a
client reuses, and the text on disk of a closed document, are outside the modelled
editor's behaviour (see the hazards' notes).

## 7. Plan

1. Proofs: the method lookup of `ClassLookup` over a given linearisation, once its
   recursion is written as functions over a finite ancestor graph.
2. The checker's instance variables and singleton bodies; the RBI half of the index.
