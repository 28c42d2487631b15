# Verification of cppcoder

TLA+ models of cppcoder (research mode and the page that draws it, edit mode,
the codebase scanner, the chat server's memory, its streaming proxy, and the
chat page over them), their model-checking configurations, and machine-checked
proofs about them. Paths are relative to the repository; `README.md:n` in the
modules is the repository's README.

## The system

cppcoder drives a local language model (Ollama) over a codebase.

| Part | State | Operations | Talks to |
|---|---|---|---|
| `TaskQueue` | deque of tasks, areas queued, areas visited | `Push`, `Pop`, `MarkVisited` | called by an engine |
| `ResearchEngine` | successful findings, iterations, termination reason | `Research` | keyword call, scanner, worker, judge, queue, event sink |
| `Worker` | a static task counter | `Execute`, `ParseWorkerResponse` | scanner, Ollama |
| `Judge` | none | `Review`, `ApplyJudgeResponse` | Ollama |
| `EditEngine` | proposed edits, apply outcome, iterations | `Run` | keyword call, scanner, editor, patch applier, queue |
| `Editor` | a static task counter | `Execute`, `ParseEditResponse` | scanner, Ollama |
| `PatchApplier` | none; writes files | `Apply` | file system |
| `CodebaseScanner` | none | `Scan`, `FindFilesMatchingKeyword` | file system |
| `OllamaClient` | none | `Generate`, model queries | Ollama over HTTP |
| `JsonUtil` | none | cut the JSON out of a response | - |
| `MemoryStore` | facts, a mutex, one file | `AddFact`, `RemoveFact`, `AllFacts`, `Load` | file system |
| `FactExtractor` | none | `ExtractFacts` | - |
| `ChatServer` | a `MemoryStore` | memory, chat, models and pull handlers on a pool of threads | Ollama, browsers |
| `web/chat.html` | conversation (also in localStorage), `sending`, `currentAbort`, selector, `modelInfo`, banner | send, stop, new chat, reload, load models, select, pull, remember, forget | `ChatServer` |
| `web/index.html` | task tree, callout and status bar drawn from an event log | `applyEvent`; load, step, play | the engines' JSON-Lines events |
| `main.cpp` | none | picks a mode, prints the result, exit code | all of the above |

An engine run is sequential: one loop that pops a task, has the model look at
the task's area and pushes what the model suggests. What makes it hard is what
it does not control: the model may answer anything, any number of times, or not
at all; the clock advances during calls; files may not be valid text; a write
may fail at any of several points; exceptions leave through frames that have
state. The chat server is concurrent: handlers run on several threads around
one store and one file, and the process may end at any moment. The chat page is
single-threaded but full of coroutines: sends, loads of the model list and pulls
overlap, share one set of page variables, and are fed by a proxy whose upstream
may break at any byte. A scan walks a directory that others go on changing.

### What makes each part correct

- **TaskQueue, ResearchEngine**: an area is queued, worked on or visited, never
  two of these and never lost; no lead that was kept is forgotten; the search is
  breadth first; the caps bind; the run ends; the reason it gives is the true
  one; the announced tasks form the tree the visualizer draws.
- **Worker, Judge**: a probe's areas are each investigated once; the judge only
  removes.
- **EditEngine, Editor, PatchApplier**: every edit is accounted for once; a dry
  run writes nothing; the report covers every file that was overwritten; an edit
  replaces the version its author was shown.
- **MemoryStore, ChatServer**: concurrent requests see a store that changes in
  single steps, without duplicates up to case; the file follows the memory; a
  crash costs all of what was acknowledged or nothing.
- **CodebaseScanner**: the packed text keeps within the budget; every file of
  the area is packed, named as skipped or could not be opened; a search misses
  nothing it reached.
- **Chat proxy and client**: a reply kept as complete is complete and stands
  behind its question; a stop is shown only to a user who stopped; the composer
  comes back after every failure, and so does the pool's thread.
- **Model selector**: what is shown as pulled is; no message goes to a model
  that has to be pulled first; the banner fits the selection.
- **Visualizer**: the drawing is the run, whatever was pruned on the way.
- **JsonUtil, parsing**: pure functions; the models take their results as sets.

## Modules

| Module | Role |
|---|---|
| `TaskQueue` | the queue: three variables and one operator per operation, used inside the engines' actions |
| `ResearchEngine` | `Research` with worker and judge; extends `TaskQueue` |
| `AreaSearch` | what both engines promise of a run: areas are discovered, explored at most once, at most `Limit` of them, and the run stops |
| `EventViewer` | the visualizer joined to a research run, event by event; extends `ResearchEngine` |
| `EditEngine` | `Run` with editor, patch applier and the files; extends `TaskQueue` |
| `MCEditEngine` | instance of `EditEngine`: which files an area holds |
| `CodebaseScanner` | `Scan` and `FindFilesMatchingKeyword` over a directory that changes |
| `MCCodebaseScanner` | instance of `CodebaseScanner`: order and sizes of files |
| `MemoryStore` | threads of request handlers, the store, its mutex and file, crashes and restarts |
| `FactStore` | what a running store promises its threads |
| `MCMemoryStore` | instance of `MemoryStore`: keys and extracted facts |
| `StreamProxy` | the server's streaming handlers between Ollama and a browser, on a pool of threads |
| `ChatClient` | the conversation of the chat page; extends `StreamProxy` |
| `ModelPicker` | selector, banner and pulls of the chat page with the handlers behind them |
| `TaskQueueProofs` | lemmas that both engines' proofs use, about the queue and about the order a run counts down |
| `EventViewerProofs` | theorems about `EventViewer`, on top of `ResearchEngineProofs` |
| `ResearchEngineProofs`, `EditEngineProofs`, `MemoryStoreProofs`, `CodebaseScannerProofs`, `ChatClientProofs`, `ModelPickerProofs` | theorems about the module of that name |

`ResearchEngine`, `ChatClient` and `ModelPicker` are checked without a module of
their own for the instance: their constants are plain sets and numbers.

### TaskQueue

`queue`, `queuedAreas` and `visited` are the three members. `Push` keeps the
test of both sets (`Accepts`), `Pop` erases the area from `queuedAreas`, so
that until `MarkVisited` it is in neither set. Both branches of `Push` test and
update the same sets and are one operator.

### ResearchEngine

`pc` names the places between two calls the engine makes: `keywords` (before
seeding), `head` (the loop's condition and its two tests), `work` (in
`Worker::Execute`, one step per area in `rest`), `judge`, `record` (mark
visited and dispatch on the outcome), `push` (the loop over kept directions),
`finish`, `done`, and `aborted` for an exception nobody catches. `Tick` advances
the clock at any point of a run.

The model's answers are existential: keywords reach the loop as any sorted,
unrepeated list of at most `MaxSeeds` files (`SeedLists`); a worker's response
as any outcome, any summary and any list of directions (`ModelAnswers`), also
the mixture an exception leaves half-way; a judge's response as any list of
indices in any order with repetitions (`JudgePrunes`). `JudgePasses` covers a
finding with nothing to prune and a response that cannot be used. The judge's
empty summary is kept apart from a worker's (`"pruned"`), as one property tells
them apart. An area is an element of a set; whether a scan of it finds
something, and something that can be sent as JSON, is a constant of the
codebase, which does not change during a research run.

Left out: prompts, goals and criteria, timing measurements, logging, and the
text of the answer (the call that writes it has a fallback and decides
nothing). `announced`, `leads` and `scans` are history variables: the
`task_queued` events, the directions kept in partial findings, and how often an
area was scanned.

### EditEngine

The loop is the same and the model differs in the middle: `ModelAnswers` gives
edits, each with the version of the file its prompt showed; `Record` marks the
area and starts acting on the edits; `Propose`, `RejectEdit`, `CannotOpen`,
`WriteFails`, `WriteSucceeds`, `FlushFails` and `PathCheckThrows` are the paths
through `PatchApplier::Apply` for one edit (and the dry run's branch);
`EditsDone` merges the outcome of the call into the engine's, which is when the
`edit_applied` and `edit_rejected` events are emitted. A file is its state
(`absent`, `whole`, `torn`) and the number of times it was written to. The lists
of an outcome are kept as how often each names a path (`applied` for the call of
`Apply` under way, `report` for what `Run` has merged and emitted as events; after
an exception the events are what is left of it), and `produced` counts per path
the edits acted on. A file cut off in the middle of a write may no longer be valid
UTF-8 (`CutOff`). Ids and depths of tasks are not repeated here.

The stream of a written file is tested before its buffer has to be flushed.
`WriteFails` is the test failing (content larger than the buffer); `FlushFails`
is the destructor's write failing, after the path was listed as written.

### MemoryStore

A thread receives a request (a list of additions or one removal; a plain
listing is the empty list), carries out its operations one at a time, and
answers with all facts. An operation that changes nothing is one step, since
nothing else can be seen between its lock and its unlock; one that changes the
store takes the mutex, and the save is `SaveOpens` (the JSON is built, the file
truncated) followed by `SaveWrites` or `SaveFails`, or `SaveAbandoned` before
the open. Facts have a spelling and a `Key`, their lower-case form. `Crash`
ends the server's process between any two steps and loses what is in its memory;
`Restart` is the constructor's `Load`. `acked` and `mine` are history variables.

`Answer` stands for `AllFacts` of the listing handlers and of the chat handler
alike; what the chat handler does with Ollama afterwards does not touch the
store.

### CodebaseScanner

`op` chooses one of the two functions. `walk` meets the entries of the area in
any order; each kind of entry is an action (`PassOver`, `Untracked`, `Collect`,
`Unmatched`, `Match`). The one `error_code` of the loop is `ec`: set by
`is_regular_file` for a link without a target, looked at by the test at the head
of the next round (`BreakOff`). `WalkThrows` is the iterator's increment, which
has no error code. `pack` takes the candidates in sorted order: `Unopenable`,
`Skip` or `Include`, with the token estimate of header and content as the code
computes it. Texts are lengths. The engines' modules take what a scan finds as
constants of the codebase.

### StreamProxy and ChatClient

A stream is a sequence of pieces: whole lines, the front and the rest of a line
split by a chunk boundary, the last line, error lines, the end of the body, and
the connection breaking. `proxy[r]` is where the handler of request `r` is:
`queued` for a thread of the pool, `connecting` to Ollama, `relaying`, `ended`.
Ollama and the network choose what comes next: any piece (`OllamaSends`), no
answer or a bad status (`NoAnswer`), the end of the body, or a failure at any
place of the stream (`StreamFails`), which the handler reports with a line of
its own. `Gone` is `sink.write` failing, which cancels the request to Ollama.
Two things are taken from outside `src/`: httplib asks a content provider for
data only while the client is connected, and Ollama ends a body properly only
after its last line or after an error line.

`ChatClient` has one record of locals per call of `send()` (`call[r]`) and the
page's shared variables. A step is what runs between two awaits: `Send`,
`ReadLine` (the reader got a piece and handled its lines), `ReadEnd` and
`ReadBreaks` (the reader is over, with the catch and finally blocks), `Stop`,
`TimerFires`, `NewChat`, `Reload`. The text of a reply is whether there is any.
`AfterLine` is `handleLine` with its buffer: a piece behind the front of an
unfinished line belongs to that line.

### ModelPicker

Loads of the list and pulls are coroutines with a record each; `Refresh`,
`Toggle` (the checkbox for uncensored suggestions), `PullNow` and `Reload` start
them, `ListTags` and `ListFails` are the server and Ollama answering (an answer
of Ollama that the server cannot parse to its end becomes a shorter list), `ApplyList` and `ApplyFailure` what the page makes of an
answer when it arrives, whatever has happened since. `PullFinishes`, `PullFails`
and `PullTears` are the ends of a pull's stream, `ReadFailure`, `ReadSuccess`
and `PullListed` the page's reading of them; a torn error line is read as a
success, since `succeeded` is never looked at. `Choices` is the selector's rule:
remembered model, default, first option. Options whose value is the text of a
placeholder are modelled as such (`Placeholders`).

### EventViewer

Each action of `ResearchEngine` is joined to what `applyEvent` makes of the
events the step emits; the page applies a log from front to back, so a state is
a run as far as it has been played. `nodes` holds parent, depth and status by
id; rejected directions become stubs under ids of the same counter. Layout,
drawing, the code tree and the pipeline's highlights are left out.

## Runs

| Run | Configuration | Shows |
|---|---|---|
| `research` | `EventViewer.cfg` | all properties of `ResearchEngine`, that it implements `AreaSearch`, and that the visualizer draws the run: `GraphMirrorsRun`, `GreenMeansFound` |
| `research_judge` | `Research_judge.cfg` | `KeptAndRejectedAddUp` fails: a repeated index keeps a direction twice |
| `research_evidence` | `Research_evidence.cfg` | `AnswerRestsOnEvidence` fails: answered by a finding the judge emptied |
| `edit` | `EditEngine.cfg` | all properties of `EditEngine`, dry runs and applying runs, and that it implements `AreaSearch` |
| `edit_flush` | `Edit_flush.cfg` | `WrittenIsOnDisk` fails: the flush in the stream's destructor |
| `scanner` | `CodebaseScanner.cfg` | a scan keeps its budget, packs greedily in sorted order and accounts for every file; a search is complete as far as it got |
| `scanner_dangling` | `Scanner_dangling.cfg` | `WholeAreaScanned` fails: a link without a target ends the walk |
| `memory` | `MemoryStore.cfg` | the store implements `FactStore`, answers hold their request's facts, all requests are answered; on a sound disk the file is up to date and a crash costs all or nothing |
| `memory_save_fails` | `Memory_save_fails.cfg` | `AckedOnDisk` fails: a save that fails is acknowledged |
| `chat` | `ChatClient.cfg` | replies stay in place and are whole but for the case below, aborts are attributed, every call settles and every thread comes back |
| `chat_torn` | `Chat_torn.cfg` | `RepliesWhole` fails: the server's error line is glued to a broken one |
| `picker` | `ModelPicker.cfg` | loads, pulls, failures and reloads in any order leave selector, banner and `modelInfo` consistent |

The runs that find a violation state what the repository says of the program;
PROJECT.json quotes the sentences under "findings". Where a weaker property
holds it is checked beside them: `StoredRepliesWhole` for `RepliesWhole`,
`FilesAccounted` for `WholeAreaScanned`, `AllOrNothing` and `FileUpToDate` (on a
sound disk) for `AckedOnDisk`.

### Seen while modelling, without a run of its own

- A file investigated by the probe is not marked visited and may be
  investigated once more as a direction (`Worker.cpp:145-184`); `ScanBudget`
  states the bound that holds.
- A file that is not valid UTF-8 makes `dump` throw outside the `try` block
  (`OllamaClient.cpp:30`) and ends the run without a `complete` event; the
  models end such runs in `aborted`.
- All areas of an editing task are scanned before any of its edits is applied;
  `EditsReplaceWhatWasShown` makes that exception explicit.
- A path that makes the containment check throw (`PatchApplier.cpp:15`) aborts
  the run; edits of the same batch that were written before are not reported,
  and `ReportCoversDisk` says that no others are missing.
- A file may be replaced as a whole by content whose author was not shown it
  (`PatchApplier.cpp:64`); the base `NotSeen` stands for that.
- The field `applied` of the edit engine's `complete` event is true after a dry
  run with proposals (`EditEngine.cpp:262`).
- A success drops the directions that came with it (`ResearchEngine.cpp:247`).
- A crash between truncating and writing the facts' file loses all of them
  (`MemoryStore.cpp:104`); `AllOrNothing` says that it is never a part. The file
  is read only when the server starts (`MemoryStore.cpp:60`), so a second server
  on the same file overwrites what the first one saved.
- After a failed load of the model list the only option's value is its text, and
  a message can be sent to a model of that name (`chat.html:569`).
- A banner stays visible while the list is loaded and when the load fails, and
  its button pulls the selector's value of that moment, which then is the text of
  the placeholder (`chat.html:759`): `PullNow` with a placeholder, a pull that
  Ollama refuses.
- An answer of Ollama that does not parse is logged and passed on as a list that
  is empty or ends early, with status 200 (`ChatServer.cpp:174-183`): models that
  are there are then offered for download.
- Suggested models are selectable options although the comment in
  `chat.html:556-558` says they are shown disabled.

### Bounds

Deadlock is not checked: a run of an engine and a scan end, threads stop after
`MaxRequests` requests, and a page has a bounded number of calls.

- `research`: four areas besides the probe - two probed files, one area that
  scans but cannot be sent, one that does not exist - so that a direction can
  name a probed file, itself, an area already queued and one that yields
  nothing. Three iterations are the probe and two directions, enough for a
  direction found by a direction and for the cap to cut the queue. One
  direction per response suffices, as the two probed files and the judge's two
  indices already give lists of two. The clock is at or before the budget.
  `SizeModulus` stands for 2^64; only differences of at most two are taken.
- `edit`: two files, one that is not valid UTF-8, one that does not exist yet,
  one path outside the root and one that cannot be resolved; two iterations, the
  probe and one direction. A response holds one edit, and the probe of two
  files merges two. `Paths` bounds what the model may name, `Position` fixes the
  order the matches are sorted in. The clock is not a variable here: the budget
  may be found exhausted whenever the loop's head looks at it.
- `memory`: two threads with two requests each, two facts equal up to case and a
  third one, two crashes, so that one can hit what was acknowledged after the
  first. Whether the disk can fail is chosen at the start
  (`failing`): what the file is promised to hold is promised of a sound one.
- `scanner`: eight entries: four tracked files whose sizes fit the budget in one
  order and not in another (the second file does not fit behind the first, the
  third does), an untracked and an excluded file, a directory and a link without
  a target; two files may be locked when opened. `MaxResults` is below the
  number of matches. The walk's order is free.
- `chat`: two requests, one pool thread, so that the second waits behind a
  relayed or an abandoned first one; two pieces under way, so that a line's two
  halves can be there together and a write can block. A stream is as long as
  Ollama likes: its states repeat. Restarts of the server and reloads of the
  page are unbounded.
- `picker`: two models, both suggested, one of them only on demand; two loads and two pulls, each of which
  ends with a load of its own: enough for answers to overtake each other and for
  a pull to end under a load and under another pull.

### Fairness

`WF(EngineStep)`: the engine is one thread that keeps running, and each call it
makes returns - `OllamaClient::Generate` has connection, read and write
timeouts. The clock is under no obligation. `AreaSearch` asks only that the
search stops at some time. In `MemoryStore`, `WF(Work(t))`: a thread that has a
request and can go on does. Nothing is assumed about the order in which threads
get the mutex; a weakly fair thread cannot starve in the model because the
number of requests is bounded, so `RequestsAnswered` says that the mutex is
always released and no thread waits for ever on one that is idle.

In `ChatClient`: `WF(Serve(r))`, as a handler is a thread of the pool whose
reads from Ollama time out after 60 seconds; `WF(Read(r))`, the browser's event
loop delivering what has arrived; `WF(TimerFires(r))`, a timer that is not
cleared expiring. Ollama is under no obligation: it may go on sending for ever, which
the timer ends for the page and the failing write for the server; the user is
under none either. `ModelPicker` and `CodebaseScanner` state safety only and
have no fairness.

## Proofs

Every theorem holds for all values of the constants that satisfy the named
assumptions of the module (sets of areas, files, threads, requests and models of
any size, any caps, budgets and sizes); the runs above show the same properties
on one instance each. `TypeCorrect` is proved for each module first: the other
invariants use it. An invariant that a run checks is seldom inductive; what
follows names, for each theorem, what was added.

`TaskQueueProofs` has no theorem about a run: it has the lemmas on the queue as
a sequence (what `Push` and `Pop` do to its areas, and that they stay distinct)
which both engines use, and the order `Below` on triples of numbers, which has no
infinite descent (`NoEndlessCountdown`).

`ResearchEngineProofs`, from `EngineAssumption` (the probe's name is not a file)
and `BoundAssumption` (types of the parameters):

- `TypeCorrect`. One lemma per action that builds a value (`MergeType`,
  `ModelAnswersType`, ...); the part that is not a type is that `rest` is never
  empty while the worker runs.
- `AreasInOnePlace` (`OnePlace`). Inductive together with `TypeOK`: `Push`
  accepts only an area in neither set and happens only where no task is current;
  `Pop` moves the head's area out of a queue without repetitions, so erasing it
  from the set keeps the two equal.
- `VisitsCounted` (`OneVisitPerIteration`). That `iterations` does not pass the
  cap needs that a task under way was started below it, and that marking adds an
  area needs `OnePlace`. `Counted` adds the first, and a lemma on the cardinality
  of a set with one more element the rest.
- `NothingLost` (`NoTaskLost`). `Remembered` adds that nothing is announced
  before the seed. A push makes its area taken whether it is accepted or refused
  (`PushTakes`); starting a task moves an area from the queue to the task at
  hand, where `OnePlace` is needed, and recording it moves it on.
- `EveryLeadFollowed` (`LeadsFollowed`). `Followed` adds what the program's
  control guarantees: directions are pending only while they are pushed, and
  "drained" becomes the reason only when the queue is empty, so that every area
  taken is a visited one.
- `EngineImplementsSearch`: every initial state maps to an initial state of
  `AreaSearch` and every step to a step or a stutter, with the queue's areas as
  the frontier. `SearchSteps` sorts the actions first: all but four leave what
  the mapping sees unchanged or end the run.

- `ReasonIsHonest`. `ReasonInv` follows the reason through the four places that
  set it: none is set before the loop has been left, a cap only with tasks left
  and its test true, "drained" and its kin only with an empty queue; `AnsweredInv`
  ties `answered` to the list of successes, which the end of the run reads.
- `SearchIsBreadthFirst`. `OrderInv`: depths never fall along the queue, and
  it spans at most the depth of the current task and the next, so that what the
  current task pushes fits behind it.
- `ScansBounded`. `ScanBudget` alone is not inductive: only the probe has a list
  of targets, and it runs first. `ProbeWaits` says that until then nothing has
  been scanned, `RestInv` what the task at hand has still to scan, and `ScanInv`
  joins them.
- `AnnouncedAreATree`. `TreeInv` adds that identifiers never run ahead of the
  counter, that the task at hand was announced, and, for the directions that are
  still only proposals (in the finding or pending), that they are younger than
  their task and that one identifier never names two areas (`Sound`). `Idle` says
  where there are none.
- `ResearchCountsDown`: each step of the engine lowers `Countdown`, the
  iterations left, then the stage of the loop, then the areas or directions left
  in it. Only recording an iteration goes back to an earlier stage, and it uses
  up an iteration, as a task at hand was started below the cap (`Counted`).
  Neither the number of directions nor the clock matters, so a run without
  wall-clock budget is bounded too.

`EventViewerProofs`, from the same assumptions:

- `DrawnRunIsRun`, `DrawnTree`: a run watched by the visualizer is a run, so that
  what is proved of announced tasks holds of what it is given to draw.
- `GraphIsRun` (`GraphMirrorsRun`). `Rooted` says that the nodes are a tree with
  depths, and has a lemma for each thing `applyEvent` does to it: a node added,
  one recoloured, a judgement's stubs, a path turned green. `GraphInv` compares
  the nodes with the announced tasks; `KeyInv` is why a task never meets a stub
  of its own number: stubs are numbers the judge left out, what is still
  proposed never is one, and what the model lists next is numbered after every
  node (`Sound`, `Numbered` from the engine's proofs). `CalloutInv` says whom the
  callout can name between two tasks.
- `GreenIsFound` (`GreenMeansFound`). Lineages are the smallest sets closed under
  parents (`LineageIsChain`), so they do not change when the tree grows
  (`LineageKept`), and that of a task holds only areas already visited, as a
  task's parent was (`AnnouncedAreATree`): a green node is never queued or
  current again.

`EditEngineProofs`, from `EditAssumption` and `EditBoundAssumption`:

- `EveryEditReported` (`EditsAccounted`), path by path, with `Settled`: outside
  the phase that acts on edits, none is pending and the call's lists are empty.
  Listing an edit moves it from the pending ones to one list (`ListingCounts`):
  that a list of edits has one less of a path behind its head is a fact about
  cardinalities, proved by a bijection (`EditsOfTail`).
- `DryRunIsDry`: `DryInv` adds that a dry run's lists of written and failed paths
  stay empty, and an applying run's proposals.
- `ReportIsComplete` (`ReportCoversDisk`): `Covered` says of each file that the
  report and the call's lists together name it as often as it was overwritten,
  and the report alone unless the current task has written to it. It needs
  `Settled` where a task forgets what it has touched, as nothing is left in the
  call's lists there.
- `ShownBeforeReplaced` is a property of steps. `ShownInv` follows the base of
  each edit that waits in the finding or the current batch: it is the version on
  disk, none, or the file has been touched by an edit of the same task.
- `EngineImplementsSearch`: the same simulation as above. `Places` is `OnePlace`
  with the visited area of the task whose edits are under way; `Counted` bounds
  the visits.
- `EditingCountsDown`: as `ResearchCountsDown`, with the edits left as a third
  kind of work; an edit that fails or is rejected leaves one less like any other.

`MemoryStoreProofs`, from `MemoryAssumption`:

- `TypeCorrect` with `BusyThreads`: a thread between two operations has one to
  do. `TypeOK` includes that the mutex is held by exactly the thread that saves.
- `FileFollowsMemory` (`FileUpToDate`): `FileInv` adds that saves exclude each
  other and that no thread runs in a server that is down.
- `CrashLosesAllOrNothing` (`AllOrNothing`): `AckInv` says where an acknowledged
  fact is at every point between the append and the end of the save.
- `AnswersHoldOwnFacts`: `MineInv` says that what a request has added and nobody
  removed is in the store, also while other threads work.
- `StoreIsFactStore`: every step of the threads, the mutex and the file is one
  of the abstract store's, or none.

`CodebaseScannerProofs`, from `ScannerAssumption`:

- `PackingIsGreedy` (`PackedGreedily`). `PackInv` adds that files are looked at in
  the order of their names, so that the tokens before a file are settled once it
  has been looked at, and that `tokensUsed` is the sum over the prompt.
- `BudgetKept`: the estimate of a sum is at most the sum of the estimates, which
  is a fact about integer division; `EstimateInv` adds the empty case.
- `ScanAccountsForFiles`, `SearchMissesNone`: `WalkInv` says for the walk and the
  packing alike that what is found and what is still to come make up the area,
  and that something is left unseen only after an error or a full list.

`ModelPickerProofs`, from `PickerAssumption`:

- `AvailableIsPulled`, `NoMessageBeforePull`: `ListsTrue`, that an answer on its
  way names only pulled models, makes them inductive; no model is ever removed.
- `BannerFitsSelection`, `ButtonUsable`: inductive together, as the banner
  decides which button there is.

`ChatClientProofs`, from `ProxyAssumption` and `ClientAssumption`:

- `TypeCorrect` includes that `sending` and `currentAbort` mean the one call that
  is reading (`Composer`).
- `AbortsAreAttributed`: with `TimersWait`, a timer that fires belongs to the
  call that is current.
- `RepliesStandInPlace`: `Awaited` says that the question of the call under way
  is the last entry unless the conversation was cleared since.
- `StoredRepliesAreWhole`: `Announced` follows an exchange piece by piece: an end
  of the body under way is the last piece, and, unless Ollama completed its
  answer or broke off inside a line, an error line precedes it at the start of a
  line, where the reader will see it. For that it must be known that the place
  behind what is under way is the start of a line whenever the server may write
  an error of its own. `Kept` says that an exchange behind a kept reply is over
  and never changes again.

Two of these rest on what a recursive function computes: the sum over a set of
files and the path from a node to the question. The induction theorems of the
library cannot be used for that, as they take an operator; the proofs argue
from a least counterexample instead (`TotalsAgree`, `OneUps`: two functions that
satisfy the same recursive equation, but differ, would differ first where the
equation makes them equal).

Only checked by TLC:

- liveness: `RequestsAnswered`, `Settles`, `ThreadsReleased`, and that the runs
  of both engines stop, which is part of `ImplementsAreaSearch`; the prover has
  no rules for `ENABLED`. Of the last one the half that is a safety property is
  proved: no run can go on for ever (`ResearchCountsDown`, `EditingCountsDown`);
  that it is never stuck before its end is what TLC checks;
- the safety properties that the code breaks, which are the runs that find a
  violation.

## Not modelled, and plan

- `JsonUtil` and the parsers of the three kinds of response: their results are
  taken as sets that hold every outcome, the half-built ones an exception leaves
  behind included. A module that checks them against a reference over small JSON
  values is the next one worth writing.
- `saveHistory` swallows an exception of `setItem` (`chat.html:503-505`, a full
  `localStorage`): the stored conversation then lags behind the one shown, until
  the next save that succeeds. `ChatClient` stores at every save.
- The memory panel of `web/chat.html`: two answers to `loadMemory` that overtake
  each other (`chat.html:661`). Two tabs that share one `localStorage`
  (`chat.html:504`) are left out as well.
- `FactExtractor`'s regular expressions: a constant names the facts of a message.
- `main.cpp`: option parsing and printing; it builds one engine or the server and
  keeps no state.
- `MemoryStore`'s and the scanner's path resolution, hardware detection and the
  table of suggested models, static files: lookups without state.
- Layout, drawing, the code tree, the pipeline's highlights and the playback
  controls of `web/index.html`; rendering and the status line of the chat page.
- How far a run passes its wall-clock budget inside one task, and what Ollama
  does with a prompt larger than its context: real time and the model's own
  tokens are outside the models.
- Logging, the examples, the scripts, and vendored code.
