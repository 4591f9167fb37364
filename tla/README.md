# Verification of Oberih

Oberih is a programming language whose functions declare how they survive failure (deadlines,
retries, circuit breakers, limits, fallbacks). This directory holds TLA+ models of its
implementation (the Rust crate under `src/`), the TLC runs that check them on small instances, and
proofs that hold for every value of the constants. Paths below are relative to the repository;
`vm/mod.rs` stands for `src/vm/mod.rs` of the crate, not for the older crate in the directory `vm/`.

## The system and its components

The command line (`main.rs`) loads a program and the files it imports (`module_loader.rs`), with
packages named by a manifest (`manifest.rs`) and fetched by `deps.rs`; `lexer`, `parser`,
`typechecker` and `compiler` turn it into instructions, and one VM (`vm/mod.rs`) executes them on
one thread. Everything that happens at the same time as that thread (network requests, incoming
HTTP connections, signals) reaches it as an event in one channel.

| component | state | operations | what is hard, and what makes it correct |
|---|---|---|---|
| Scheduler (`vm/mod.rs` 391-518, 879-1117, 1257-1361, 2000-2124) | task slots, ready queue, timer heap, waiters, free slots, requests in flight and queued, the stack of nested loops | spawn, join, sleep, network request, call of a resilient function or callback (nested loop), cancel at a deadline, wake-ups | interleaving of tasks across nested loops, reuse of slots, stale timers and late answers, deadlock detection: no wake-up lost, nobody else's answer, deadlines inherited, deadlocks real |
| Resilience wrappers (`vm/mod.rs` 756-876) | per function: circuit, rate window, bulkhead counter; depth | call, attempt, retry, fallback, reject | a call's counters are changed by other calls while it is in progress; every path gives back what it took, limits hold, calls end |
| HTTP server (`http_server.rs`, `vm/mod.rs` 1119-1255) | active connections, stop flag, registry of handlers, grace period | accept, refuse, request, handler, stop, abort, signal | five kinds of threads and a stop at any moment; every client answered, `serve` returns, and not too early |
| Lexer, parser (`lexer/`, `parser/`) | position in the text | tokens and comments, syntax tree | precedence, lines of nodes and comments: the formatter must print what they read back |
| Typechecker (`typechecker.rs`) | signatures, errors, type arguments by variable name | check a program | state kept from one function to the next; accepted programs do not fail |
| Compiler (`compiler/`) | code, locals, pending jumps | one per construct | every path leaves the same stack; slots, captures and jumps agree with the VM |
| Virtual machine, values, standard library (`vm/mod.rs`, `gc.rs`, `stdlib*.rs`) | frames, operand stacks, heap | one per instruction, built-ins, callbacks | programs give what they mean, also across calls, callbacks, `match` and `?` |
| Formatter (`formatter.rs`) | text written, comments left | print a program | the program and its comments stay what they are; a second pass changes nothing |
| Command line, test runner (`main.rs`, `test_runner.rs`) | the file or project, the exit code | run, check, test, fmt, init, add, and commands that only print | commands one after the other on what earlier ones left |
| Module loader (`module_loader.rs`) | files visited, definitions, references | load, check visibility | cycles and diamonds of imports, private names |
| Dependencies (`deps.rs`) | a clone per git dependency on disk | clone, fetch, reset, checkout | pins, pushes in between, failures and crashes between two commands of git |
| Manifest (`manifest.rs`) | `oberih.toml` | find, parse, print, write | a round trip at every `add`, a write in two steps |
| Garbage collector, ordered map (`gc.rs`) | registry of objects, map entries with tombstones | insert, remove, compact, collect | compaction keeps order and lookups; collection frees only what is unreachable |
| HTTP client (`http_client.rs`) | none | blocking request with timeouts | always answers (Scheduler relies on it) |
| REPL (`repl.rs`) | declarations and values of the session, history | evaluate a line | handles of an earlier line's VM, collection between lines |
| Regular expressions (`regex.rs`, `regex_ops.rs`) | thread lists of a Pike VM | compile, match | priority of threads equals leftmost-first matching |
| JSON, explain, diagnostics, docs | none that lives on | pure functions of their input | tested by examples |
| older Rust VM (`vm/`), Python prototype (`oberih/`) | as above | superseded | not part of the shipped binary |

How they interact: `run_task_until_suspend` executes instructions of one task and calls the
resilience wrappers, which push a nested `drive_until_done`, which picks further tasks. Network
workers and connection threads send events to the channel of the VM, which `drain_io` handles
between two tasks. Handlers of requests are tasks; the server ends through `maybe_finish_stop`,
called from wherever the last of them ends. The tools before the VM are a pipeline over one text,
and share the disk with earlier commands: the file `fmt` writes, the manifest `init` and `add`
write, and the clones in `.oberih/deps`.

## Modules

Four families, each composed by the module named in bold.

| module | what it is |
|---|---|
| **`Scheduler`** | tasks, timers, network requests, nested loops and deadlines |
| `SchedulerInvariant` | its inductive invariant `IInv` |
| `SequenceFacts` | facts about `Append`, `Tail` and the front of a sequence, induction up to a number, and that functions defined by recursion exist; used by all proofs |
| `SchedulerProofs`, `SchedulerTheorems` | the proofs: types, control, waiting, stack and free slots; network, deadlines, end, and the theorems |
| **`Resilience`** | the wrappers, with the calls in progress as a stack |
| `ResilienceInvariant`, `ResilienceTheorems` | its inductive invariant, and the proofs |
| `RequestService` | abstract specification: what `serve` promises |
| **`HttpServer`** | the server in detail, refining `RequestService` |
| `HttpServerInvariant`, `HttpServerTheorems` | its inductive invariant, the proofs and the refinement |
| `Lexer`, `Parser`, `Trees` | text to tokens, tokens to trees, walks over trees |
| `Typechecker`, `Compiler`, `Formatter` | what the tools make of a tree |
| `Values`, `Machine` | values, heap and built-ins; the instructions of one task |
| `Meaning` | abstract specification: what a program means, evaluated on its tree |
| **`Toolchain`** | commands on a file: run, check, test, fmt |
| `Manifest`, `Paths` | `oberih.toml`; paths of the file system |
| `ManifestTheorems` | proof that a manifest is read back from its text |
| **`Packages`** | commands on a project: init, add, run, with git, pushes, failures and crashes |
| `PackagesInvariant`, `PackagesTheorems` | its inductive invariant, and the proofs |
| `ModuleLoader` | imports and private names, and what loading promises (`IsComplete`) |
| `LoaderTheorems` | proof that loading gives what it promises |
| `Texts` | strings read as the characters of the lexer, for instances |
| `MCScheduler`, `MCResilience`, `MCHttpServer`, `MCToolchain`, `MCPackages` | values of constants for TLC |

The operators preceded by a comment "Mutant:" are faulty variants of the definition that follows;
they are used by nothing, and show that the property named for them notices the fault.

### Scheduler

One interpreter thread does everything but the network requests, so an action is a piece of its
work between two points where the clock may advance or a worker may answer. `pc` says where the
thread is: `head` of `drive_until_done`, `drain`, `wake`, `pick`, `run`, `notify` (waking the
joiners of `finished`), `wait` (blocked) or `halt`. `drives` is the stack of `drive_until_done`
calls on the Rust stack, with the caller's task and the deadline each call saved. The other
variables bear the names of the fields they stand for; a deadline of `Never` is `None`, `result` is
`ok`, `err` (an error propagated by `?`, timeouts included) or `fail` (any other error).

| actions | code |
|---|---|
| `Call`, `CallTooDeep`, `SpawnTooDeep`, `Leave`, `Resume`, `PushFinished` | `exec_with_timeout`, `exec_frame_inner`, `exec_with_resilience`, `Instr::Spawn` of a resilient function |
| `DriveReturns`, `DriveCancels`, `DriveContinues`, `Block`, `ReceiveIo`, `WakeUp`, `ReportDeadlock` | `drive_until_done`, `cancel_with_timeout` |
| `DrainIo`, `DrainEnds`, `DeliverIo`, `StartIo`, `WorkerAnswers` | `drain_io`, `deliver_io`, `start_io` and its worker thread |
| `FireTimer`, `TimersFired`, `PruneTimers` | `wake_ready_sleepers`, `earliest_wake` |
| `PickTask`, `SkipStale` | `pick_ready_task`, start of `run_task_until_suspend` |
| `Spawn`, `SpawnOverLimit`, `JoinBlocks`, `JoinReturns`, `Sleep`, `HttpRequest`, `TaskEnds` | the instructions, and the end of `run_task_until_suspend` |
| `NotifyWaiter`, `AllNotified` | `wake_waiters_on` |

Abstractions. What a task computes is a free choice among those operations, `Fuel` times. A
callback is a call without a deadline; a retry is its caller calling again. No server runs (`server`
is `None`; `HttpServer` covers it). Of two equal timers of a task one is kept. The clock may advance
between two timers of one `wake_ready_sleepers`, which reads it once: more behaviours than the code
has. The wait of at most an hour on the channel is not timed.

### Resilience

`calls` is the stack of calls in progress; the scheduler loop that a waiting body runs may start
other calls on top, so any function may be called while the innermost call is in its body. Time
advances anywhere. `AttemptSucceeds`, `AttemptFails`, `Retry` and `GiveUp` are the four ways an
attempt ends in `exec_with_resilience_inner`; `CallCompiled` decides in the code's order: circuit,
rate limit, bulkhead, depth. A fallback is called like any function, its caller still in progress.
`admitted` and `opened` are history variables. A modifier may be absent (`Absent`) or 0, which the
code accepts: a threshold of 0 opens the circuit at the first failure, a limit or maximum of 0 lets
no call through.

### HttpServer

The network side: clients (`Connect`, in the backlog, reset), the accepting thread (`Accept`,
`Refuse`, `AcceptorEnds`), a thread per connection (`SendRequest`, `BadRequest`, `WriteReply`,
`HandlerTimeout`), signals. The interpreter side: start and stop (`StartServer`,
`RequestServerStop`, `MaybeFinishStop`, `IdleEnds`), requests (`RefuseRequest`, `StartHandler`,
`RunHandler`), the end of the grace period (`AbortServerTasks`), and of the scheduler what the
server meets: nested loops, tasks picked in any order, handlers that suspend, call and end.
`Refuse` merges the count going up and down again when no thread can be started. The connection
`stop` makes to wake the acceptor is taken to arrive: it is tried for a second only, and if the
backlog is full the acceptor ends with the next client instead. A send to the channel never fails
while the process lives. Parsing of requests and writing of responses are one step each.

`RequestService` says: a request is answered at most once, a handler begins only while the service
is up, and `serve` returns only when every request being handled has been answered. The refinement
maps a request to `handled` while its task is in `server_tasks`, to `answered` once something was
sent on its reply channel. A handler with modifiers runs inside `on_http_request` and is in no
registry: the server may return from `serve` while it is at work, and the abstract service does not
count it as being handled. `StoppingAnswersEverybody` makes the same exception: once the server stops,
every request that was sent gets an answer of the interpreter or the 504 of its own thread, and the
latter alone only while its handler runs in a loop of its own, which may never return.

### Toolchain

`Toolchain` is the life of one source file under up to `MaxCommands` commands. `Lex`, `Parse`,
`Check`, `Compile`, `StartCall`, `RunStep` (one instruction), `EndCall`, `EndCalls` and `Format` are
the stages the commands of `main.rs` and `test_runner.rs` go through; each stage is the whole pass,
given by the operator of the pass's module, and any error ends the command.

* `Lexer` and `Parser` keep every token, production, precedence and line. A text is a sequence of
  characters; a run of letters counts as one. The parser's straight-line functions are written as
  forms (`Fill` reads the elements of one in their order), its loops as recursive operators. An
  error is the place where the parse stopped.
* `Typechecker` is both passes over a program. What the type arguments of a variable of a generic
  struct are is kept by the name of the variable alone, as in the code. An error is its kind.
* `Compiler` gives the instructions of every construct but `spawn`, with slots and addresses that
  count from 1, and the captured names of a lambda in their order.
* `Machine` executes one instruction per step, with the explicit stack of frames, the frames of
  built-ins that call back (`map`, `filter`, ...), the boundary of `call_fn`, and the limit on the
  depth of calls. Instructions that reach the scheduler belong to `Scheduler`.
* `Values` has the heap and the built-ins; numbers are integers.
* `Formatter` prints every node with its precedence and merges the comments back by line.
  Indentation is left out: it is not read back.
* `Meaning` evaluates a program on its tree, with lexical blocks, values captured where a lambda is
  made, and `?` as a return from the function that holds it. It has no slots, jumps or operand
  stack: it is the abstract specification the outcome of every call is compared with.

The properties have preconditions, and each names something the code does otherwise:

| precondition | why |
|---|---|
| `MatchAmongOperands` | a `match` after an operand that waits leaves a value below its result: run `match_stack` |
| `TryInCallee` | `?` in a called function ends the whole task: run `question_mark` |
| `RebindsNames` | a function has one list of locals; binding a name again in an inner block rebinds the outer one |
| unbound names (`Meaning`) | the compiler takes a name nothing binds for a global function, and the program fails when it is reached |
| `SharesGenericVariable` | the type arguments of a generic struct's variable outlive its function (hazard at `typechecker.rs:296`): a later function that has a parameter or another variable of that name sees them, which is excluded; one that makes the variable anew replaces them, which is checked |
| `Printable` | `fmt` prints `-(5)` as the literal `-5`, escapes no pattern and no path, and prints a map at the start of an arm or lambda so that it reads as a block |
| `CommentInsideAStatement` | a comment on the first line of a statement with a block inside moves behind the statement |

### Packages

A project, the remote repositories and the cache of clones. A command is a sequence of steps between
which others may `Push`, git may fail (`GitFails`), or the command may be killed (`Crash`): resolving
is `ResolvePathDep`, `UsePinned`, `Fetch` and `Reset`, or `StartClone`, `EndClone` and `Checkout`, one
action for each command of git; `fs::write` is `Truncate` and `WriteFile`. git itself is outside of
the repository and modelled by what `deps.rs` asks of it: a clone has an address, the commit its tree
is at and the commit it fetched. A process killed in `git clone` leaves the directory as it is,
removed, or completed. `Manifest` works on characters where the round trip depends on them: quoting,
escapes, separators inside quotes, comments. Its loops are scans (`Scan`): a function from what was
read so far and the next character, or part, or line. The set of characters is a constant, in the
instances all strings, so that a run of letters may count as one. `ModuleLoader` is the depth-first walk of
`module_loader.rs` with its resolution of paths and the check of private names. It is a recursive
function of a depth, which the number of files bounds because no file is entered twice. An item is
its place, the file and its number there, so that two items that look alike are told apart.

`Packages` and `ModuleLoader` take the language as two constants, which may be any operators: the
parser (`ReadProgram`) and the names a body mentions (`RefsIn`). The instance gives them `ParseText`
and `NamesIn` of `Trees`. So what is proved of the commands and the loader holds for any language, and
neither module uses a recursive operator.
Three variables are history: `seen` (the remote when the command began), `used` (the commit of each
dependency that the last good run used, 0 since somebody began to add one of that name) and
`recorded` (what was added, the last one of each name).

`ImportsAreComplete` compares the walk with a statement about reachability that has no walk in it
(`IsComplete`): the files reached are the least set that holds the file and the imports of its files;
loading succeeds just when all of them can be read and none mentions a name that others alone define,
all as private; and then it gives every declaration of every one of them exactly once, those of a
file in their order, with no `main` but that of the file itself. The order of the files among each
other is not stated.
`ManifestKeepsWhatWasAdded` holds whenever the manifest can be parsed at all: a `#`, also inside
quotes, or an end of line cuts a value off, and then it cannot. `RevisionIsExact`
is about a tree that was last set for the entry in force (`made`), and `UnpinnedIsUpToDate` about a
clone of the address in force: a clone left by another entry, or between `git clone` and
`git checkout`, is taken as it is. Such a run uses another version than its pin names, so no true
property can speak of it but that the next run uses the same (`PinnedStaysPut`); that it is wrong is
what `PinNamesTheVersion` says, which `pinned_version` refutes.
`PinnedStaysPut` ends with an attempt to add another dependency of the name, not with its success:
`add` fetches and resets the clone, which belongs to the name, before it saves the manifest
(`deps.rs:48`, `main.rs:373`). An `add` of the same name without a pin that is killed or fails in
between leaves the manifest with the pinned entry and the clone at another commit, which the next run
uses. Three commands are too few to meet this; the proof did.

## Runs

| run | bounds | what it shows |
|---|---|---|
| `scheduler` | 3 slots, 3 tasks, depth 3, 1 request in flight, time 0..2, budgets 1 and 2, fuel 2 | `NoLostWakeup`, `FreeSlotsAreUnreferenced`, `IoPoolIsAccounted`, `ProgramDeadlockIsReal`, `CalleeHasStricterDeadline`, `CancelledStaysDone`, `AnswersReachTheirTask`, `DoneIsFinal`, and `IInv` |
| `scheduler_liveness` | 4 slots, 4 tasks, depth 3, time 0..1, fuel 1, `sleep(0)` free | `NeverHangs`, `NobodyStarves` |
| `scheduler_false_deadlock` | 4 slots, 2 tasks, time 0, fuel 3 | counterexample to `DeadlockIsMutual` |
| `scheduler_lost_deadline` | 3 slots, 2 tasks, time 0..2 | counterexample to `DeadlinesAreInherited` |
| `resilience` | 3 functions, depth 3, time 0..3, 5 calls by bodies | `CountersMatchCalls`, `CooldownIsRespected`, `BelowTwiceTheLimit`, `EveryCallReturns`, and `IInv` |
| `server` | 2 connections, limit 1, every kind of handler, fuel 1 | `ActiveIsAccounted`, `ImplementsService`, `StopCompletes`, `StoppingAnswersEverybody`, and `IInv` |
| `server_abort` | plain handlers, fuel 2 | counterexample to `AbortedStaysDone` |
| `toolchain` | some 880 programs, 4 commands, 2 of them in a row, call depth 8 | `CallsAsMeant`, `AcceptedCoreProgramsSucceed`, `FunctionsAreCheckedAlone`, `FormatKeepsTheProgram`, `FormatIsIdempotent`, `FormatKeepsTheComments` |
| `match_stack` | programs with `match`, run once | counterexample to `MatchLeavesItsValue` |
| `question_mark` | programs with `?`, run once | counterexample to `TryReturnsFromItsFunction` |
| `packages` | 41 projects, 2 commits, 3 commands, 1 crash | `RecordedDependenciesResolve`, `ManifestKeepsWhatWasAdded`, `UnpinnedIsUpToDate`, `RevisionIsExact`, `PinnedStaysPut`, `ImportsAreComplete`, and `IInv` |
| `pinned_version` | 4 git projects, 2 commits, 2 commands | counterexample to `PinNamesTheVersion` |

Each passing run checks the type invariant of its module too.

Why the bounds are enough to be of interest. Three slots hold the main task, a task it spawns or a
body it calls, and a body called by that one: a slot is freed and taken again while another task is
in use, and three nested loops are the least in which a loop in the middle belongs to another task
than those around it; the fourth slot of `scheduler_liveness` lets two tasks be nested at once. With
one request in flight a second one queues. Two operations per task let a task wait, be woken and wait
for something else while the entry of its first wait is still in a queue. Time 0..2 allows a deadline
inside another. In `resilience` the period and the cooldown are shorter than the clock, so windows and
circuits open and close again; five calls suffice for two in progress, a third that changes the
counters of the first, and a fallback, and for two windows of the rate limit of two to add up: three
calls in one period, which is the bound of `BelowTwiceTheLimit`, and a fourth to break it. Two connections with a limit of one exercise refusal, and one
request in a handler while another is in the channel.

The programs of `toolchain` are families: three operands with every pair of operators, with and
without parentheses; every kind of value on both sides of an operator; the well and ill typed sums of
the core language; every statement, pattern, callback and modifier; comments in every place of a
tree. Two commands suffice for `fmt` to be followed by anything. Three commands of `packages` are two
`add` and a `run`, or an `add` and two `run`; two commits are before and after a push, and the
projects hold every kind of source, a name whose source changes, paths the manifest must quote, and
imports that form chains, diamonds, cycles and self-imports. Every action of the models fires in the
passing runs.

### What the counterexamples say

* `scheduler_false_deadlock`: a resilient call in one task drives another task's resilient call; the
  inner body joins the outer caller after the outer call has ended. The inner loop reports a mutual
  deadlock (`vm/mod.rs:1050`), though the outer task could go on.
* `scheduler_lost_deadline`: a deadline is inherited through the running task only
  (`vm/mod.rs:895`); a callback's task has none.
* `server_abort`: a handler running below the loop in which the grace period ends is marked done and
  later goes on (`vm/mod.rs:1234`).
* `match_stack`: `100 + match (1) { 1 => 2 }` is 3. The instructions that compare with a literal or a
  variant keep the scrutinee under their verdict, and the arm never drops it (`compiler/mod.rs:619`).
* `question_mark`: when `f` holds a `?` that meets an `Err`, the caller of `f` does not go on either:
  the `Err` is the result of the whole task (`vm/mod.rs:1627`).
* `pinned_version`: a tag is never checked out; and a clone that exists is taken for what any pin of
  that name says (`deps.rs:48`, `deps.rs:71`).

## Fairness

* `Scheduler`: weak fairness of the interpreter thread, of the clock, and of every worker: the
  operating system runs threads, time passes, and a worker always sends an answer, because the HTTP
  client has timeouts and `start_io` catches panics and reports a thread that cannot be started.
  Nothing is assumed of the choices of tasks.
* `Resilience`: an attempt ends, and the call goes on after it. Nothing makes bodies call.
* `HttpServer`: the threads run, the grace period passes, a handler that runs ends or waits. A
  connection thread waits for nothing without a limit: its socket has `IO_TIMEOUT`, and the answer
  of the handler `HANDLER_TIMEOUT` (`http_server.rs:368`), so each of them is fair, its 504 included.
  Nothing assumes that what a handler waits for ever comes, that its nested loop or call returns, or
  that anybody stops the server. A handler with modifiers need not have a deadline: only a
  `resilient fn` must (`typechecker.rs:227`).
* `Toolchain` and `Packages` state none: a command is a finite sequence of steps with no one to wait
  for, and programs that run for ever are allowed to.

## Proofs

Checked by TLAPS with Z3, Zenon and LS4.

**Scheduler**, from `ConstantsAssumption` only (positive numbers of slots and workers, natural
bounds): `SchedulerTheorems` proves `Spec => []IInv` and from it `TypeOK`, `NoLostWakeup`,
`CancelledStaysDone`, `AnswersReachTheirTask`, `IoPoolIsAccounted`, `CalleeHasStricterDeadline`,
`ProgramDeadlockIsReal`, `FreeSlotsAreUnreferenced` as invariants and `DoneIsFinal` as an action
property. Why a stronger invariant is needed: that a suspended task will be woken depends on the
phase of the thread (in `notify` the joiners of `finished` are still to be woken; in `wait` the
timers have been pruned), and that a freed slot is unreferenced depends on who owns a slot, which is
read off the stack of loops. The conjuncts of `IInv`, besides the properties themselves:

* `PcOK`: in which phase there is a current task, or one whose joiners are being woken, and the shape
  of the stack of loops;
* `SlotsOK`: slots beyond `len` are absent, a handle refers to a slot that exists;
* `StackOK`: each loop's target is not the target of another one, has no handle, and its caller is
  running; a running task is current or waits for a loop on the stack;
* `FreeOK`: free slots are distinct, done, not cancelled, and nobody's target;
* `IoOK`: a task has at most one request outstanding, in one of the queue, a worker or the channel;
* `DeadlinesOK`: deadlines saved in the stack are those of the callers;
* `EndOK`: an exit value is there only once the program has ended, and every sleep has an end.

One lemma shows that each step preserves each group (`TypeStep`, `PcStep`, `SlotsStep`,
`WakeupStep`, `StackStep`, `FreeStep`, `CancelledStep`, `IoStep`, `IoPoolStep`, `DeadlinesStep`,
`EndStep`, `DeadlockStep`), by cases on the actions; `IInvStep` puts them together.

**Resilience**, from `ConfigAssumption` only (any set of functions with any modifiers):
`ResilienceTheorems` proves `Spec => []IInv`, and from it `TypeOK`, `CountersMatchCalls`,
`CooldownIsRespected` and `BelowTwiceTheLimit`. Given the types, only the second
is inductive as it stands. `CircuitOK` ties
`openUntil` to the time the circuit was last opened: it ends one cooldown later, or has been closed
by a call that came after that. `WindowOK` says that the window of a rate limit holds the last
`count` calls let through, and `SpacingOK` that of as many calls in a row as twice the limit the last
one came more than a period after the first, with the step between that makes it inductive: the call a whole limit
before the window came more than a period before the window began. A lemma for each variable group
says in which ways a step may move it (`CallMoves`, `CircuitMoves`, `RateMoves`, `ClockMoves`), so
that the preservation lemmas have a case per way instead of one per action. `PassedBound` turns the
spacing into the bound on the number of calls: those of one period are in a row, and twice the limit
of them would be too many to fit.

**HttpServer**, from `ServerAssumption` only (any connections, any limit, any kinds of handlers):
`HttpServerTheorems` proves `Spec => []IInv`, from it `TypeOK` and `ActiveIsAccounted`, and
`Spec => ImplementsService`, the refinement of `RequestService`. The parts of `IInv`:

* `ControlOK`: a handler runs only if one is current, also when the wait for the connection threads is
  over, and that wait begins only when the server is gone;
* `ServerOK`: `serve` has not returned while there is a server, and there is one while the registry
  holds a handler;
* `PlacesOK`: a request that was sent is in the channel, in the registry or in a loop of its own, in
  one of them only, and once;
* `UnansweredOK`: while it is there, or was not sent yet, it has no answer.

`RequestMoves` says that a step leaves a request where it is, or sends it, begins its handler (in a
task or in a loop), or answers it; the last two conjuncts and the refinement follow from that by
cases. A step that begins a handler is `Take`, which `ServerOK` allows; `serve` returns only with an
empty registry (`NothingLeft`); any other step answers a set of requests, perhaps empty, of which
`UnansweredOK` says that none had an answer.

**Packages**: `PackagesTheorems` proves `Spec => []IInv`, and from it `TypeOK`,
`RecordedDependenciesResolve`, `ManifestKeepsWhatWasAdded`, `UnpinnedIsUpToDate` and `RevisionIsExact`
as invariants and `PinnedStaysPut` as an action property: for every set of projects, repositories,
branches, tags and revisions, for every number of commands, crashes and commits, and for any language;
and, for a language whose programs are lists of items, `ImportsAreComplete`.
The assumptions: `BoundsAssumption` (there is a first commit), `RemotesAssumption` (there is a branch
main; tags and revisions name commits) and `ProjectsAssumption`: the dependencies a user may add are
of known repositories and branches and have a name that stands for itself (`PlainName`: no spaces at
its ends, and no `#`, `=` or end of line), and a project has finitely many files and brings a manifest
without dependencies. The
condition on names is needed and the code does not check it: a dependency called `a b = ` would be
read as another one. The parts of `IInv`:

* `WorldOK`: types; no branch is older than what the command has seen of it;
* `WorkOK`: what is left to resolve belongs to the manifest at work, names are distinct, and each stage
  belongs to a command that has it;
* `WritesOK`: `add` has one file to write, the manifest it has resolved; `init` has its two files, and
  writes a manifest only where nothing was recorded;
* `DiskOK`: a manifest on the disk that can be read is one the project can have, and holds what was
  recorded;
* `RecordedOK`: what `add` works on will be what is recorded, what `run` works on is what is recorded,
  and while `add` is at work nothing counts as used of the name it adds;
* `ResolvedOK`: whatever is recorded, or settled by the command at work, has its directory; a clone in
  the making is of nothing recorded, so that git, which removes it when it fails, takes nothing away;
* `FreshOK`: what is settled without a pin is at a commit that the command could see, or a later one;
  during a reset that is what was fetched;
* `ExactOK`: a tree last set for a revision is at it; a good run used what is checked out;
* `PinnedOK`: what has been used of a pinned dependency is what is checked out since;
* `LoadOK`: there are finitely many files and clones, and a `run` that is under way has a file that
  could be read: nothing a command does before it loads the imports takes that away.

`...Moves` lemmas say what an action may change, so that the ten preservation lemmas (`WorldStep` to
`LoadOKStep`) need not open the actions again; `CloneMoves` lists the ways a clone changes. The heart
is that a clone belongs to a name: `SettledElsewhere` (the names at work are distinct, so resolving one
dependency leaves the settled ones alone) and `PinnedIsNotReset`, which was false until `StartAdd`
ended the use of its name. `Without`, the filter of `with_dependency`, is a recursive function; what it
gives for every list (`WithoutType`) is proved by induction on its length, from
the lemma `Recursion` of `SequenceFacts`, which says that such a function exists.
`ImportsComplete` takes from `LoadOK` what `ImportsResolved` (below) asks of the files. That programs
are lists (`ProgramsAreLists`: `Program` holds a `Vec<Item>`) is a hypothesis of that theorem and not
an assumption of the module, because TLC cannot evaluate a statement about all texts; `packages` shows the
conclusion for the texts of the instance.

**Module loader**, from no assumption on the constants: `LoaderTheorems` proves `ImportsResolved`. For
every finite set of files, all packages, any language whose programs are lists, and a path that can be
read, `ResolveImports` gives what `IsComplete` says. The argument:

* the recursive functions exist (`KeptFunction`, `WalkFunction`, `LoadFunction`, from `Recursion`), and
  leaving out a `main` keeps the rest in order (`WithoutMainType`);
* an invariant of the walk over the items of one file. `Contents`: of the files visited since the walk
  began, all imports have been visited, and all declarations are there, exactly once and in order, with
  the file's own items only as far as the walk has come. `WalkOK`: and in any case nothing is visited
  that is not reached, and the walk stops only at a file that cannot be read. There is a lemma for each
  way an item changes the walk (`KeepWalk`, `SeenWalk`, `StoppedWalk`, `BrokenWalk`, `MergeWalk`), put
  together by `ItemWalk` and, by induction over the items, by `FileWalk`;
* cycles and diamonds: within a walk the invariant says nothing of files visited before it began, so an
  import of a file that is still being loaded may be passed over. Only at the end, when the first file
  is complete, is everything visited closed under imports;
* depth: induction on the number of files not visited yet (`FewerLeft`, `DeeperWalk`, `AnyDepth`), so
  the bound on the depth in `ResolveImports` is never met;
* what was visited is what is reached (`ReachedIsLeast`, `AllVisited`), and `Visibility::check`, which
  looks at everything noted together, finds the same fault as a statement about each file alone
  (`NotedDefs`, `NotedRefs`, `VisibleIff`).

**Manifest**, from `CharactersAssumption` only (the characters the code names are characters):
`ManifestTheorems` proves `ReadBackExactly`. For every manifest whose dependencies have plain names,
with any texts for its name, version, entry, paths, addresses, branches, tags and revisions, and any
number of dependencies, `ParseManifest(ToToml(m))` is `Ok(m)` if no value holds a `#` or an end of
line (`CleanManifest`), which the parser takes for a comment or the next line even inside quotes, and
`Fail` otherwise: never another manifest. `EmptyIsRefused` says
that the file a killed `fs::write` leaves is refused. `PackagesTheorems` rests on both. The argument:

* a scan of `Append(s, c)` is one step more than that of `s` (from `Recursion` of `SequenceFacts`), so
  facts about scans are proved by induction over the text (`AppendInduction`), written as a set of
  lengths since the provers cannot instantiate an operator;
* values: `UnescapeEsc` (unescaping undoes escaping, for every text), hence a quoted text is read as it
  was and one that is cut off is not read at all (`QuotedText`, `OpenText`);
* tables: a comma in a quoted text does not split (`SplitField`), so a table is read as its fields, and
  one that is cut off is not a table and not a text (`TableValue`, `OpenTableValue`);
* lines: a line is read whole or up to where it is cut (`CutAt`, `TableCut`, `LineRead`, `LineCut`),
  and after a failed line nothing is read (`DeadStays`);
* the manifest: what has been read after each line (`LineStep`, `EntryStep`, `DependencyStep`), and of
  the whole text (`TomlRead`).

TLC checks the four `IInv`, in `scheduler`, `resilience`, `server` and `packages`.

Model-checked only: liveness (`NeverHangs`, `NobodyStarves`, `EveryCallReturns`, `StopCompletes`,
`StoppingAnswersEverybody`) and everything about `Toolchain`, whose passes walk over trees and texts
with recursive operators, which the prover has no backend for. Induction over data is within reach
where the recursion is a function of a number, as for lists (`Without`), for the loops over a text
(`Manifest`) and for imports, whose depth the number of files bounds (`ModuleLoader`); a parser or a
printer whose recursion follows a tree is not.

## Not modelled

* Regular expressions and JSON: functions of a text, no state and no order of events.
* The wording and place of errors (`diagnostics.rs`), tables of documentation, `explain.rs`, and the
  commands that only print what a pass made (`tokens`, `ast`, `bytecode`, `doc`, `gc-stats`).
* The REPL's session, whose lines are programs of their own for the passes.
* In `gc.rs` the collection of cycles, weak references and the compaction of maps: a map is its
  entries in order of insertion. In the standard library text, mathematics, dates, files and random
  numbers. Fractions, and shifts wider than the model's integers.
* Parsing of HTTP, the limits on headers, bodies and sockets, and the client, which is a worker that
  answers in the end.
* Panics for arguments out of range (`join(-1)`, `sleep(1e300)`).
* A server and deadlines in one model: the scheduler is there without a server, the server with a
  simplified scheduler. A deadline together with retries: `Resilience` has a deadline only as a
  failure of an attempt.
* The old crate under `vm/` and the Python prototype, which the shipped program does not contain.

## Plan

1. Done: `Scheduler`, `Resilience` and `HttpServer` (refining `RequestService`), `Packages`, `ModuleLoader`
   and `Manifest` with their proofs, `Toolchain` against `Meaning`.
2. `OMap`: entries with tombstones and compaction refining an abstract ordered map. `GcCycles`:
   collection over object graphs with tasks that hold references.
3. `Repl`: session, handles, collection. `Regex`: the Pike VM against a reference definition of
   leftmost-first matching.
4. A composition of server and scheduler with deadlines, as far as TLC reaches.
