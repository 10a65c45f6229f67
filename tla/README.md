# A TLA+ development for Vibefly

Vibefly is a JetBrains plugin (Kotlin) that runs a coding agent. Three programs
talk to each other:

    editor / IDE  ── plugin (Kotlin, threads and coroutines) ──┐ stdio, Content-Length frames
                          │  JCEF message router               │
                     web page (SolidJS) ── WebSocket, one-time ticket ── agent (Bun, one JS thread)

SimpleRpc, the repository's own RPC layer, carries every call on every channel in
both directions. The agent owns chat sessions of the OMP SDK and runs their turns.

This directory holds TLA+ modules of the parts where order, concurrency and failure
matter, TLC runs on small instances, and TLAPS proofs for every size.

## 1. Inventory

| Component | State it keeps | Operations | What is hard | What makes it correct | Modelled |
|---|---|---|---|---|---|
| Chat session registry `chatSessionRegistry.ts` | records by session, one runtime each; dedupe table; UI sink; batches of events | attach, disconnect, open, create, release, send, cancel, abort, list models, set model, drainQueue, evictRuntime, emit, flushEvents | every `await` lets another call in; eviction by one session of another's runtime | serial turns, FIFO, no prompt on a disposed runtime, bounded runtimes, every turn ends | ChatSessions, ChatPage (partly) |
| Turn scheduler `chatScheduler.ts` | active turn, queue | enqueue, startNext, finish, cancel, clear | used around awaits | one active, FIFO | TurnQueue, ChatSessions |
| Chat UI `App.tsx`, `rpc/agent.ts` | tabs, active tab, a pending question of each kind, connection | bootstrap, open, close, send, stop, answer, apply events, reconnect | answers, questions and batches overtake each other; a connection that drops | tabs show what the registry has; nothing but a later question of its kind takes a question from the user | ChatPage, AgentLink, ContextDelivery, Settings (partly) |
| Kotlin RPC `RpcSession.kt`, `KotlinCallTsProxy.kt` | closed flag, map of pending calls, inbound jobs | invoke, answer, timeout, cancel, close; dispatch | threads, weakly consistent iteration | no call forgotten, settled once | KotlinRpc (outbound), CefRpc (inbound) |
| TypeScript RPC peer `peer.ts` | pending, in-flight, handlers | call, register, dispatch, close | timers and aborts | settled once, the other side told | CefRpc (calls), StdioRpc (dispatch) |
| CEF transport `CefMessageRouterTransport.kt`, `cef.ts` | open query callbacks | query, answer, cancel, close | three maps, several threads | each callback completed once, none left open | CefRpc |
| Stdio framing and transports `framing.ts`, `stdio.ts`, `ContentLengthFraming.kt`, `StdioRpcTransport.kt` | buffer, write chain, closed flags | push, write, close, end | cuts at any byte, a reader that blocks, close while constructing | frames whole and in order, nothing after close | StdioRpc |
| Context delivery `ChatContextDeliveryService.kt` | queue, consumer | bind, offer, retry, flush | coroutines around a page that loads; 30 s timeouts | nothing lost, all delivered | ContextDelivery |
| Agent WebSocket server `ws.ts`, `websocket-server.ts` | tickets, active session | create, take, open, close | replacement of a session, late close events | one session, one use per ticket, the page ends up linked | AgentLink |
| Agent life cycle `VibeflyAgentService.kt` | process, transport, session, control refs; state | ensureStarted, stop, dispose | process death, readers outside the mutex | no orphan process, none after the project | AgentLifecycle |
| Commit generation, host `GenerateCommitMessageAction.kt`, `Agent2HostBridge.kt`, collectors | busy flag, listener slot | collect, run with progress, cancel | overlapping generations, late callbacks | hunks are a patch; only silence is timed out | CommitMessage, CommitDiff |
| Commit generation, agent `commitMessage.ts` | progress throttle, abort signal | fit, ask, stream, abort | quotas, rounding, abort at any point | the prompt tells the truth in its budget; a generation given up stops | CommitDiff, CommitMessage |
| OMP runtime `ompRuntime.ts` | cached runtime | get, clear | forceNew, a get while a patch runs | the cached registry is fresh | ProviderConfig |
| Provider config `providerConfig.ts`, `providerLogin.ts` | flights and tails per directory, models.yml, agent.db | snapshot, mutate, login, logout | overlap of all of them, a kill between two writes | no half patch shown, no snapshot older than its patch | ProviderConfig |
| Settings panel and host `SettingsShell.tsx`, `SettingsUi2Host.kt` | shown and stored settings, debounce timer | edit, save, bootstrap, stop agents | wholesale replacement, by the dialog and by every chat page; delayed and failing saves | careful edits are stored; agents run with the stored default | Settings |
| Model picker `ModelPicker.tsx`, `modelPickerLogic.ts` | copied and live pins and recents, active row | open, search, filter, move, pick, star | copies beside live values, an index into a list that changes | the rows are those offered, in order, and keys act on the row that is seen highlighted | ModelPicker |
| JCEF panel | none of interest | pass-through handlers | | | only the wiring that ContextDelivery and Settings need |
| Codegen, codecs, shared types, workspace state | none of interest | | | | no |

`PROJECT.json` lists every component with its files and every hazard at its line.

How they meet: the WebSocket server calls `attach` and `disconnect` on the registry
(`main.ts:171-241`); the registry calls back to the page over the same connection
(questions, events); the plugin's tool window binds the context delivery to the page
and calls `retry` when the page reports ready; the plugin's calls to the page and to
the agent are KotlinRpc calls, the page's to the plugin CEF queries. A save of the
settings that changes the default model stops the agents of all projects; a patch of
the providers clears the agent's cached runtime; a commit generation is one call to the
agent with progress reports coming back over the same pipes.

## 2. The modules

| Module | What it is |
|---|---|
| `TurnQueue` | abstract: what the registry promises about turns. `gone` are waiting turns whose session is closed; only they may be passed over |
| `ChatSessions` | the registry over its scheduler |
| `MCChat` | symmetry for the instances |
| `ChatSessionsProofs` | theorems about ChatSessions |
| `ChatPage` | the page's tabs and the events, answers and questions the registry feeds them with |
| `ChatPageProofs` | theorems about the questions of ChatPage |
| `KotlinRpc` | outbound calls of an `RpcSession` |
| `KotlinRpcProofs` | theorems about KotlinRpc |
| `CefRpc` | calls of the page to the plugin over JCEF's message router |
| `CefRpcProofs` | theorems about CefRpc |
| `StdioRpc` | the pipes between plugin and agent: framing, dispatch, closing |
| `StdioRpcProofs` | theorems about StdioRpc |
| `ContextDelivery` | the delivery service and the page |
| `AgentLink` | the WebSocket between the page and the agent: tickets, handshake, replacement, reconnection |
| `AgentLifecycle` | the agent process under `VibeflyAgentService` |
| `ServicesProofs` | theorems about ContextDelivery, AgentLink, AgentLifecycle and CommitMessage, which share no state |
| `CommitDiff` | functions: hunks, recent commits, quotas, the fitting of a prompt |
| `CommitMessage` | generations on both sides, over `CommitDiff` |
| `MCCommit` | inputs for the instance |
| `ProviderConfig` | the providers' configuration and the cached runtime |
| `ProviderConfigProofs` | theorems about ProviderConfig |
| `Settings` | the settings panel, its host, the projects' agents and their chat pages, which store the pins too |
| `SettingsProofs` | theorems about Settings |
| `ModelPicker` | the model picker's list and panel |
| `MCSettings` | an instance of both; a behaviour is one of the panel or one of the picker, which share no state |

### ChatSessions

The agent is single-threaded, so an action is the code from one `await` to the next.
What is suspended at an await is a *phase*, kept in `turn` (the drainQueue activation
of a message), `calls` (RPC calls: open, create, list models, set model, release),
`asks` (questions to the user) and `tails` (disconnects that await an abort).

| Variable | Code |
|---|---|
| `records` | `#records`: session → the record object, or Nil |
| `rec` | each record object's `summary.state` and `runtime` |
| `live` | OMP sessions created and not disposed |
| `fresh` | ids that `createChatSession` can still make up |
| `queue`, `active` | `#scheduler.queued`, `#scheduler.active` |
| `turn` | the `PendingTurn` of a message, and the record and runtime its drainQueue captured |
| `sink` | `#sink` |

Records and runtimes are objects with identity: a suspended turn keeps the record it
captured although the map may have moved on, which is where the divergences of section 3 come from.

| Action | Code |
|---|---|
| `Attach`, `Disconnect`, `DisconnectTail` | `attach`; `disconnect` up to and after its await |
| `Send` | `sendChatMessage` with the synchronous start of `#drainQueue` (`DrainFree`) |
| `CancelQueuedTurn` | `cancelQueuedTurn`, and `abortChatTurn` of a session that is not running |
| `TurnRuntimeCreated`, `TurnEvicted`, `TurnEnds` | `#drainQueue` after `createRuntime`, after the eviction behind it, and its `catch`/`finally` with the next `#drainQueue` |
| `AskUser`, `QuestionEnds` | `requestPermission`, `writeTextFile` and `ask`, before and after their await |
| `UseSession`, `SetModel`, `OpenClosed`, `Create`, `LookedUp`, `CallRuntimeCreated`, `CallEvicted`, `ModelApplied`, `CallFails` | the RPC calls, await by await |
| `Release`, `Released` | `releaseChatSession` before and after the dispose |

`Evictable` leaves the choice among evictable sessions open (the code takes the oldest
`lastAccess`): what holds for every choice holds for that one. `abortChatTurn` of the
running turn changes nothing in the registry; a prompt may end at any time anyway.

### KotlinRpc

Threads interleave, so a step is one operation on shared state: the closed flag, the
map `pending`, the `completed` flag of a call, its continuation, the wire. The caller
is a program counter (`pc`), `close()` another (`closing`). `held[c]` is the thread
that has removed call `c` from the map and not yet completed it; the answer is a
message the reader has in its hands (`receiving`). `CloseFails` models the weakly
consistent iterator of `ConcurrentHashMap`: the loop of `close()` meets every entry
that was there when it began and stays (`unvisited`), and may meet others.

Two pairs of operations are one step: `completed.compareAndSet` with the resumption
behind it, and `abandon` with its cancel. Nobody looks at the call between the two.

### ContextDelivery

Each `scope.launch` is a job that goes through `adding`, `flushing`, `taking`,
`calling`, `lost` or `answering`, and `failed`; the mutex makes queue operations atomic. The
page is `loading`, `listening` (its RPC peer is installed) or `ready` (`chatUiReady` called).
A call to a loading page is lost and fails by its timeout, in its own time. A page that
listens shows the contexts and then answers; if the timeout comes first (`late`) the item
goes back to the queue although it was shown, and will be shown again.

### AgentLink

Two programs with one thread each, and two ordered streams of frames per socket; an
action is one callback of either program.

| Variable | Code |
|---|---|
| `tickets` | the ticket store's map (`ws.ts`); "stale" is past its expiry |
| `srv` | a socket at the agent: upgraded (`accepted`), past its handshake (`session`), told to close, gone |
| `active`, `sink` | `active` of `createAgentWsServer`; the registry's `#sink`, set by `attach`, cleared by `disconnect` |
| `cli` | the page's transport (`websocket.ts`): connecting, `open` with its hello sent, `ready`, closed |
| `phase`, `cur` | where `connectOnce` (`rpc/agent.ts`) is, and the peer it holds |

| Action | Code |
|---|---|
| `Retry`, `Grant`, `Connect`, `Noticed` | the backoff; `openWebSocketSession` in plugin and agent; the creation of the transport; the poll of `peer.isClosed` |
| `PageOpens`, `PageMessage`, `PageCloseEvent` | `onopen`, `onmessage`, `onclose`/`onerror` of the page's socket |
| `Accept`, `ServerHello`, `ServerReceives`, `ServerCloseEvent` | upgrade, first frame, later frames and close of the agent's socket, with `OnSession` and `OnSessionClosed` of `ws.ts` and `main.ts` |
| `Event` | anything the registry sends to its sink |
| `Trouble` | an expired ticket, a failed request, a timeout, a bad frame, a reload, the death of the agent |

A socket and the ticket it was made with share a name, used again once neither end
remembers it. The timers of the handshake only fire in `Trouble`: on the loopback
interface a socket whose program runs is answered or closed. When a ping times out the
page closes its *peer* and keeps its *socket*, as `connectOnce` does; that socket stays
the agent's session until the next one replaces it. There is one page; the origin check,
a session factory that throws and the close at process exit are left out.

### AgentLifecycle

Coroutines interleave. `processRef`, `sessionRef` and `transportRef` are touched under
the mutex only and move together (`process`); `host2AgentRef` is read outside it
(`control`). A step goes from one change of `host2AgentRef`, or one wait, to the next.

| Action | Code |
|---|---|
| `Ensure`, `Refuse`, `Reuse`, `ColdStart`, `GivesUp` | `ensureStarted`: the check outside the mutex, the checks inside it, cancellation of who waits |
| `Start`, `StartFails` | `startLocked`, and the handler around it: its `stopLocked` overwrites the FAILED just written. It fails before the process is spawned; an `Error` thrown behind `builder.start()` (no thread for the reader, say), which would leave the process to itself, is not modelled |
| `TakeControl`, `ShutdownEnds`, `Close` | `stopLocked`, on behalf of a start, of `stopIfRunning` or of `dispose` |
| `AskToStop`, `Dispose`, `LockToStop` | `stopIfRunning` and `dispose` up to the mutex |
| `ReadControl`, `CallEnds` | `withControl`: the reference is read, and used, outside the mutex |
| `Dies`, `PipeFails` | the process ends; `StdioRpcTransport` closes itself on a malformed frame or a failed write and leaves the streams open |
| `Forget` | none: the name of a dead process nobody holds is used again |

### ChatPage

Agent and page are one thread each; the connection is two ordered streams. What a
session's events do waits in `feed` until its timer flushes it as one batch; answers and
questions are written at once, and so overtake it.

| Variable | Code |
|---|---|
| `rec`, `turn`, `queue`, `asks` | the registry, as far as the page sees it; ChatSessions has the rest |
| `feed` | `#pendingEvents`; a session's timer runs iff it has events there |
| `sink`, `tail` | `#sink`; a `disconnect` that awaits the abort |
| `tabs`, `activeId`, `slot` | the page's signals; `slot` has `pendingPermission` and `pendingInput` |
| `call` | the page's RPC calls, and what its code does with the answer (`then`) |
| `page`, `saved` | where bootstrap is; the workspace the host stores |

| Action | Code |
|---|---|
| `Begins`, `Delta`, `MessageEnds`, `AgentEnds`, `TurnEnds` | the OMP session's `agent_start`, `message_update`, `message_end`, `agent_end`, as `#onSessionEvent` emits them; the end of `#drainQueue` |
| `Ask`, `AskEnds`, `AskFails` | `requestPermission`, `writeTextFile` and `ask`, before and after their await |
| `Flush` | `#flushEvents`: one batch, or nothing when no page is attached |
| `Receive`, `Opened`, `Created`, `CallFails`, `Aborted`, `Released` | the RPC handlers, up to and after their awaits |
| `Activate`, `NewSession`, `OpenRecent`, `CloseSession`, `SendMessage`, `StopOrCancel`, `RespondToUser` | the handlers of the tabs up to their first await |
| `PageReceives` | `onChatEvents` with `applyEvent`, `onPermission`/`onAsk`, and what a handler does with its answer (`AnswerArrives`) |
| `RestoreNext`, `Attach`, `Drop`, `Reload`, `DisconnectTail` | bootstrap's loop and the connection |

`agent_start` makes one name for everything a run of the agent streams, and `agent_end`
drops it: `LiveId` is set by `Begins` and stays through any number of `MessageEnds`. So a tab
has one message where `session.messages` has one or several, which a snapshot then names one
by one. `Shows` says which messages a tab's message stands for, and that it has the text of
all of them and the status of the last. A prompt may run the agent again (a retry) with a name
of its own. That the agent tells its events in this order is the SDK's, not this repository's.

Questions overlap as they like, of one kind or of both. The later one of a kind takes the
page's slot, and the earlier one stays open at the agent with nobody to answer it; `passed`
remembers it, and `NoQuestionLost` is about the others.

The user waits for the answer before he opens the same session again, and the batches of a
dropped connection are gone before the next page attaches (24 ms against at least 250 ms).
What happens otherwise is under "Known divergences and limits".

### CefRpc

| Variable | Code |
|---|---|
| `pend`, `qids`, `peer` | `pending` of `peer.ts`, `requestQueryIds` of `cef.ts`, `#closed` |
| `query` | the browser's query, open until its callback is completed |
| `open`, `q2r`, `r2q` | `openCallbacks`, `queryToRequestId`, `requestIdToQuery` |
| `cef` | how far `onQuery`, or the cancel, is on the browser's thread |
| `closing`, `todo` | where `RpcSession.close` with `failAllOpenQueries` is |
| `inbound`, `job` | `inboundJobs`, and where the coroutine of a request is |
| `times` | history: how often each callback was used |

A step is one operation on one of the three concurrent maps, with what a thread does
before it reaches the next. `Call`, `Abandon` (timer, abort, cancel), `Delivery` and
`PeerCloses` are the page's; `Router` the browser's thread; `Answer` and `Answering` a job
of Kotlin; `Close` and `Closing` the thread that closes the session.

### StdioRpc

A frame is three units: length line, blank line, body; a pipe is cut between any two, and
stray text may come between frames. `Opening` is the thread that constructs transport
and session (the handler is installed, the reader thread started, the close handler set,
one after the other); `Enter`, `Sending` a writer under `writeLock`, whose write fails, and
closes the transport, when the agent no longer reads; `Reading` the reader
thread, which looks at `closed` between reading a frame and delivering it; `Marking` the
one `markClosed` that wins; `CloseSession`, `Close` the owners. At the agent `OnData`
pushes a chunk into the decoder and dispatches each frame of it, `Answer` is a handler that
returns, `Writing` the write chain with its wait for "drain", `OnEnd`, `OnError` the
streams' events. `AgentExits`, `HostExits` are the ends of the processes.

### CommitDiff and CommitMessage

`CommitDiff` holds functions. `GroupChanges`, `BuildOneHunk` and their caller are
`CommitDiffCollector`'s; `RecentMessages` the collector's, `Examples` the agent's;
`FairQuotas`, `FitHunks`, `FitFiles` and the partition of the files into blocks,
summaries and a count are `commitMessage.ts`'s. A line counts as one character. The count is
of rows, as the code's is: a row that collects the omitted files of one reason is one "file".
What is read of each root are its newest commits, merges and repeated messages included, so
a root full of merges yields no example; `RecentCases` has such roots.

`CommitMessage` runs generations over them. `task` follows the background task
(queued, collected, calling, ended and, once its late `onCancel`/`onFinished` has run,
gone); `generating` is the flag of the action, one for the whole IDE; `slot` and `prev`
the one listener of `Agent2HostBridge` and what a generation found there; `quiet` the idle
time of the watchdog. `agent` follows `generateCommitMessage` (resolving the model,
waiting for the stream, streaming), with the heartbeat (`beat`) and the throttle of
progress (`fresh`). `air` are reports on their way, which name no generation.

### ProviderConfig

`models` and `creds` are the two files, each the set of the requests whose change is in it.
A request stands at a point of its handler (`at`) and may wait for another's promise
(`on`); `AgentStep` is a handler's code from one await to the next. `flight` and `tail` are
`providersSnapshotFlights` and `providersMutationTails`, `aborter` is `activeLoginAbort`,
`cached` what the cached runtime's registry read. `Killed` ends the agent between any two
steps and keeps the files.

### Settings and ModelPicker

`shown` is the dialog's store, `timer` the settings that `debounceSave` holds, `chain` a
`saveSettings` from its call to the refresh behind it, either of which may fail; `stored` the
host's state, written field by field; `agent` a project's agent with the default model it was
started with. Closing the dialog cancels the saves whose handler has not begun
(`RpcSession.close`). `chat` are the projects' chat pages: each fetches the pins once, when it
loads, and whenever its user picks or stars a model replaces the stored pins by its copy
(`App.tsx:788-809`). So a star made elsewhere meanwhile is undone, though the chat's user
only picked a model.

`wish`, `behind` and `hasty` are history. `wish` is what the user last chose, field by field
(of the pins, model by model); `behind` the pages whose copy a star on another page has passed
by; `hasty` how a page was not given its time: an edit made, or a picker opened, before the
page has the settings ("loading"), an edit beside a save of its own page ("overlap") or of
another ("beside"), an edit of a page that is behind ("stale"), a save that failed, a dialog
closed before its save had begun ("closed"). A page is behind until it loads again: nothing
tells it of the other's star.

`ModelPicker` has the panel's copies (`opened`), its live pair (`live`), the parent's
props, and `active`, which an effect keeps on the list; `Rows` is what `rows` makes of
`modelPickerLogic.ts`. Its parent is the chat, or one of the two settings pages, of which
`other` is the other's model. After every save of a settings page, of a star too, the host
records default and commit model on top of the recents (`SettingsUi2Host.kt:97-104`), and the
page shows those once the answer comes (`SaveAnswered`); `due` are the answers to come. The
chat's value changes when the agent has set the model (`ValueTold`), if ever. `used` is
history: the models in the order in which picker and host recorded them. `marked` is the model
that was under the highlight when the user last moved it or the list changed.

## 3. Runs

`link` checks for deadlock: its page never stops. The other runs switch the check off,
since their systems really stop when the inputs of an instance (messages, offers, calls)
are used up, or when the project is closed.

| Run | Instance | Shows |
|---|---|---|
| `chat` | 2 sessions (one with a file, one to be created), 2 messages, 1 suspended call, 1 question, 1 runtime allowed, fairness | `SerialTurns`, `QueueInv`, `PromptedRuntimeLives`, `TurnsEnd` |
| `chat_line` | 3 sessions, 3 messages, 2 runtimes allowed, symmetry, safety only | `RuntimeBound`, `InOrder` (refinement of `TurnQueue`) |
| `chat_page` | 2 sessions (one to be created), 2 calls, 2 questions; 3 steps of acts of the user, drops or reloads (1), and things turns tell | `TabsTrue`, `NoQuestionLost` |
| `rpc` | 2 calls with a timeout, 1 close, fairness | `SentIsAnswerable`, `NoLeak`, `OneCancel`, `SentSettles` |
| `cef` | 2 calls, both sides may close, fairness | `CallbackOnce`, `FailsOnlyClosed`, `AbandonedStops`, `NoCallbackLeaks` |
| `stdio` | 1 request, its cancel and answer, 1 stray text, fairness | `FramesWhole`, `NothingLate`, `CancelledUnanswered`, `EndClosesBoth` |
| `delivery` | 3 offers, 3 coroutines, fairness | `Conserved`, `ReadyOffersShown` |
| `link` | 3 sockets, 2 troubles, 1 event on its way, fairness | `OneSession`, `AckFirst`, `StaysLinked` |
| `lifecycle` | 2 callers, 1 stopper, dispose, 3 processes, fairness | `NoOrphan`, `Settled`, `DisposedForGood`, `EndsWithProject` |
| `commit` | some 150 inputs of 1 generation, three kinds of roots, 3 overlapping generations, fairness | `HunksApply`, `PromptTrue`, `TimedOutIfSilent`, `AgentStops` |
| `providers` | any 3 requests, any number of kills, fairness | `NoHalfPatch`, `PatchesSeen`, `RegistryFresh`, `RequestsAnswered` |
| `settings` | panel: 2 models, one of them pinned, 2 projects, 1 chat page, 2 saves at once, 2 acts; picker: 3 models of 2 providers, 6 keys, the last 2 models remembered | `AgentsCurrent`, `CarefulEditsStored`, `RowsTrue` |

Every module has a type invariant. It was checked while the module was written; those of
the modules with a proof module are proved, and the runs spend their time on the rest.

Why the bounds are enough. With one runtime allowed and two sessions each start evicts
or fails to evict the other, which is every case of `Evictable`; two allowed and three
sessions is the code's own limit, `MAX_RUNTIME_SESSIONS = 2`, with one session too many.
Three messages make a line of two behind a running turn, the least in which order,
withdrawal from the middle and a dropped head differ. Records and runtimes are pools:
an action that needs a new object waits while the pool is in use, so a small pool only
cuts behaviours with many forgotten objects.
`MaxTails` bounds disconnects that await an abort at the same time. `Outcomes` lists the
states a turn may leave; TLC runs take one outcome each, because the registry's guards
only ask for `running`, `queued` and the waiting states. Two calls show every
race of `KotlinRpc`, since calls share nothing but the map and `close()`. The coroutine
pool of `ContextDelivery` bounds concurrent launches; three are a flush that is stuck on
a lost call, the one of `chatUiReady`, and an offer. Three sockets of `link` are one the
page has given up, the active one it replaced or is about to, and the next; two troubles
let a second failure hit the recovery from a first. A chain of more failures leaves more
sockets behind, which the proofs cover for safety. `MaxFrames` bounds what the registry
sends ahead of a slow page; one event is enough to come before an ack. Two callers and a
stopper of `lifecycle` are the least in which one waits while a second works and a third
undoes it; three processes are a dead one still held, one running, one started.

`chat_page`: an answer, an event and a question are three frames of one session; with
two sessions a batch of one is overtaken by the other's. `MaxTabs` 2 (the code's is larger)
makes the limit reachable. `MaxSteps` is one bound for what the user does, what fails and
what a turn tells beyond the one message it has to end: three steps are a send and two
messages, deltas or questions of its turn, or a send, a question and a drop, or two sends and a
question. So one message of a tab comes to stand for two of the session, and a question is
overwritten by the next. `MaxFrames` bounds the frames ahead of a batch, never the answers. `cef`: calls share only `close()`; two let it meet one before and one
behind its loop. `stdio`: a request, its cancel and its answer with stray text on either pipe
are every kind of frame; more requests only repeat them. `commit`: the inputs vary lead,
gap, tail and both sides of two edits around `Context = 2`, and 25 budgets over three
selections, from nothing to more than all. Three generations are two that hold the slot across
each other and one that began before both. Two ticks of idle time are the least in which a
heartbeat that comes and one that is late differ; the throttle (2 s) is less than a heartbeat
(5 s), hence gone at the next tick. `MaxAir` bounds reports on their way. `providers`: a patch
under way, a second queued behind it and a snapshot that must wait, or join, are three;
kills are free. `settings`: an edit, and another while the first is being saved, in the dialog,
in the chat, or one in each; one model is pinned at the start, so that pins can be lost. `picker`: a pinned, a recent
and a plain model, two providers to filter by, and a query that some models fail; six keys open
it, pick or star, open it again and do something more.

`LateAnswers = FALSE` says that OMP does not end a prompt while a question of it is
open. With `TRUE` an answer that comes after its turn leaves the record in "running"
for good, so that its runtime is never evicted and `RuntimeBound` fails; what OMP does
there is not in this repository, so it is a parameter.

### Fairness

`ChatSessions`: a promise that has settled is continued (weak fairness of the steps of
turns, calls, questions and disconnect tails), and OMP ends every prompt: strong
fairness of `TurnEnds`, because a question may open and close again and again, and the
code lets a question last 24 hours at most (`PERMISSION_RPC_OPTIONS`). What users do is
not fair. `KotlinRpc`: threads that may run do, the timeout passes; nothing makes
the peer answer or the owner close. `ContextDelivery`: coroutines run, timeouts pass,
and a bound panel's page loads and reports ready. `AgentLink`: timers fire, requests to a
working host are answered, and each end of a loopback socket handles what has arrived
(one weak fairness per socket and end); `Trouble` and `Event` are not fair.
`AgentLifecycle`: strong fairness of `TakeMutex`, because Kotlin's `Mutex` hands itself
on first come, first served; weak fairness of whoever works, of the end of a process
that was destroyed, and of `Ensure`, because the page retries; deaths, pipe failures,
stops and `dispose` are not fair.
`CefRpc`: threads run and messages arrive; no handler must return, nobody must give up or
close. `StdioRpc`: threads run, the streams report what arrives, and a process whose
transport is closed exits; handlers, closers and deaths are not fair. `CommitMessage`: the
clock runs, timers and polls fire, messages arrive and an aborted stream ends. The
collection of changes and the model itself are not fair: a model may say nothing for ever,
and because the heartbeat reports for it, the idle timeout does not end such a generation;
the user does. `ProviderConfig`: weak fairness of each request's steps; the user's part of a
login, and kills, are not fair. `Settings`, `ModelPicker` and `ChatPage` are checked for
safety only.

### Known divergences and limits

Some properties are stated in a module and checked by no run, because the code does not
have them. Add the name to the module's cfg, as an invariant or a property, to see the behaviour.

* `ChatSessions.RunningSessionStaysOpen`: `releaseChatSession` checks that no turn runs,
  awaits the dispose, and deletes the record afterwards; a message sent meanwhile runs in a
  closed session.
* `ChatSessions.SettingsFrozen`: `setChatModel` and `setChatThinkingLevel` check, await
  `ensureRuntime`, then change the model, although a turn may have started.
* `ChatSessions.LiveBound`: two `ensureRuntime` calls on one record make two runtimes; the
  first is overwritten and never disposed.
* `KotlinRpc.ClosedCallsFail` (with `HasTimeout = FALSE`): a call put into `pending` between
  the loop and the `clear` of `close()` is never resumed.
* `ContextDelivery.QueuedUntilReady`: an item taken while the page still loads comes back to
  the queue after the page's `retry`, and waits for the next offer. `Conserved` and
  `ReadyOffersShown` except an item whose answer came after the timeout (see ContextDelivery).
* `AgentLifecycle.ControlRecovers`: after a malformed frame or a failed write the transport
  and session are closed but the process lives; `ensureStarted` hands the closed control to
  every later caller until somebody stops the agent.
* `StdioRpc.ClosedWithTransport`: a transport that closes between the construction of the
  session and the installation of its close handler leaves the session open.
* `CommitMessage.NotCutOff`: with two generations at once (a late `onCancel` of an earlier one
  resets the busy flag) the second takes the listener slot, and the watchdog of the first
  may end it although it makes progress.

What `CarefulEditsStored` leaves out, by `hasty` and `behind`, does lose edits: two saves on
their way may be stored in either order, each as a whole; edits before the settings are loaded
start from empty ones, and so does a picker opened while the page loads (once the answer of a
patch the user made meanwhile enables its button), whose next pick stores the empty pins; a
dialog closed before its save has begun drops the edit; a page that another page's star has
passed by takes that star back with its next pick or save. Nothing in the repository says that
these should be kept.

What `RowsTrue` leaves out: the order of the recents in a panel opened while a save was under
way, which lacks what the host records with it.

Beyond these, seen in the code and kept out of the instances by the assumptions named above:
`openRecent` clicked twice makes two tabs of one session; contexts added while `sendMessage`
awaits are cleared with those sent; an abort while the runtime is still being created does
nothing; the tail of `disconnect` puts
a turn queued by the next page back to idle; a page that reconnects keeps its tabs and
never refreshes them; a `notify` of the agent has the id of the message that streams and takes
its place. Of the providers: a patch that fails after `models.yml` is written leaves it
written; runtimes made with `forceNew` are never closed; a login the host has timed out goes
on in the agent.

## 4. Proofs

Assumptions are those the modules name: `ChatAssumption`, `RpcAssumption`,
`CefAssumption`, `LinkAssumption`, `DeliveryAssumption`, `StdioAssumption`,
`ConfigAssumption`, `SettingsAssumption`, `PageAssumption`, `CommitAssumption` (names are distinct, bounds are
naturals, what is stored at first is made of models) and `LifecycleAssumption`
(callers, stoppers and the disposer are different threads). One theorem, `RuntimesFew`,
has a hypothesis of its own, which its run shares.

**ChatSessionsProofs** proves `TypeOK`, `SerialTurns` and `QueueInv` for every number of
sessions, messages, records, runtimes, calls and questions. The conjunction is not
inductive: actions look records up through what a suspended turn, call or question
holds. `IInv` adds that

* a waiting turn has a session and one in flight has a record (`Consistent`);
* the turn in flight is the active one, and its session has nothing in line (`Slot`);
* a suspended call knows the session and the record its phase needs (`CallsHold`), and
  an open question its record (`QuestionsHold`).

Every action has one lemma. The ones that change the line share two: `DrainFreeKeeps`
(a free slot is drained: the first startable turn takes it, those before it are dropped)
and `WithdrawKeeps` (a turn leaves the middle). Both rest on `RemoveElement` and
`Behind`, which say what is left of a sequence. `LineUntouched` serves the other actions.

`OrderKept` is `InOrder`, the refinement: the initial state maps to `TurnQueue`'s, and from a
state in `IInv` every step maps to one of its steps or to none. An action that queues, starts,
ends and passes over turns at once maps to one abstract step, as the drain is part of the
action.

`RuntimesLive` is `PromptedRuntimeLives`. A turn captures a runtime, which its record may
replace meanwhile; `PInv` says why nobody disposes the captured one: no two sessions share a
record (`RecordsApart`), no two records a runtime, and what a record has is live (`Owned`),
the record of a turn in flight belongs to no other session, and no other record has its
runtime (`TurnsAtWork`). So an eviction or a release on behalf of another session does not
reach it, and one of its own session is refused while it runs.

`RuntimesFew` is `RuntimeBound` for any limit. `BInv` counts the open sessions whose record
has a runtime (`Few`), and says that questions and busy records are the active turn's
(`AskedByActive`, `BusyIsActive`), so that `#evictRuntime` finds one to dispose whenever the
limit is reached and no turn runs. The hypothesis `LateAnswers = FALSE` (no question outlives
its prompt, see Runs) is needed: a late answer marks an idle record "running", which
eviction leaves alone.

**KotlinRpcProofs** proves `TypeOK`, `SentIsAnswerable`, `NoLeak` and `OneCancel` for any
number of calls. `SentIsAnswerable` is not inductive: what makes it true is that a caller looks at
`closed` after it has put its call into the map. `RInv` says of every caller past that
look, and of every stored one while the session is open, that somebody is left to
answer it, and that nobody has touched a call that is not stored. `OneCall` reduces a
step to the call it is about. `OneCancel` rests on `CancelInv` over `RInv`: a call is taken
out of the map once, only the timeout job that took it and the cancellation handler of a
caller that is still to complete may send a cancel, and until one of them does the wire of
that call is clean.

**CefRpcProofs** proves `CallbackOnce` and `FailsOnlyClosed` for any number of calls. Neither
is inductive. `OneUse` says where an unused callback may be: its request is on the line, the
router's thread has accepted it, or the map holds it, never two of these. `Untroubled` says
that a failure or a cancel on its way belongs to a call that was given up, unless the session
is being closed. `TypeOK` and the finiteness of the open queries complete `CInv`. The order
in which a close fails the open queries is any (`SetToSeqs`), which is all the proof uses.

**StdioRpcProofs** proves `TypeOK`, `FramesWhole`, `NothingLate` and `CancelledUnanswered` for
any number of requests and stray lines, and any cut of the pipes into chunks. What a decoder makes
of a pipe depends on what surrounds a blank line, so the invariant says how a pipe that is
written under `writeLock` looks unit by unit (`Formed`), how it ends (`Open` in the middle of
a frame, `Shut` otherwise) and that its k-th body is the k-th frame still to come
(`Carries`). `Drained`, `FrameEnd` and the recursive functions they use are given meaning by
lemmas about what is left of a pipe and which frames were taken (`DrainedIs`, `RestIs`,
`FrameRead`, `ChunkTaken`). Where a paper proof would use induction over the pipe these take
the least counterexample (`Least`, from the well-foundedness of the naturals), which needs no
operator as a parameter. On the way down (`Down`) what the peer got and the decoder's buffer
with the pipe behind it make up what was written, as long as the peer is open; on the way up
(`Back`) what was heard, the frame in the reader's hand, the pipe and `writeChain` make up
what was answered, as long as somebody listens. `Closing` says that a frame read after the
close meets the second look at `closed`, `Cancelled` what the peer remembers of a request it
was told to cancel.

**ServicesProofs** holds the proofs of four small components, one after the other. The names
of `ContextDelivery`, `AgentLink` and `CommitMessage` carry a prefix (`DeliverySpec`, `LinkSpec`,
`CommitSpec`) so that one module can extend them all.

* `ConservedHolds` is `Conserved`, for any number of offers and coroutines. `DeliveryInv`
  makes it inductive: what was offered is the queue, the hands and the page together, so an
  item just offered is nowhere yet, and it says at which steps a coroutine has an item. `Once`
  says of what the page has that it is elsewhere only while its answer is awaited, or because
  it came too late.
  `Appended`, `Prepended` and `Removed` say what the queue holds after a change of either end.
* `OneSessionHolds` and `AckFirstHolds`, for any number of sockets, frames and troubles.
  `OneSession` is inductive. `AckFirst` is not: in `LinkInv`, `Quiet` follows a socket's
  whole life (no frame for the page before the handshake, the ack first at it, and one on
  its way as long as the page waits), and `Holds` says that a page about to connect has a
  socket nobody has seen yet.
* `NoOrphanHolds`, `SettledHolds` and `DisposedForGoodHolds`, for any number of threads and
  processes. In `LifeInv`, `HolderKnows` is what makes them inductive: who holds the mutex is
  who works under it, a stop has taken the control before it closes, a start begins with
  nothing left. `Forbidden` adds that after `dispose` returned no caller holds the mutex.
* `TimedOutIfSilentHolds`, for any number of generations, idle timeout and inputs. `Listened`
  links the two ends: a generation that nobody has crossed holds the one slot of
  `Agent2HostBridge`, so each report takes its watchdog back, whichever generation it is about.
  A watchdog waits no longer than the agent has been silent, except for reports on their way,
  and none are when the clock ticks.

**ProviderConfigProofs** proves `TypeOK`, `NoHalfPatch`, `PatchesSeen` and `RegistryFresh`
for any number of requests, with kills of the agent between any two steps. The code keeps
writers and builders apart in two ways at once. `InTurn`: the patches that have not settled
form one chain, only the first of them has begun, and the tail is the last. `Alone`: the one
snapshot that builds is the flight, and while a patch is in its block there is none. From
these follow which patches are in which file (`Files`), what a build has loaded of them
(`Rows`), that an answer shows both files of a patch or neither (`Views`), that what was
accepted before a request has settled when that request builds or joins (`Due`), and that the
cache has what was answered (`CacheFresh`). Each part is a predicate of explicit
arguments with a lemma about what a step must respect to keep it; an action's proof checks
those conditions.

**SettingsProofs** proves `AgentsCurrent` and `CarefulEditsStored` for any models, projects, chat
pages, saves at once and acts. A save is not atomic: between the host's two stores and while it
stops the agents, what an agent was started with depends on how far it is. `AgentAt` says so
place by place: a start between the two stores may have read either default, and an agent
already passed by the stops has the new one. `FormAt` says the same of the form a save
carries and of what is stored of it. Both hold of a save only if no other is between its
steps. `Alone` gives that: as long as "overlap" is not in `hasty`, there is one save at most,
and the timer and a save exclude each other. `PageShows`, `Boots` and `ChatShows` follow every
copy an edit starts from: the dialog's, its open picker's, the one bootstrap has fetched or will
fetch, and each chat page's. A copy of the pins is what the user chose unless its page is behind
(`Fresh`). A chat's save and one of the dialog exclude each other, as no edit was "beside" a
save. Proving it found a state no run had met: a picker opened while the page still loads (see "Known
divergences and limits").

**ChatPageProofs** proves `NoQuestionLost` for any number of sessions, tabs, calls, acts, drops
and questions that are open together. It is not inductive: a question that arrives takes the
slot from whoever has it. `Order` says why that is nobody who waits and was not passed by: for
every question on the line to the page, the open questions of its kind that it did not pass
(`Rivals`) were asked behind it and are behind it on the line, so none of them can have the slot
yet. `NobodyWaits` adds that without a connection no question is open. `Alike` says that a direction
before and after a step that sends or takes no question has the same questions in the same
order, which settles most actions without a look at their frames; `OfAppend`, `OrderAppend`
and `OrderLess` say what a new frame, and fewer rivals, do to it.

**Model-checked only**: the liveness properties `TurnsEnd`, `SentSettles`,
`ReadyOffersShown`, `StaysLinked`, `EndsWithProject`, `AbandonedStops`, `NoCallbackLeaks`,
`EndClosesBoth`, `AgentStops`, `RequestsAnswered` (liveness under fairness is beyond the
prover); `HunksApply` and `PromptTrue`, which are about what the folds of `CommitDiff` compute;
`RowsTrue` of `ModelPicker`, whose rows are filtered and sorted copies; `TabsTrue` of `ChatPage`,
where a tab is the fold of all the batches it was given. What a fold computes for every input is
induction over data, which no installed prover can do.

## 5. Not modelled

* Of the registry: the dedupe table of answered sends, sequence numbers of batches,
  remembered permissions and write approvals, titles, unread flags, `dispose()` at exit.
* Of the RPC layer: registration of handlers, notifications without an answer, size
  limits, duplicated header lines; the JSON codecs, which keep no state.
* Of the WebSocket server: the origin check, a factory that throws, `close()` at exit.
* Of the delivery service: `dispose()`.
* Of the provider configuration: several agent directories, the agents of other projects (they
  read the same `models.yml`, and nothing clears their caches), the `AuthStorage` that sessions
  go on using after it is closed (what a closed store does is the OMP SDK's).
* Of the settings: that several pages replace the stored recents, as they do the pins (a
  ModelPicker has one parent); the snapshot cache, the forms of the dialogs.
* The code generator, the JCEF panel's life cycle, workspace persistence and the shared type
  declarations: text, platform calls and data.
* What is text or rendering: prompts, YAML, labels, layout.

## 6. Plan

1. Proofs: of `RowsTrue`, that the active row is on the list; of `TabsTrue`, that the active
   session has a tab.
2. The two halves of the RPC layer composed over an ordered channel: a request is executed
   once and its caller settled once.
3. Dedupe and write approvals of the registry; drafts and contexts of the page.
4. The parts of `PromptTrue` that need no induction over data: what a block says of its hunks.
