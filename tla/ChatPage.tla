------------------------------ MODULE ChatPage ------------------------------
(***************************************************************************)
(* What the user sees of the chat: the page's tabs (App.tsx) and the       *)
(* stream of events, answers and questions the registry feeds them with    *)
(* (chatSessionRegistry.ts).                                               *)
(*                                                                         *)
(* A tab starts as the snapshot an answer carries and then lives on        *)
(* events.  Events wait in a batch per session, 24 ms; answers and         *)
(* questions do not, and overtake them.  A batch is dropped when no page   *)
(* is attached, an event when no tab is there for it, and a page that      *)
(* reconnects keeps the tabs it had.                                       *)
(*                                                                         *)
(* Runtimes, and who may interrupt whom at the registry's awaits, are in   *)
(* ChatSessions; the connection is AgentLink, of which only Drop, Reload   *)
(* and Attach are left.  The user's own messages, unread marks, queue      *)
(* positions, models and contexts are left out, and so are the parts that  *)
(* tools add to a message; of a turn the agent is taken to tell that it    *)
(* starts, the messages that it ends, one after the other, and that it is  *)
(* over, in this order, and its prompt to wait for the tools that ask.     *)
(***************************************************************************)
EXTENDS Naturals, Sequences, SequencesExt

CONSTANTS
  Sessions, NewSessions,  \* all sessions, and those not created yet
  Calls,                  \* bound: calls under way at once
  Questions,              \* bound: questions, each of which is asked once
  MaxTabs,                \* MAX_OPEN_TABS
  MaxTroubles,            \* bound: drops and reloads
  MaxSteps,               \* bound: those, what the user does, and what turns tell
  MaxFrames,              \* bound: frames before a batch
  Nil

ASSUME PageAssumption ==
  NewSessions \subseteq Sessions /\ Nil \notin Sessions \cup Calls \cup Questions

VARIABLES
  rec,      \* the agent's sessions: open or not, state, finished messages
  turn,     \* the active turn and how far its prompt is
  queue,    \* sessions whose turn waits
  asks,     \* requestPermission, writeTextFile and ask
  feed,     \* #pendingEvents; the timer of a session runs iff it has some
  sink,     \* #sink is the page; the page's peer is up
  tail,     \* a disconnect that awaits the abort
  toPage, toAgent,  \* the frames of the connection
  call,     \* the page's calls and what it does with their answers
  page,     \* bootstrap: how far, what it has still to open, what it has
  tabs, activeId,
  slot,     \* pendingPermission and pendingInput
  saved,    \* the workspace the host stores
  missed, rough, passed,  \* (history) see the properties
  acts, troubles, told    \* (bounds) what the user did, what failed, what turns told

agent == <<rec, turn, queue, asks, feed>>
link == <<sink, tail, toPage, toAgent>>
ui == <<page, tabs, activeId, slot, saved>>
aux == <<missed, rough, passed, acts, troubles, told>>
vars == <<agent, link, call, ui, aux>>

Kinds == {"permission", "input"}
Waiting(kind) == IF kind = "permission" THEN "waiting_permission" ELSE "waiting_input"
BusyStates == {"running", "waiting_permission", "waiting_input"}
States == BusyStates \cup {"idle", "queued", "completed", "error"}
NoTurn == [of |-> Nil, step |-> "none", first |-> 0, text |-> 0]
NoAsk == [of |-> Nil, kind |-> "input", at |-> "none", prev |-> "idle"]
NoCall == [op |-> "none", s |-> Nil, then |-> "none", at |-> "none"]

Message(id, text, status) == [id |-> id, text |-> text, status |-> status]
Ids(T) == {T[i].id : i \in DOMAIN T}
Shown == Ids(tabs)
(* Questions that have not come to the page, or not back from it.          *)
Asked(q) == \E i \in DOMAIN toPage : toPage[i].k = "ask" /\ toPage[i].q = q
Replied(q) == \E i \in DOMAIN toAgent : toAgent[i].k = "reply" /\ toAgent[i].q = q

TypeOK ==
  /\ \A s \in Sessions : rec[s].at \in {"none", "file", "open"} /\ rec[s].state \in States
  /\ turn.of \in Sessions \cup {Nil}
  /\ turn.step \in {"none", "starting", "live", "over"}
  /\ queue \in Seq(Sessions)
  /\ asks \in [Questions -> [of: Sessions \cup {Nil}, kind: Kinds,
                            at: {"none", "open", "void", "done"}, prev: States]]
  /\ sink \in BOOLEAN /\ tail \in BOOLEAN
  /\ \A c \in Calls : call[c].at \in {"none", "sent", "agent", "orphan", "answered"}
  /\ page.at \in {"loading", "restoring", "recent", "up"}
  /\ Shown \subseteq Sessions /\ activeId \in Sessions \cup {Nil}
  /\ slot \in [Kinds -> Questions \cup {Nil}]
-----------------------------------------------------------------------------
(* The bound of a behaviour: the user's acts, the drops and reloads, and   *)
(* the deltas, questions, retries and messages of the turns, but for the   *)
(* message that a run of the agent has to end.                             *)
Budget == acts + troubles + told < MaxSteps

(* Events.  #emit appends to the session's batch.                          *)
Emit(F, s, e) == [F EXCEPT ![s] = Append(@, e)]
Summary(s, state) == [k |-> "summary", s |-> s, state |-> state]
(* State and summary together, as the registry's handlers change them.     *)
SetState(R, s, state) == [R EXCEPT ![s].state = state]

(* toChatMessages names the finished messages anew; #snapshot.             *)
ToChatMessages(M) ==
  [i \in DOMAIN M |-> Message(<<"history", i>>, M[i].text, M[i].status)]
Snapshot(R, s) == [id |-> s, state |-> R[s].state, msgs |-> ToChatMessages(R[s].msgs)]

(* #flushEvents.                                                           *)
Flush(s) ==
  /\ feed[s] # <<>> /\ Len(toPage) < MaxFrames
  /\ feed' = [feed EXCEPT ![s] = <<>>]
  /\ IF sink
     THEN toPage' = Append(toPage, [k |-> "batch", s |-> s, events |-> feed[s]]) /\ UNCHANGED missed
     ELSE missed' = missed \cup {s} /\ UNCHANGED toPage
  /\ UNCHANGED <<rec, turn, queue, asks, sink, tail, toAgent, call, ui, rough, passed, acts, troubles, told>>
-----------------------------------------------------------------------------
(* #drainQueue with the slot free: the first turn whose session is open    *)
(* starts, those before it are dropped, those behind it are told so.       *)
DrainFree(q, R, F) ==
  LET I == {i \in DOMAIN q : R[q[i]].at = "open"} IN
  IF I = {} THEN queue' = <<>> /\ turn' = NoTurn /\ rec' = R /\ feed' = F
  ELSE LET i == CHOOSE j \in I : \A k \in I : j <= k
           rest == SubSeq(q, i + 1, Len(q))
           State(s) == IF s = q[i] THEN "running" ELSE "queued"
           heard == {q[i]} \cup {s \in ToSet(rest) : R[s].at = "open"}
       IN /\ queue' = rest
          /\ turn' = [NoTurn EXCEPT !.of = q[i], !.step = "starting"]
          /\ rec' = [s \in Sessions |-> IF s \in heard THEN [R[s] EXCEPT !.state = State(s)] ELSE R[s]]
          /\ feed' = [s \in Sessions |->
                        IF s \in heard THEN Append(F[s], Summary(s, State(s))) ELSE F[s]]

(* agent_start: a run of the agent begins, under a name that all of its    *)
(* messages share in the stream.  The name stands for the messages that    *)
(* end from then on.  A prompt may run the agent again, after an error.    *)
LiveId == <<"live", turn.first>>
Live == turn.step = "live"
Tells == Budget /\ told' = told + 1
Begins ==
  /\ \/ turn.step = "starting" /\ UNCHANGED told
     \/ turn.step = "over" /\ Tells
  /\ turn' = [turn EXCEPT !.step = "live", !.first = Len(rec[turn.of].msgs) + 1]
  /\ feed' = Emit(feed, turn.of, [k |-> "message", s |-> turn.of, m |-> Message(LiveId', 0, "streaming")])
  /\ UNCHANGED <<rec, queue, asks, link, call, ui, missed, rough, passed, acts, troubles>>

(* message_update; the parts of tools come the same way.                   *)
Delta ==
  /\ Live /\ Tells
  /\ turn' = [turn EXCEPT !.text = @ + 1]
  /\ feed' = Emit(feed, turn.of, [k |-> "partDelta", s |-> turn.of, id |-> LiveId])
  /\ UNCHANGED <<rec, queue, asks, link, call, ui, missed, rough, passed, acts, troubles>>

(* message_end, with some text or with none (a call of a tool), by itself  *)
(* or because it is aborted.  The name stays: tools and further messages   *)
(* follow.                                                                 *)
Aborting(s) == tail \/ \E c \in Calls : call[c].op = "abort" /\ call[c].s = s /\ call[c].at \in {"agent", "orphan"}
MessageEnds ==
  /\ Live
  /\ IF Len(rec[turn.of].msgs) < turn.first THEN UNCHANGED told ELSE Tells
  /\ \E status \in {"complete", "aborted"} :
       /\ status = "aborted" => Aborting(turn.of)
       /\ feed' = Emit(feed, turn.of,
                       [k |-> "messageStatus", s |-> turn.of, id |-> LiveId, status |-> status])
       /\ rec' = [rec EXCEPT ![turn.of].msgs = Append(@, [text |-> turn.text, status |-> status])]
  /\ turn' = [turn EXCEPT !.text = 0]
  /\ UNCHANGED <<queue, asks, link, call, ui, missed, rough, passed, acts, troubles>>

(* agent_end, behind at least one message.                                 *)
AgentEnds ==
  /\ Live /\ turn.text = 0 /\ Len(rec[turn.of].msgs) >= turn.first
  /\ turn' = [turn EXCEPT !.step = "over"]
  /\ UNCHANGED <<rec, queue, asks, feed, link, call, ui, aux>>

(* The end of #drainQueue: the outcome, and its summary, and the next turn.*)
Complete(s, state) == <<[k |-> "turnComplete", s |-> s, state |-> state], Summary(s, state)>>
TurnEnds ==
  /\ turn.step \in {"starting", "over"}
  /\ \A q \in Questions : asks[q].at \notin {"open", "void"}
  /\ LET state == IF turn.step = "starting" THEN "error"
                  ELSE IF Last(rec[turn.of].msgs).status = "complete" THEN "completed" ELSE "idle"
     IN DrainFree(queue, SetState(rec, turn.of, state),
                  [feed EXCEPT ![turn.of] = @ \o Complete(turn.of, state)])
  /\ UNCHANGED <<asks, link, call, ui, aux>>

(* requestPermission (writeTextFile has it too) and ask: the state is      *)
(* saved, the question goes to the page at once, and the state is put back *)
(* when it ends.  Several may be open, of one kind too.  Without a page    *)
(* they are cancelled where they stand.                                    *)
OpenAsks(kind) == {x \in Questions : asks[x].at = "open" /\ asks[x].kind = kind}
Ask(q, kind) ==
  /\ Live /\ sink /\ Tells
  /\ asks[q].at = "none" /\ q = CHOOSE x \in Questions : asks[x].at = "none"
  /\ asks' = [asks EXCEPT ![q] = [of |-> turn.of, kind |-> kind, at |-> "open", prev |-> rec[turn.of].state]]
  /\ rec' = SetState(rec, turn.of, Waiting(kind))
  /\ feed' = Emit(feed, turn.of, Summary(turn.of, Waiting(kind)))
  /\ toPage' = Append(toPage, [k |-> "ask", q |-> q])
  /\ passed' = passed \cup OpenAsks(kind)
  /\ UNCHANGED <<turn, queue, sink, tail, toAgent, call, ui, missed, rough, acts, troubles>>

(* A mutation of AskEnds: the state put back is not told.                  *)
StateBefore(q) == IF asks[q].prev = Waiting(asks[q].kind) THEN "running" ELSE asks[q].prev
AskEndsUntold(q) ==
  /\ rec' = SetState(rec, asks[q].of, StateBefore(q))
  /\ asks' = [asks EXCEPT ![q].at = "done"]
  /\ UNCHANGED feed
AskEnds(q) ==
  /\ rec' = SetState(rec, asks[q].of, StateBefore(q))
  /\ feed' = Emit(feed, asks[q].of, Summary(asks[q].of, StateBefore(q)))
  /\ asks' = [asks EXCEPT ![q].at = "done"]

(* The call of a lost connection is rejected.                              *)
AskFails(q) ==
  /\ asks[q].at = "void"
  /\ AskEnds(q)
  /\ UNCHANGED <<turn, queue, link, call, ui, aux>>
-----------------------------------------------------------------------------
(* The registry's handlers.                                                *)
Answer(c, T) == Append(T, [k |-> "ok", c |-> c, tab |-> Nil])
AnswerTab(c, T, tab) == Append(T, [k |-> "ok", c |-> c, tab |-> tab])
Refuse(c) == toPage' = Append(toPage, [k |-> "failed", c |-> c, tab |-> Nil])
At(c, at) == call' = [call EXCEPT ![c].at = at]

(* sendChatMessage.                                                        *)
SendChatMessage(c, s) ==
  LET q == Append(queue, s)
      state == IF turn.of = Nil THEN "running" ELSE "queued"
      R == SetState(rec, s, state)
      F == Emit(feed, s, Summary(s, state))
  IN /\ At(c, "answered")
     /\ IF rec[s].at # "open" \/ s \in ToSet(queue) \/ turn.of = s
        THEN Refuse(c) /\ UNCHANGED <<rec, turn, queue, feed>>
        ELSE /\ toPage' = Answer(c, toPage)
             /\ IF turn.of = Nil THEN DrainFree(q, R, F)
                ELSE queue' = q /\ rec' = R /\ feed' = F /\ UNCHANGED turn
     /\ UNCHANGED rough

(* cancelQueuedTurn, on its own and as the start of other handlers.        *)
Withdraw(s) ==
  IF s \notin ToSet(queue) THEN UNCHANGED <<queue, rec, feed>>
  ELSE LET q == SelectSeq(queue, LAMBDA x : x # s)
           heard == {x \in {s} \cup ToSet(q) : rec[x].at = "open"}
           State(x) == IF x = s THEN "idle" ELSE "queued"
       IN /\ queue' = q
          /\ rec' = [x \in Sessions |-> IF x \in heard THEN [rec[x] EXCEPT !.state = State(x)] ELSE rec[x]]
          /\ feed' = [x \in Sessions |->
                        IF x \in heard THEN Append(feed[x], Summary(x, State(x))) ELSE feed[x]]
CancelQueuedTurn(c, s) ==
  /\ Withdraw(s)
  /\ At(c, "answered") /\ toPage' = Answer(c, toPage)
  /\ UNCHANGED <<turn, rough>>

(* abortChatTurn: of a running turn it awaits the end of the prompt; with  *)
(* no runtime to abort yet it returns at once.                             *)
AbortChatTurn(c, s) ==
  /\ IF turn.of # s THEN Withdraw(s) ELSE UNCHANGED <<queue, rec, feed>>
  /\ \/ /\ turn.of # s \/ turn.step = "starting"
        /\ At(c, "answered") /\ toPage' = Answer(c, toPage)
     \/ turn.of = s /\ At(c, "agent") /\ UNCHANGED toPage
  /\ UNCHANGED <<turn, rough>>

(* releaseChatSession up to its await.                                     *)
ReleaseChatSession(c, s) ==
  /\ IF rec[s].at # "open" \/ turn.of = s
     THEN At(c, "answered") /\ Refuse(c) /\ UNCHANGED <<queue, rec, feed>>
     ELSE Withdraw(s) /\ At(c, "agent") /\ UNCHANGED toPage
  /\ UNCHANGED <<turn, rough>>

(* openChatSession and createChatSession wait for their runtime.           *)
Waits(c) == At(c, "agent") /\ UNCHANGED <<rec, turn, queue, feed, toPage, rough>>

Receive ==
  /\ toAgent # <<>> /\ toAgent' = Tail(toAgent)
  /\ LET f == Head(toAgent) IN
     \/ /\ f.k = "call"
        /\ LET c == f.c  op == call[f.c].op  s == call[f.c].s IN
           \/ op = "send" /\ SendChatMessage(c, s)
           \/ op = "cancel" /\ CancelQueuedTurn(c, s)
           \/ op = "abort" /\ AbortChatTurn(c, s)
           \/ op = "release" /\ ReleaseChatSession(c, s)
           \/ op \in {"open", "create"} /\ Waits(c)
        /\ UNCHANGED asks
     \/ /\ f.k = "reply"
        /\ IF asks[f.q].at = "open" THEN AskEnds(f.q) ELSE UNCHANGED <<rec, feed, asks>>
        /\ UNCHANGED <<turn, queue, toPage, call, rough>>
  /\ UNCHANGED <<sink, tail, ui, missed, passed, acts, troubles, told>>

(* The answer of a handler that waited; a lost page gets none.             *)
Respond(c, frame) ==
  IF call[c].at = "agent" THEN At(c, "answered") /\ toPage' = Append(toPage, frame)
  ELSE call' = [call EXCEPT ![c] = NoCall] /\ UNCHANGED toPage
AtAgent(c, op) == call[c].op = op /\ call[c].at \in {"agent", "orphan"}

(* The snapshot of an open session replaces what was missed; if a turn of  *)
(* it is streaming, or events wait, those will be told again.              *)
Opened(c) ==
  LET s == call[c].s
      R == IF rec[s].at = "open" THEN rec ELSE [rec EXCEPT ![s].at = "open", ![s].state = "idle"]
  IN /\ AtAgent(c, "open") /\ rec[s].at # "none"
     /\ rec' = R
     /\ Respond(c, [k |-> "ok", c |-> c, tab |-> Snapshot(R, s)])
     /\ missed' = missed \ {s}
     /\ rough' = IF feed[s] # <<>> \/ (turn.of = s /\ Live) THEN rough \cup {s} ELSE rough \ {s}
     /\ UNCHANGED <<turn, queue, asks, feed, sink, tail, toAgent, ui, passed, acts, troubles, told>>

(* A new session is announced by an event too.                             *)
Created(c) ==
  \E s \in Sessions :
    LET R == [rec EXCEPT ![s].at = "open", ![s].state = "idle"] IN
    /\ AtAgent(c, "create") /\ rec[s].at = "none"
    /\ rec' = R
    /\ feed' = Emit(feed, s, [k |-> "snapshot", s |-> s, tab |-> Snapshot(R, s)])
    /\ Respond(c, [k |-> "ok", c |-> c, tab |-> Snapshot(R, s)])
    /\ UNCHANGED <<turn, queue, asks, sink, tail, toAgent, ui, aux>>

CallFails(c) ==
  /\ AtAgent(c, "open") \/ AtAgent(c, "create")
  /\ Respond(c, [k |-> "failed", c |-> c, tab |-> Nil])
  /\ UNCHANGED <<agent, sink, tail, toAgent, ui, aux>>

Aborted(c) ==
  /\ AtAgent(c, "abort") /\ (turn.of = call[c].s => ~Live)
  /\ Respond(c, [k |-> "ok", c |-> c, tab |-> Nil])
  /\ UNCHANGED <<agent, sink, tail, toAgent, ui, aux>>

Released(c) ==
  LET s == call[c].s IN
  /\ AtAgent(c, "release")
  /\ rec' = [rec EXCEPT ![s].at = "file"]
  /\ feed' = Emit(feed, s, [k |-> "sessionReleased", s |-> s])
  /\ Respond(c, [k |-> "ok", c |-> c, tab |-> Nil])
  /\ UNCHANGED <<turn, queue, asks, sink, tail, toAgent, ui, aux>>
-----------------------------------------------------------------------------
(* applyEvent, on the tabs T.                                              *)
UpsertTab(T, tab) ==
  IF tab.id \in Ids(T) THEN [i \in DOMAIN T |-> IF T[i].id = tab.id THEN tab ELSE T[i]]
  ELSE Append(T, tab)

(* What an event does to its message, and to the messages of its tab: one  *)
(* that is not there is begun.                                             *)
Updated(m, e) ==
  CASE e.k = "message" -> e.m
    [] e.k = "partDelta" -> [m EXCEPT !.text = @ + 1]
    [] e.k = "messageStatus" -> [m EXCEPT !.status = e.status]
UpdateMessage(M, e) ==
  LET id == IF e.k = "message" THEN e.m.id ELSE e.id
      source == IF id \in Ids(M) THEN M ELSE Append(M, Message(id, 0, "streaming"))
  IN [i \in DOMAIN source |-> IF source[i].id = id THEN Updated(source[i], e) ELSE source[i]]

UpdateTab(t, e) ==
  IF e.k \in {"summary", "turnComplete"} THEN [t EXCEPT !.state = e.state]
  ELSE [t EXCEPT !.msgs = UpdateMessage(@, e)]

ApplyEvent(T, e) ==
  CASE e.k = "snapshot" -> UpsertTab(T, e.tab)
    [] e.k = "sessionReleased" -> SelectSeq(T, LAMBDA t : t.id # e.s)
    [] OTHER -> [i \in DOMAIN T |-> IF T[i].id = e.s THEN UpdateTab(T[i], e) ELSE T[i]]

(* applyBatch.  A mutation: the end of a turn closes the dialogs.          *)
NoSlots == [kind \in Kinds |-> Nil]
ApplyBatchClosing(f) ==
  /\ tabs' = FoldLeft(ApplyEvent, tabs, f.events)
  /\ slot' = IF \E i \in DOMAIN f.events : f.events[i].k = "turnComplete" THEN NoSlots ELSE slot
ApplyBatch(f) == tabs' = FoldLeft(ApplyEvent, tabs, f.events) /\ UNCHANGED slot

(* What a batch tells of a session without a tab is lost, unless a         *)
(* snapshot of the session is behind it.                                   *)
Unheard(f) ==
  /\ f.s \notin Shown
  /\ f.events[1].k # "snapshot"
  /\ \A i \in DOMAIN toPage : toPage[i].k = "ok" /\ toPage[i].tab # Nil => toPage[i].tab.id # f.s

BatchArrives(f) ==
  /\ ApplyBatch(f)
  /\ missed' = IF Unheard(f) THEN missed \cup {f.s} ELSE missed
  /\ UNCHANGED <<toAgent, call, page, activeId, saved>>

(* One slot for each kind of question: the last of its kind takes it.      *)
QuestionArrives(f) ==
  /\ slot' = [slot EXCEPT ![asks[f.q].kind] = f.q]
  /\ UNCHANGED <<toAgent, call, page, tabs, activeId, saved, missed>>
-----------------------------------------------------------------------------
(* The page's operations.  Busy and queued are what the tab shows.         *)
StateOf(T, s) == T[CHOOSE i \in DOMAIN T : T[i].id = s].state
Closing(s) == \E c \in Calls : call[c].s = s /\ (call[c].op = "release" \/ call[c].then = "release")
FreeCalls == {c \in Calls : call[c].op = "none"}
Calling(op, s, then, at) == [op |-> op, s |-> s, then |-> then, at |-> at]

(* A call goes out, or fails at once where the peer is closed.             *)
CallAgent(C, op, s, then) ==
  LET c == CHOOSE x \in Calls : C[x].op = "none" IN
    /\ \E x \in Calls : C[x].op = "none"
    /\ call' = [C EXCEPT ![c] = Calling(op, s, then, "sent")]
    /\ toAgent' = Append(toAgent, [k |-> "call", c |-> c])

(* activate, with persistWorkspace.                                        *)
ActivateIn(T, s) ==
  /\ activeId' = s
  /\ saved' = [ids |-> [i \in DOMAIN T |-> T[i].id], active |-> s]

Act == Budget /\ acts' = acts + 1
UserCall(op, s, then) ==
  /\ Act /\ page.at = "up" /\ sink
  /\ CallAgent(call, op, s, then)
  /\ UNCHANGED <<agent, sink, tail, toPage, page, tabs, slot, missed, rough, passed, troubles, told>>

Activate(s) ==
  /\ s \in Shown /\ activeId # s /\ page.at = "up"
  /\ ActivateIn(tabs, s)
  /\ UNCHANGED <<agent, link, call, page, tabs, slot, aux>>
NewSession ==
  /\ Len(tabs) < MaxTabs
  /\ UserCall("create", Nil, "tab")
  /\ UNCHANGED <<activeId, saved>>
(* openRecent.  The user waits for the answer to what he asked of the      *)
(* session before, and for the 24 ms of the batch that tells of it.        *)
Announced(s) ==
  LET Has(E) == \E i \in DOMAIN E : E[i].k \in {"snapshot", "sessionReleased"} IN
  Has(feed[s]) \/ \E i \in DOMAIN toPage : toPage[i].k = "batch" /\ toPage[i].s = s /\ Has(toPage[i].events)
OpenRecent(s) ==
  /\ s \notin Shown /\ Len(tabs) < MaxTabs /\ rec[s].at # "none"
  /\ ~Announced(s)
  /\ UserCall("open", s, "tab")
  /\ ~\E c \in Calls : call[c].s = s \/ call[c].op = "create"
  /\ UNCHANGED <<activeId, saved>>
CloseSession(s) ==
  /\ s \in Shown
  /\ IF StateOf(tabs, s) \in BusyStates THEN UserCall("abort", s, "release")
     ELSE UserCall("release", s, "remove")
  /\ UNCHANGED <<activeId, saved>>
SendMessage ==
  /\ activeId \in Shown /\ StateOf(tabs, activeId) \notin BusyStates \cup {"queued"}
  /\ ~Closing(activeId)
  /\ UserCall("send", activeId, "none")
  /\ UNCHANGED <<activeId, saved>>
StopOrCancel ==
  /\ activeId \in Shown /\ StateOf(tabs, activeId) \in BusyStates \cup {"queued"}
  /\ UserCall(IF StateOf(tabs, activeId) = "queued" THEN "cancel" ELSE "abort", activeId, "none")
  /\ UNCHANGED <<activeId, saved>>

(* respondPermission, respondInput.                                        *)
RespondToUser(kind) ==
  /\ slot[kind] # Nil
  /\ slot' = [slot EXCEPT ![kind] = Nil]
  /\ toAgent' = IF sink THEN Append(toAgent, [k |-> "reply", q |-> slot[kind]]) ELSE toAgent
  /\ UNCHANGED <<agent, sink, tail, toPage, call, page, tabs, activeId, saved, aux>>
-----------------------------------------------------------------------------
(* What the page does with an answer.                                      *)
Without(c) == [call EXCEPT ![c] = NoCall]

(* bootstrap's end: what was opened becomes the tabs.                      *)
EndRestore(got) ==
  /\ page' = [at |-> "up", left |-> <<>>, got |-> <<>>]
  /\ IF got = <<>> THEN UNCHANGED <<tabs, activeId, saved>>
     ELSE tabs' = got /\ ActivateIn(got, IF saved.active \in Ids(got) THEN saved.active ELSE got[1].id)

(* One more is open, or not: it ends with the last of the workspace, with  *)
(* the first recent one, and in any case with the new one.                 *)
Restored(op, ok, got) ==
  IF op = "create" \/ (got # <<>> /\ (page.left = <<>> \/ (page.at = "recent" /\ ok)))
  THEN EndRestore(got)
  ELSE page' = [page EXCEPT !.got = got] /\ UNCHANGED <<tabs, activeId, saved>>

(* closeSession behind the release.                                        *)
Removed(c, s) ==
  LET T == SelectSeq(tabs, LAMBDA t : t.id # s) IN
  /\ tabs' = T
  /\ IF T = <<>> THEN CallAgent(Without(c), "create", Nil, "tab") /\ UNCHANGED activeId
     ELSE call' = Without(c) /\ UNCHANGED toAgent /\ activeId' = IF activeId = s THEN T[1].id ELSE activeId
  /\ saved' = [ids |-> [i \in DOMAIN T |-> T[i].id], active |-> activeId']
  /\ UNCHANGED page

AnswerArrives(f) ==
  LET c == f.c  then == call[f.c].then  s == call[f.c].s IN
  /\ \/ /\ then = "none" \/ (f.k = "failed" /\ then # "restore")
        /\ call' = Without(c) /\ UNCHANGED <<toAgent, page, tabs, activeId, saved>>
     \/ /\ then = "restore"
        /\ Restored(call[c].op, f.k = "ok", IF f.k = "ok" THEN Append(page.got, f.tab) ELSE page.got)
        /\ call' = Without(c) /\ UNCHANGED toAgent
     \/ /\ f.k = "ok" /\ then = "tab"
        /\ tabs' = Append(tabs, f.tab) /\ ActivateIn(tabs', f.tab.id)
        /\ call' = Without(c) /\ UNCHANGED <<toAgent, page>>
     \/ /\ f.k = "ok" /\ then = "release"
        /\ CallAgent(Without(c), "release", s, "remove")
        /\ UNCHANGED <<page, tabs, activeId, saved>>
     \/ f.k = "ok" /\ then = "remove" /\ Removed(c, s)
  /\ UNCHANGED <<slot, missed>>

PageReceives ==
  /\ toPage # <<>> /\ toPage' = Tail(toPage)
  /\ LET f == Head(toPage) IN
     \/ f.k = "batch" /\ BatchArrives(f)
     \/ f.k = "ask" /\ QuestionArrives(f)
     \/ f.k \in {"ok", "failed"} /\ AnswerArrives(f)
  /\ UNCHANGED <<agent, sink, tail, rough, passed, acts, troubles, told>>

(* bootstrap goes on: the sessions of the workspace one by one; if none    *)
(* could be opened, a recent one; if there is none either, a new one.      *)
Restoring == \E c \in Calls : call[c].then = "restore" /\ call[c].at # "orphan"
RestoreNext ==
  /\ page.at \in {"restoring", "recent"} /\ ~Restoring /\ sink
  /\ \/ /\ page.left # <<>>
        /\ CallAgent(call, "open", Head(page.left), "restore")
        /\ page' = [page EXCEPT !.left = Tail(@)]
     \/ /\ page.left = <<>> /\ page.at = "restoring"
        /\ page' = [page EXCEPT !.at = "recent", !.left = SetToSeq({s \in Sessions : rec[s].at # "none"})]
        /\ UNCHANGED <<call, toAgent>>
     \/ /\ page.left = <<>> /\ page.at = "recent"
        /\ CallAgent(call, "create", Nil, "restore")
        /\ UNCHANGED page
  /\ UNCHANGED <<agent, sink, tail, toPage, tabs, activeId, slot, saved, aux>>
-----------------------------------------------------------------------------
(* The connection goes: the page's calls are rejected, what was on its way *)
(* is lost; the registry disconnects.                                      *)
Void(A) == [q \in Questions |-> IF A[q].at = "open" THEN [A[q] EXCEPT !.at = "void"] ELSE A[q]]
Trouble == Budget /\ troubles < MaxTroubles /\ troubles' = troubles + 1
Disconnect ==
  /\ sink /\ ~tail /\ Trouble
  /\ sink' = FALSE /\ toPage' = <<>> /\ toAgent' = <<>>
  /\ queue' = <<>> /\ asks' = Void(asks)
  /\ LET queued == {s \in Sessions : rec[s].at = "open" /\ rec[s].state = "queued"}
         heard == {s \in Sessions : \E i \in DOMAIN toPage : toPage[i].k = "batch" /\ toPage[i].s = s}
     IN /\ missed' = missed \cup queued \cup heard
        /\ IF turn.of # Nil THEN tail' = TRUE /\ UNCHANGED rec
           ELSE /\ rec' = [s \in Sessions |-> IF s \in queued THEN [rec[s] EXCEPT !.state = "idle"] ELSE rec[s]]
                /\ UNCHANGED tail
  /\ call' = [c \in Calls |-> IF call[c].at \in {"agent", "orphan"}
                              THEN [call[c] EXCEPT !.at = "orphan", !.then = "none"] ELSE NoCall]
  /\ UNCHANGED <<turn, feed, rough, passed, acts, told>>

(* A page that was restoring makes do with what it has.                    *)
Drop ==
  /\ Disconnect
  /\ IF page.at \in {"restoring", "recent"} THEN EndRestore(page.got)
     ELSE UNCHANGED <<page, tabs, activeId, saved>>
  /\ UNCHANGED slot
Reload ==
  /\ Disconnect
  /\ page' = [at |-> "loading", left |-> <<>>, got |-> <<>>]
  /\ tabs' = <<>> /\ activeId' = Nil /\ slot' = NoSlots
  /\ UNCHANGED saved

(* The rest of disconnect, behind the abort.                               *)
DisconnectTail ==
  LET queued == {s \in Sessions : rec[s].at = "open" /\ rec[s].state = "queued"} IN
  /\ tail /\ ~Live
  /\ tail' = FALSE
  /\ rec' = [s \in Sessions |-> IF s \in queued THEN [rec[s] EXCEPT !.state = "idle"] ELSE rec[s]]
  /\ missed' = missed \cup queued
  /\ UNCHANGED <<turn, queue, asks, feed, sink, toPage, toAgent, call, ui, rough, passed, acts, troubles, told>>

(* connectOnce has succeeded; a page that loads restores its workspace.    *)
(* That takes longer than the 24 ms of the batches from before.            *)
Attach ==
  /\ ~sink /\ \A s \in Sessions : feed[s] = <<>>
  /\ sink' = TRUE
  /\ page' = IF page.at = "loading" THEN [page EXCEPT !.at = "restoring", !.left = saved.ids] ELSE page
  /\ UNCHANGED <<agent, tail, toPage, toAgent, call, tabs, activeId, slot, saved, aux>>
-----------------------------------------------------------------------------
Init ==
  /\ \E New \in {{}, NewSessions} :
       /\ rec = [s \in Sessions |-> [at |-> IF s \in New THEN "none" ELSE "file",
                                     state |-> "idle", msgs |-> <<>>]]
       /\ LET ids == SetToSeq(Sessions \ New) IN
          saved \in {[ids |-> <<>>, active |-> Nil], [ids |-> ids, active |-> Last(ids)]}
  /\ turn = NoTurn /\ queue = <<>> /\ asks = [q \in Questions |-> NoAsk]
  /\ feed = [s \in Sessions |-> <<>>] /\ sink = FALSE /\ tail = FALSE
  /\ toPage = <<>> /\ toAgent = <<>> /\ call = [c \in Calls |-> NoCall]
  /\ page = [at |-> "loading", left |-> <<>>, got |-> <<>>]
  /\ tabs = <<>> /\ activeId = Nil /\ slot = NoSlots
  /\ missed = {} /\ rough = {} /\ passed = {} /\ acts = 0 /\ troubles = 0 /\ told = 0

Turns ==
  \/ Begins \/ Delta \/ MessageEnds \/ AgentEnds \/ TurnEnds
  \/ \E q \in Questions : AskFails(q) \/ \E kind \in Kinds : Ask(q, kind)
Handlers == Receive \/ \E c \in Calls : Opened(c) \/ Created(c) \/ CallFails(c) \/ Aborted(c) \/ Released(c)
User ==
  \/ NewSession \/ SendMessage \/ StopOrCancel \/ \E kind \in Kinds : RespondToUser(kind)
  \/ \E s \in Sessions : Activate(s) \/ OpenRecent(s) \/ CloseSession(s)
Link == Drop \/ Reload \/ DisconnectTail \/ Attach
Next == Turns \/ Handlers \/ User \/ Link \/ PageReceives \/ RestoreNext \/ \E s \in Sessions : Flush(s)
Spec == Init /\ [][Next]_vars
-----------------------------------------------------------------------------
(* Nothing about s is on its way to the page.                              *)
Quiet(s) ==
  /\ sink /\ page.at = "up" /\ feed[s] = <<>>
  /\ \A i \in DOMAIN toPage : toPage[i].k = "batch" => toPage[i].s # s
  /\ \A c \in Calls : call[c].s = s => call[c].op \notin {"open", "release"}
(* A tab's message stands for the messages of the session from the one it  *)
(* is named after to the one the next is named after: a finished one for   *)
(* itself, one that was streamed for all that its run of the agent told,   *)
(* with the text of all of them and the status of the last that ended.     *)
Text(M) == FoldLeft(LAMBDA sum, m : sum + m.text, 0, M)
Shows(s, M) ==
  LET msgs == rec[s].msgs
      live == turn.of = s /\ Live
      From(i) == M[i].id[2]
      To(i) == IF i < Len(M) THEN From(i + 1) - 1 ELSE Len(msgs)
      Streams(i) == live /\ i = Len(M)
  IN /\ IF M = <<>> THEN msgs = <<>> /\ ~live ELSE From(1) = 1
     /\ live => Last(M).id = LiveId
     /\ \A i \in DOMAIN M :
          /\ From(i) <= To(i) \/ Streams(i)
          /\ M[i].id[1] = "history" => From(i) = To(i)
          /\ M[i].text = Text(SubSeq(msgs, From(i), To(i))) + (IF Streams(i) THEN turn.text ELSE 0)
          /\ M[i].status = IF From(i) > To(i) THEN "streaming" ELSE msgs[To(i)].status

(* Once nothing about a session is on its way, its tab shows the state the *)
(* registry has, and everything that was said or streamed, once and in its *)
(* order, however answers, questions and the batches of several sessions   *)
(* overtake each other, and though the tab has one message where the       *)
(* session has several.  Except: the page missed something (it was not     *)
(* attached, or had no tab yet), or (for messages) opened the session in   *)
(* mid-turn.  A session has one tab, though an answer and an event         *)
(* announce it; and while the connection holds, the active session has one *)
(* once nothing is under way (App.tsx:453-563, 636-698).                   *)
TabsTrue ==
  /\ \A i \in DOMAIN tabs :
       LET s == tabs[i].id IN
       Quiet(s) /\ s \notin missed =>
         /\ rec[s].at = "open" /\ tabs[i].state = rec[s].state
         /\ s \notin rough => Shows(s, tabs[i].msgs)
  /\ \A i, j \in DOMAIN tabs : tabs[i].id = tabs[j].id => i = j
  /\ troubles = 0 /\ tabs # <<>> /\ FreeCalls = Calls => activeId \in Shown

(* A question the agent waits for is on its way to the page, shown, or     *)
(* answered, unless a later one of its kind was asked while it was open:   *)
(* that one takes the page's slot, and nothing else does.                  *)
NoQuestionLost ==
  \A q \in Questions \ passed :
    asks[q].at = "open" => Asked(q) \/ slot[asks[q].kind] = q \/ Replied(q)
=============================================================================
