---------------------------- MODULE ChatSessions ----------------------------
(***************************************************************************)
(* The chat registry of the Bun agent: ChatSessionRegistry over            *)
(* SerialTurnScheduler (vibefly-agent/src/chatSessionRegistry.ts,          *)
(* chatScheduler.ts).                                                      *)
(*                                                                         *)
(* The agent is one JavaScript thread, so an action is the code from one   *)
(* await to the next; what an await suspends is a phase: of a turn (the    *)
(* drainQueue activation that runs it), of an RPC call, of a disconnect,   *)
(* or of a question put to the user.  An await that nothing can make wait  *)
(* (an async function that returns at once) is folded into its caller.     *)
(*                                                                         *)
(* A record and a runtime are objects: the map #records holds a record     *)
(* under its session, and a turn or a call keeps the one it captured, even *)
(* when the map has moved on.                                              *)
(***************************************************************************)
EXTENDS Naturals, Sequences, FiniteSets

CONSTANTS Sessions,     \* session ids
          NewSessions,  \* ids that no session file has yet (for createChatSession)
          Messages,     \* client message ids; one turn is made for each
          Records,      \* SessionRecord objects
          Runtimes,     \* AgentSession objects of the OMP SDK
          Calls,        \* RPC calls that may be suspended at the same time
          Questions,    \* permission and input requests open at the same time
          MaxRuntimes,  \* MAX_RUNTIME_SESSIONS
          MaxTails,     \* disconnects that may be suspended at the same time
          Outcomes,     \* how a turn may end: states its record is left in
          LateAnswers,  \* may a question outlive the prompt that asked it?
          Nil

ASSUME ChatAssumption ==
    /\ NewSessions \subseteq Sessions
    /\ Nil \notin Sessions \cup Messages \cup Records \cup Runtimes
    /\ MaxRuntimes \in Nat \ {0}
    /\ MaxTails \in Nat
    /\ Outcomes \subseteq {"completed", "idle", "error"}
    /\ LateAnswers \in BOOLEAN

VARIABLES
    records,   \* #records: session -> its record, or Nil
    rec,       \* the record objects: summary.state and runtime
    live,      \* runtimes created and not disposed
    fresh,     \* session ids not handed out yet
    queue,     \* #scheduler.queued
    active,    \* #scheduler.active, or Nil
    turn,      \* PendingTurn and the drainQueue activation of each message
    calls,     \* suspended RPC calls
    asks,      \* suspended requestToolPermission / requestUserInput calls
    sink,      \* is a UI attached (#sink)?
    tails      \* disconnects suspended at the abort of the running prompt

vars == <<records, rec, live, fresh, queue, active, turn, calls, asks, sink, tails>>

-----------------------------------------------------------------------------
SessionStates == {"idle", "queued", "running", "waiting_permission",
                  "waiting_input", "completed", "error"}

(* States that evictRuntime leaves alone.                                  *)
Busy == {"running", "waiting_permission", "waiting_input"}

QuestionKinds == {"waiting_permission", "waiting_input"}

TurnPhases == {"none", "queued", "ensuring", "evicting", "prompting", "done", "dropped"}

(* A turn that drainQueue has started and not finished.                    *)
InFlight == {"ensuring", "evicting", "prompting"}

CallOps == {"open", "create", "models", "setModel", "release"}

CallPhases == {"idle", "lookup", "creating", "evicting", "applying", "disposing"}

NoTurn == [phase |-> "none", session |-> Nil, record |-> Nil, runtime |-> Nil]

NoCall == [op |-> "open", phase |-> "idle", session |-> Nil, record |-> Nil]

NoQuestion == [kind |-> "none", turn |-> Nil, record |-> Nil, previous |-> "idle"]

NewRecord == [state |-> "idle", runtime |-> Nil]

RecordType == [state : SessionStates, runtime : Runtimes \cup {Nil}]

TurnType == [phase : TurnPhases, session : Sessions \cup {Nil},
             record : Records \cup {Nil}, runtime : Runtimes \cup {Nil}]

CallType == [op : CallOps, phase : CallPhases, session : Sessions \cup {Nil},
             record : Records \cup {Nil}]

QuestionType == [kind : QuestionKinds \cup {"none"}, turn : Messages \cup {Nil},
                 record : Records \cup {Nil}, previous : SessionStates]

TypeOK ==
    /\ records \in [Sessions -> Records \cup {Nil}]
    /\ rec \in [Records -> RecordType]
    /\ live \subseteq Runtimes
    /\ fresh \subseteq Sessions
    /\ queue \in Seq(Messages)
    /\ active \in Messages \cup {Nil}
    /\ turn \in [Messages -> TurnType]
    /\ calls \in [Calls -> CallType]
    /\ asks \in [Questions -> QuestionType]
    /\ sink \in BOOLEAN
    /\ tails \in 0..MaxTails

-----------------------------------------------------------------------------
(* The records and runtimes that something still holds; the others are     *)
(* free to stand for the next object the program allocates.                *)
Line == {queue[i] : i \in DOMAIN queue}

HeldRecords == {records[s] : s \in Sessions}
                 \cup {turn[m].record : m \in Messages}
                 \cup {calls[c].record : c \in Calls}
                 \cup {asks[a].record : a \in Questions}

(* Which free object is taken does not matter. *)
NewRecordId == CHOOSE r \in Records : r \notin HeldRecords

NewRuntimeId == CHOOSE rt \in Runtimes : rt \notin live

IsOpen(s) == records[s] # Nil

(* Mutation of ActiveSession: the running turn is forgotten in every guard. *)
NoActiveSession == Nil

ActiveSession == IF active = Nil THEN Nil ELSE turn[active].session

HasQueuedTurn(s) == \E m \in Line : turn[m].session = s

(* #updateQueuePositions over the records R and the queue q.               *)
MarkQueued(R, q, T) ==
    [r \in Records |->
        IF \E i \in DOMAIN q : records[T[q[i]].session] = r
          THEN [R[r] EXCEPT !.state = "queued"]
          ELSE R[r]]

(* Mutations of Evictable: without its filters, and with a late threshold. *)
EvictAny(R, keep, running) ==
    {s \in Sessions : records[s] # Nil /\ R[records[s]].runtime # Nil}

EvictLate(R, keep, running) ==
    LET having == EvictAny(R, keep, running)
    IN IF Cardinality(having) <= MaxRuntimes + 1
         THEN {}
         ELSE {s \in having : s \notin {keep, running}}

(* The sessions whose runtime #evictRuntime(keep) may dispose: none when   *)
(* few enough are live, else the idle ones.  The code takes the one with   *)
(* the oldest lastAccess; any of them is taken here.                       *)
Evictable(R, keep, running) ==
    LET having == {s \in Sessions : records[s] # Nil /\ R[records[s]].runtime # Nil}
    IN IF Cardinality(having) <= MaxRuntimes
         THEN {}
         ELSE {s \in having : /\ s \notin {keep, running}
                              /\ R[records[s]].state \notin Busy}

(* #disposeRuntime up to its await: the record lets go of its runtime.     *)
Dropped(R, r) == [R EXCEPT ![r].runtime = Nil]

(* The PendingTurn that sendChatMessage puts in the line.                  *)
Submitted(t, s) == [t EXCEPT !.phase = "queued", !.session = s]

(* A turn whose runtime is there: `record.runtime!` is captured and named, *)
(* prompted and waited for; the registry reads nothing of its own between  *)
(* these awaits.                                                           *)
Captured(t, rt) == [t EXCEPT !.phase = "prompting", !.runtime = rt]

(* A mutation of Ended: the phase is not reset.                            *)
EndedKeepsPhase(t, phase) == [t EXCEPT !.session = Nil, !.record = Nil, !.runtime = Nil]

Ended(t, phase) == [t EXCEPT !.phase = phase, !.session = Nil, !.record = Nil, !.runtime = Nil]

(* startNext takes the head of the queue.  Mutation: the newest turn.      *)
IsNewest(i, I) == \A j \in I : i >= j

IsFirst(i, I) == \A j \in I : i <= j

(* #drainQueue with the slot free, queue q, records R and turns T: turns   *)
(* whose session is gone are finished on the spot, the next one starts and *)
(* runs up to its first await.                                             *)
DrainFree(q, R, T) ==
    LET startable == {i \in DOMAIN q : records[T[q[i]].session] # Nil}
    IN \/ /\ startable = {}
          /\ queue' = <<>>
          /\ active' = Nil
          /\ rec' = R
          /\ turn' = [m \in Messages |->
                        IF \E i \in DOMAIN q : q[i] = m THEN Ended(T[m], "dropped") ELSE T[m]]
       \/ \E i \in startable :
            LET m == q[i]
                r == records[T[m].session]
                rest == SubSeq(q, i + 1, Len(q))
            IN /\ IsFirst(i, startable)
               /\ queue' = rest
               /\ active' = m
               /\ rec' = MarkQueued([R EXCEPT ![r].state = "running"], rest, T)
               /\ turn' = [x \in Messages |->
                    IF x = m
                      THEN IF R[r].runtime = Nil
                             THEN [T[m] EXCEPT !.phase = "ensuring", !.record = r]
                             ELSE Captured([T[m] EXCEPT !.record = r], R[r].runtime)
                      ELSE IF \E j \in 1..(i - 1) : q[j] = x
                             THEN Ended(T[x], "dropped")
                             ELSE T[x]]

(* finish(turn) and the drainQueue behind it.  Mutation: no drainQueue.    *)
FreeSlotOnly(R, T) ==
    active' = Nil /\ rec' = R /\ turn' = T /\ UNCHANGED queue

FreeSlot(R, T) == DrainFree(queue, R, T)

-----------------------------------------------------------------------------
Init ==
    /\ records = [s \in Sessions |-> Nil]
    /\ rec = [r \in Records |-> NewRecord]
    /\ live = {}
    /\ fresh = NewSessions
    /\ queue = <<>>
    /\ active = Nil
    /\ turn = [m \in Messages |-> NoTurn]
    /\ calls = [c \in Calls |-> NoCall]
    /\ asks = [a \in Questions |-> NoQuestion]
    /\ sink = FALSE
    /\ tails = 0

-----------------------------------------------------------------------------
(* attach: the WebSocket server has authenticated a UI.                    *)
Attach ==
    /\ ~sink
    /\ sink' = TRUE
    /\ UNCHANGED <<records, rec, live, fresh, queue, active, turn, calls, asks, tails>>

(* The loop that ends disconnect.                                          *)
QueuedToIdle(R) ==
    [r \in Records |->
        IF r \in {records[s] : s \in Sessions} /\ R[r].state = "queued"
          THEN [R[r] EXCEPT !.state = "idle"]
          ELSE R[r]]

(* disconnect up to its await: the queue is dropped; the running prompt is *)
(* asked to abort when its record has a runtime, and only then does the    *)
(* rest wait.                                                              *)
Disconnect ==
    /\ sink
    /\ sink' = FALSE
    /\ queue' = <<>>
    /\ turn' = [m \in Messages |-> IF m \in Line THEN Ended(turn[m], "dropped") ELSE turn[m]]
    /\ LET s == ActiveSession
           aborts == s # Nil /\ IsOpen(s) /\ rec[records[s]].runtime # Nil
       IN \/ /\ aborts
             /\ tails < MaxTails
             /\ tails' = tails + 1
             /\ UNCHANGED rec
          \/ /\ ~aborts
             /\ rec' = QueuedToIdle(rec)
             /\ UNCHANGED tails
    /\ UNCHANGED <<records, live, fresh, active, calls, asks>>

(* disconnect after its await.                                             *)
DisconnectTail ==
    /\ tails > 0
    /\ tails' = tails - 1
    /\ rec' = QueuedToIdle(rec)
    /\ UNCHANGED <<records, live, fresh, queue, active, turn, calls, asks, sink>>

-----------------------------------------------------------------------------
(* sendChatMessage of a message id the dedupe table does not hold.  (One   *)
(* it holds is answered from the table and changes nothing.)               *)
Send(s, m) ==
    /\ sink
    /\ IsOpen(s)
    /\ turn[m].phase = "none"
    /\ ~HasQueuedTurn(s)
    /\ ActiveSession # s
    /\ LET q == Append(queue, m)
           T == [turn EXCEPT ![m] = Submitted(turn[m], s)]
           immediate == active = Nil /\ queue = <<>>
           R == [rec EXCEPT ![records[s]].state = IF immediate THEN "running" ELSE "queued"]
       IN \/ /\ active = Nil
             /\ DrainFree(q, R, T)
          \/ /\ active # Nil
             /\ queue' = q
             /\ rec' = R
             /\ turn' = T
             /\ UNCHANGED active
    /\ UNCHANGED <<records, live, fresh, calls, asks, sink, tails>>

(* cancelQueuedTurn, also what abortChatTurn does for a session that is    *)
(* not running.  (For the running one abortChatTurn asks the OMP session   *)
(* to stop and changes nothing here: TurnEnds may follow at any time.)     *)
Cancelled(s) ==
    \E i \in DOMAIN queue :
        LET rest == SubSeq(queue, 1, i - 1) \o SubSeq(queue, i + 1, Len(queue))
            idle == IF IsOpen(s) THEN [rec EXCEPT ![records[s]].state = "idle"] ELSE rec
        IN /\ turn[queue[i]].session = s
           /\ queue' = rest
           /\ turn' = [turn EXCEPT ![queue[i]] = Ended(turn[queue[i]], "dropped")]
           /\ rec' = MarkQueued(idle, rest, turn)

CancelQueuedTurn(s) ==
    /\ sink
    /\ Cancelled(s)
    /\ UNCHANGED <<records, live, fresh, active, calls, asks, sink, tails>>

-----------------------------------------------------------------------------
(* #createRuntime for record r, whose OMP session has just been made, and  *)
(* #evictRuntime(keep) behind it: the record takes the new runtime (the    *)
(* one it may have had meanwhile is forgotten, not disposed), and one      *)
(* other record may lose its own.  `waits` tells whether a dispose is      *)
(* awaited.                                                                *)
RuntimeCreated(r, keep, waits) ==
    LET rt == NewRuntimeId
        R == [rec EXCEPT ![r].runtime = rt]
        victims == Evictable(R, keep, ActiveSession)
    IN /\ live # Runtimes
       /\ \/ /\ victims = {}
             /\ ~waits
             /\ rec' = R
             /\ live' = live \cup {rt}
          \/ \E v \in victims :
                /\ waits
                /\ rec' = Dropped(R, records[v])
                /\ live' = (live \cup {rt}) \ {R[records[v]].runtime}

(* Turn m: the runtime that ensureRuntime awaited is there.                *)
TurnRuntimeCreated(m) ==
    /\ turn[m].phase = "ensuring"
    /\ \E waits \in BOOLEAN :
         /\ RuntimeCreated(turn[m].record, turn[m].session, waits)
         /\ turn' = IF waits THEN [turn EXCEPT ![m].phase = "evicting"]
                    ELSE [turn EXCEPT ![m] = Captured(turn[m], NewRuntimeId)]
    /\ UNCHANGED <<records, fresh, queue, active, calls, asks, sink, tails>>

(* Turn m: the eviction behind ensureRuntime is over, `record.runtime!` is *)
(* captured.                                                               *)
TurnEvicted(m) ==
    /\ turn[m].phase = "evicting"
    /\ turn' = [turn EXCEPT ![m] = Captured(turn[m], rec[turn[m].record].runtime)]
    /\ UNCHANGED <<records, rec, live, fresh, queue, active, calls, asks, sink, tails>>

(* The try of turn m ends, well ("completed"), by an abort ("idle") or by  *)
(* an error of any of its steps, and the finally block runs: the slot is   *)
(* freed, a runtime may be evicted, the next turn starts.                  *)
TurnEnds(m) ==
    /\ turn[m].phase \in InFlight
    /\ turn[m].phase # "evicting"   \* a failed dispose is caught
    /\ LateAnswers \/ \A a \in Questions : asks[a].turn # m
    /\ \E outcome \in Outcomes :
         /\ outcome = "completed" => turn[m].phase = "prompting"
         /\ LET R == [rec EXCEPT ![turn[m].record].state = outcome]
                T == [turn EXCEPT ![m] = Ended(turn[m], "done")]
                victims == Evictable(R, turn[m].session, Nil)
            IN \/ /\ victims = {}
                  /\ FreeSlot(R, T)
                  /\ UNCHANGED live
               \/ \E v \in victims :
                    /\ FreeSlot(Dropped(R, records[v]), T)
                    /\ live' = live \ {R[records[v]].runtime}
    /\ UNCHANGED <<records, fresh, calls, asks, sink, tails>>

-----------------------------------------------------------------------------
(* What the bridges of the prompted runtime ask the user: a tool           *)
(* permission (requestPermission, writeTextFile) or an input (ask).  With  *)
(* no UI attached both return at once and nothing changes.                 *)
AskUser(m, a, kind) ==
    /\ sink
    /\ turn[m].phase = "prompting"
    /\ asks[a].kind = "none"
    /\ LET r == turn[m].record
       IN /\ asks' = [asks EXCEPT ![a] = [kind |-> kind, turn |-> m, record |-> r,
                                          previous |-> rec[r].state]]
          /\ rec' = [rec EXCEPT ![r].state = kind]
    /\ UNCHANGED <<records, live, fresh, queue, active, turn, calls, sink, tails>>

(* The question is answered, times out, or fails because its connection    *)
(* closed: the finally block puts a state back.                            *)
QuestionEnds(a) ==
    /\ asks[a].kind # "none"
    /\ asks' = [asks EXCEPT ![a] = NoQuestion]
    /\ rec' = [rec EXCEPT ![asks[a].record].state =
                 IF asks[a].previous = asks[a].kind THEN "running" ELSE asks[a].previous]
    /\ UNCHANGED <<records, live, fresh, queue, active, turn, calls, sink, tails>>

-----------------------------------------------------------------------------
(* What a call does once the runtime it needs is there: open and create    *)
(* answer, listChatModels reads `record.runtime!`, setChatModel applies    *)
(* the model (an await) unless an eviction took the runtime back.          *)
Equipped(op, rt) ==
    op = "setModel" /\ rt # Nil

(* ensureRuntime on the record r of an open session s, for call c: done at *)
(* once when it has a runtime, refused when the session file is gone, else *)
(* the call waits for the runtime to be created.                           *)
Ensure(c, op, s, r) ==
    calls' = [calls EXCEPT ![c] =
                IF rec[r].runtime # Nil
                  THEN IF Equipped(op, rec[r].runtime)
                         THEN [op |-> op, phase |-> "applying", session |-> s, record |-> r]
                         ELSE NoCall
                  ELSE [op |-> op, phase |-> "creating", session |-> s, record |-> r]]

(* openChatSession of a session that is open, listChatModels.              *)
UseSession(c, s, op) ==
    /\ sink
    /\ calls[c].phase = "idle"
    /\ op \in {"open", "models"}
    /\ IsOpen(s)
    /\ Ensure(c, op, s, records[s])
    /\ UNCHANGED <<records, rec, live, fresh, queue, active, turn, asks, sink, tails>>

(* setChatModel, setChatThinkingLevel: requiredMutableRecord, then         *)
(* ensureRuntime.                                                          *)
SetModel(c, s) ==
    /\ sink
    /\ calls[c].phase = "idle"
    /\ IsOpen(s)
    /\ rec[records[s]].state \notin {"running", "queued"}
    /\ ActiveSession # s
    /\ Ensure(c, "setModel", s, records[s])
    /\ UNCHANGED <<records, rec, live, fresh, queue, active, turn, asks, sink, tails>>

(* setModelTemporary is done.                                              *)
ModelApplied(c) ==
    /\ calls[c].phase = "applying"
    /\ calls' = [calls EXCEPT ![c] = NoCall]
    /\ UNCHANGED <<records, rec, live, fresh, queue, active, turn, asks, sink, tails>>

(* openChatSession of a session that is not open: its file is looked up    *)
(* and opened.                                                             *)
OpenClosed(c, s) ==
    /\ sink
    /\ calls[c].phase = "idle"
    /\ ~IsOpen(s)
    /\ s \notin fresh
    /\ calls' = [calls EXCEPT ![c] = [op |-> "open", phase |-> "lookup",
                                      session |-> s, record |-> Nil]]
    /\ UNCHANGED <<records, rec, live, fresh, queue, active, turn, asks, sink, tails>>

(* createChatSession: the OMP runtime is awaited.                          *)
Create(c) ==
    /\ sink
    /\ calls[c].phase = "idle"
    /\ calls' = [calls EXCEPT ![c] = [op |-> "create", phase |-> "lookup",
                                      session |-> Nil, record |-> Nil]]
    /\ UNCHANGED <<records, rec, live, fresh, queue, active, turn, asks, sink, tails>>

(* A new record enters the map and its runtime is awaited.                 *)
Register(c, op, s) ==
    LET r == NewRecordId
    IN  /\ HeldRecords \cap Records # Records
        /\ records' = [records EXCEPT ![s] = r]
        /\ rec' = [rec EXCEPT ![r] = NewRecord]
        /\ calls' = [calls EXCEPT ![c] = [op |-> op, phase |-> "creating",
                                          session |-> s, record |-> r]]

(* The lookup of c is over: openChatSession finds the session opened by    *)
(* another call meanwhile, or registers it; createChatSession registers a  *)
(* session with an id of its own.                                          *)
LookedUp(c) ==
    /\ calls[c].phase = "lookup"
    /\ \/ /\ calls[c].op = "open"
          /\ IsOpen(calls[c].session)
          /\ Ensure(c, "open", calls[c].session, records[calls[c].session])
          /\ UNCHANGED <<records, rec, fresh>>
       \/ /\ calls[c].op = "open"
          /\ ~IsOpen(calls[c].session)
          /\ Register(c, "open", calls[c].session)
          /\ UNCHANGED fresh
       \/ /\ calls[c].op = "create"
          /\ \E s \in fresh : Register(c, "create", s) /\ fresh' = fresh \ {s}
    /\ UNCHANGED <<live, queue, active, turn, asks, sink, tails>>

(* The runtime of call c is there.                                         *)
CallRuntimeCreated(c) ==
    /\ calls[c].phase = "creating"
    /\ \E waits \in BOOLEAN :
         /\ RuntimeCreated(calls[c].record, calls[c].session, waits)
         /\ calls' = [calls EXCEPT ![c] =
                        IF waits THEN [calls[c] EXCEPT !.phase = "evicting"]
                        ELSE IF Equipped(calls[c].op, NewRuntimeId)
                               THEN [calls[c] EXCEPT !.phase = "applying"]
                               ELSE NoCall]
    /\ UNCHANGED <<records, fresh, queue, active, turn, asks, sink, tails>>

(* The eviction behind ensureRuntime is over.                              *)
CallEvicted(c) ==
    /\ calls[c].phase = "evicting"
    /\ calls' = [calls EXCEPT ![c] =
                   IF Equipped(calls[c].op, rec[calls[c].record].runtime)
                     THEN [calls[c] EXCEPT !.phase = "applying"]
                     ELSE NoCall]
    /\ UNCHANGED <<records, rec, live, fresh, queue, active, turn, asks, sink, tails>>

(* A call fails while it waits: the session file is gone, or OMP throws.   *)
CallFails(c) ==
    /\ calls[c].phase \in {"lookup", "creating"}
    /\ calls' = [calls EXCEPT ![c] = NoCall]
    /\ UNCHANGED <<records, rec, live, fresh, queue, active, turn, asks, sink, tails>>

-----------------------------------------------------------------------------
(* releaseChatSession: refused for the active session; its queued turn is  *)
(* cancelled, its runtime disposed, and only then the record leaves the    *)
(* map.                                                                    *)
Release(c, s) ==
    /\ sink
    /\ calls[c].phase = "idle"
    /\ IsOpen(s)
    /\ ActiveSession # s
    /\ LET r == records[s]
       IN \E i \in (DOMAIN queue) \cup {0} :
            LET q == IF i = 0 THEN queue
                     ELSE SubSeq(queue, 1, i - 1) \o SubSeq(queue, i + 1, Len(queue))
                R == IF i = 0 THEN rec
                     ELSE MarkQueued([rec EXCEPT ![r].state = "idle"], q, turn)
            IN /\ IF i = 0 THEN ~HasQueuedTurn(s) ELSE turn[queue[i]].session = s
               /\ queue' = q
               /\ turn' = IF i = 0 THEN turn
                          ELSE [turn EXCEPT ![queue[i]] = Ended(turn[queue[i]], "dropped")]
               /\ rec' = Dropped(R, r)
               /\ \/ /\ rec[r].runtime # Nil
                     /\ live' = live \ {rec[r].runtime}
                     /\ calls' = [calls EXCEPT ![c] = [op |-> "release", phase |-> "disposing",
                                                       session |-> s, record |-> r]]
                     /\ UNCHANGED records
                  \/ /\ rec[r].runtime = Nil
                     /\ records' = [records EXCEPT ![s] = Nil]
                     /\ UNCHANGED <<live, calls>>
    /\ UNCHANGED <<fresh, active, asks, sink, tails>>

(* The dispose is over: whatever record the map holds for the id goes.     *)
Released(c) ==
    /\ calls[c].phase = "disposing"
    /\ records' = [records EXCEPT ![calls[c].session] = Nil]
    /\ calls' = [calls EXCEPT ![c] = NoCall]
    /\ UNCHANGED <<rec, live, fresh, queue, active, turn, asks, sink, tails>>

-----------------------------------------------------------------------------
TurnStep(m) ==
    TurnRuntimeCreated(m) \/ TurnEvicted(m) \/ TurnEnds(m)

CallStep(c) ==
    \/ LookedUp(c) \/ CallRuntimeCreated(c) \/ CallEvicted(c)
    \/ ModelApplied(c) \/ CallFails(c) \/ Released(c)

Next ==
    \/ Attach \/ Disconnect \/ DisconnectTail
    \/ \E s \in Sessions, m \in Messages : Send(s, m)
    \/ \E s \in Sessions : CancelQueuedTurn(s)
    \/ \E m \in Messages : TurnStep(m)
    \/ \E m \in Messages, a \in Questions, k \in QuestionKinds : AskUser(m, a, k)
    \/ \E a \in Questions : QuestionEnds(a)
    \/ \E c \in Calls, s \in Sessions, op \in {"open", "models"} : UseSession(c, s, op)
    \/ \E c \in Calls, s \in Sessions :
          SetModel(c, s) \/ OpenClosed(c, s) \/ Release(c, s)
    \/ \E c \in Calls : Create(c) \/ CallStep(c)

Spec == Init /\ [][Next]_vars

(* The agent's event loop never starves a promise that has settled, OMP    *)
(* ends every prompt, and a question ends after 24 hours at the latest     *)
(* (PERMISSION_RPC_OPTIONS).  The user's own calls are not fair.           *)
Fairness ==
    /\ \A m \in Messages : WF_vars(TurnStep(m)) /\ SF_vars(TurnEnds(m))
    /\ \A a \in Questions : WF_vars(QuestionEnds(a))
    /\ \A c \in Calls : WF_vars(CallStep(c))
    /\ WF_vars(DisconnectTail)

FairSpec == Spec /\ Fairness

-----------------------------------------------------------------------------
(* README.md promises serial turns in one project: at most one drainQueue  *)
(* activation is between startNext and finish, it is that of the active    *)
(* turn, and no other code path starts a prompt.                           *)
SerialTurns ==
    \A m \in Messages : turn[m].phase \in InFlight <=> m = active

(* The line holds exactly the turns that wait, each once, with at most one *)
(* turn per session among them and the active one; and no turn waits for a *)
(* free slot: every path that frees the slot drains the queue.             *)
QueueInv ==
    /\ \A m \in Messages : turn[m].phase = "queued" <=> m \in Line
    /\ \A i, j \in DOMAIN queue : queue[i] = queue[j] => i = j
    /\ \A m, n \in Line \cup ({active} \ {Nil}) :
          turn[m].session = turn[n].session => m = n
    /\ active = Nil => queue = <<>>

(* The runtime a turn prompts is never disposed under it, by an eviction   *)
(* that another session's call set off, by a release, or by the eviction   *)
(* of a finished turn.                                                     *)
PromptedRuntimeLives ==
    \A m \in Messages :
        turn[m].phase = "prompting" => turn[m].runtime \in live

(* With no eviction in progress the map holds at most one runtime beyond   *)
(* MAX_RUNTIME_SESSIONS, the one a running turn would not give up.         *)
RuntimeBound ==
    Cardinality({s \in Sessions : IsOpen(s) /\ rec[records[s]].runtime # Nil})
        <= IF active = Nil THEN MaxRuntimes ELSE MaxRuntimes + 1

(* The line is an implementation of TurnQueue: submissions run in order    *)
(* and none is passed over while its session is open, whatever calls,      *)
(* evictions and disconnects come in between.                              *)
Over == {m \in Messages : turn[m].phase \in {"done", "dropped"}}

Gone == {m \in Line : ~IsOpen(turn[m].session)}

TQ == INSTANCE TurnQueue WITH Turns <- Messages, waiting <- queue,
                              running <- active, over <- Over, gone <- Gone

InOrder == TQ!Spec

(* A turn that was accepted runs or is dropped: a lost wake-up of the      *)
(* queue, or a call that blocks the active turn, would leave it waiting.   *)
TurnsEnd ==
    \A m \in Messages :
        turn[m].phase \notin {"none", "done", "dropped"} ~> turn[m].phase \in {"done", "dropped"}

(* releaseChatSession refuses the session of the running turn ("Abort the  *)
(* running turn before closing this session"): the running turn's session  *)
(* stays open, with the record the turn works on.                          *)
RunningSessionStaysOpen ==
    active # Nil => records[turn[active].session] = turn[active].record

(* requiredMutableRecord: "Model and thinking settings cannot change while *)
(* a turn is running or queued".                                           *)
SettingsFrozen ==
    [][\A c \in Calls :
          calls[c].phase # "applying" /\ calls'[c].phase = "applying"
            => LET s == calls'[c].session
               IN ActiveSession # s /\ ~HasQueuedTurn(s)]_vars

(* MAX_RUNTIME_SESSIONS bounds the OMP sessions alive when nothing is      *)
(* under way.                                                              *)
LiveBound ==
    (active = Nil /\ \A c \in Calls : calls[c].phase = "idle")
        => Cardinality(live) <= MaxRuntimes

=============================================================================
