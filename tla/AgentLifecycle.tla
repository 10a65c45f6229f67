------------------------- MODULE AgentLifecycle -------------------------
(***************************************************************************)
(* The life of the agent process under VibeflyAgentService.                *)
(*                                                                         *)
(* Coroutines that need the agent ensure that it runs, under a mutex, then *)
(* read the control reference and call it, outside the mutex.  Others stop *)
(* it (settings were applied), and the project's dispose() stops it for    *)
(* good.  Meanwhile the process may die, and the host may close its end of *)
(* the pipes: StdioRpcTransport does on a malformed frame or a failed      *)
(* write, and leaves the streams, and so the process, alone.               *)
(*                                                                         *)
(* processRef, sessionRef and transportRef are touched under the mutex     *)
(* only, host2AgentRef is read outside it: a step is what the holder of    *)
(* the mutex does from one change of host2AgentRef, or one call it waits   *)
(* for, to the next.  A process, its session and its proxy share a name,   *)
(* used again once the process is dead and nobody holds it.                *)
(***************************************************************************)
EXTENDS Naturals, FiniteSets

CONSTANTS
  Callers,   \* openSession, withControl, generateCommitMessage
  Stoppers,  \* stopIfRunning
  Disposer,  \* the thread of dispose()
  Procs,
  Nil

Threads == Callers \cup Stoppers \cup {Disposer}

ASSUME LifecycleAssumption ==
  /\ Callers \cap Stoppers = {}
  /\ Disposer \notin Callers \cup Stoppers
  /\ Nil \notin Procs \cup Threads

VARIABLES
  proc,      \* "none", "alive", "killed" (told to end), "dead"
  open,      \* processes whose RpcSession and transport are open
  process,   \* processRef, with sessionRef and transportRef
  control,   \* host2AgentRef
  mutex,     \* its holder
  pc,
  held,      \* the control a caller has read
  disposed,
  state

vars == <<proc, open, process, control, mutex, pc, held, disposed, state>>

TypeOK ==
  /\ proc \in [Procs -> {"none", "alive", "killed", "dead"}]
  /\ open \subseteq Procs
  /\ process \in Procs \cup {Nil}
  /\ control \in Procs \cup {Nil}
  /\ mutex \in Threads \cup {Nil}
  /\ pc \in [Threads -> {"idle", "waiting", "stopping", "shutdown", "closing",
                         "starting", "reading", "calling", "done"}]
  /\ held \in [Callers -> Procs \cup {Nil}]
  /\ disposed \in BOOLEAN
  /\ state \in {"STOPPED", "STARTING", "READY"}

Init ==
  /\ proc = [p \in Procs |-> "none"]
  /\ open = {}
  /\ process = Nil /\ control = Nil /\ mutex = Nil
  /\ pc = [t \in Threads |-> "idle"]
  /\ held = [c \in Callers |-> Nil]
  /\ disposed = FALSE
  /\ state = "STOPPED"

refs == <<process, control>>

Goto(t, where) == pc' = [pc EXCEPT ![t] = where]

-----------------------------------------------------------------------------
(* ensureStarted *)

Ensure(c) ==
  /\ pc[c] = "idle"
  /\ ~disposed
  /\ Goto(c, "waiting")
  /\ UNCHANGED <<proc, open, refs, mutex, held, disposed, state>>

\* The coroutine is cancelled while it waits for the mutex.
GivesUp(c) ==
  /\ pc[c] = "waiting"
  /\ Goto(c, "idle")
  /\ UNCHANGED <<proc, open, refs, mutex, held, disposed, state>>

Running == process # Nil /\ proc[process] = "alive" /\ control # Nil

\* With the mutex: a service disposed meanwhile refuses ...
Refuse(c) ==
  /\ pc[c] = "waiting" /\ mutex = Nil
  /\ disposed
  /\ Goto(c, "idle")
  /\ UNCHANGED <<proc, open, refs, mutex, held, disposed, state>>

\* ... an agent that runs is used ...
Reuse(c) ==
  /\ pc[c] = "waiting" /\ mutex = Nil
  /\ ~disposed
  /\ Running
  /\ state' = "READY"
  /\ Goto(c, "reading")
  /\ UNCHANGED <<proc, open, refs, mutex, held, disposed>>

\* Mutations of ColdStart: the check inside the mutex, or the mutex, is left out.
ColdStartDisposed(c) ==
  /\ pc[c] = "waiting" /\ mutex = Nil
  /\ ~Running
  /\ mutex' = c
  /\ Goto(c, "stopping")
  /\ UNCHANGED <<proc, open, refs, held, disposed, state>>

ColdStartUnlocked(c) ==
  /\ pc[c] = "waiting"
  /\ ~disposed
  /\ ~Running
  /\ mutex' = c
  /\ Goto(c, "stopping")
  /\ UNCHANGED <<proc, open, refs, held, disposed, state>>

\* ... and otherwise what is left of the last one is stopped first.
ColdStart(c) ==
  /\ pc[c] = "waiting" /\ mutex = Nil
  /\ ~disposed
  /\ ~Running
  /\ mutex' = c
  /\ Goto(c, "stopping")
  /\ UNCHANGED <<proc, open, refs, held, disposed, state>>

\* startLocked: the references are set once the process is spawned, the control last.
Start(c, p) ==
  /\ pc[c] = "starting"
  /\ proc[p] = "none"
  /\ proc' = [proc EXCEPT ![p] = "alive"]
  /\ open' = open \cup {p}
  /\ process' = p
  /\ control' = p
  /\ state' = "READY"
  /\ mutex' = Nil
  /\ Goto(c, "reading")
  /\ UNCHANGED <<held, disposed>>

\* It throws before it has set any: the stopLocked in the handler finds nothing to
\* stop, and its STOPPED overwrites the FAILED written before it.  That is before the
\* process is spawned: behind builder.start() transport, session and proxy are made, and
\* if that failed the process would be left to itself.  None of it throws as it stands,
\* but for an Error (no thread for the reader), which is out of this model.
StartFails(c) ==
  /\ pc[c] = "starting"
  /\ state' = "STOPPED"
  /\ mutex' = Nil
  /\ Goto(c, "idle")
  /\ UNCHANGED <<proc, open, refs, held, disposed>>

-----------------------------------------------------------------------------
(* stopLocked, in the hands of t. *)

\* The control is taken out; if there was one, shutdown() goes to its agent.
TakeControl(t) ==
  /\ pc[t] = "stopping"
  /\ control' = Nil
  /\ Goto(t, IF control = Nil THEN "closing" ELSE "shutdown")
  /\ UNCHANGED <<proc, open, process, mutex, held, disposed, state>>

\* It was answered, it failed, or three seconds have passed.
ShutdownEnds(t) ==
  /\ pc[t] = "shutdown"
  /\ Goto(t, "closing")
  /\ UNCHANGED <<proc, open, refs, mutex, held, disposed, state>>

\* Mutation of Destroyed: the process is only forgotten.
Undestroyed == proc

\* destroy(), and destroyForcibly() if need be.
Destroyed == [p \in Procs |-> IF p = process /\ proc[p] = "alive" THEN "killed" ELSE proc[p]]

\* Mutation of StateAfterStop: stopLocked leaves the state to its callers.
StateAfterStart(t) == IF t \in Callers THEN "STARTING" ELSE state

\* stopLocked sets STOPPED; ensureStarted goes on to STARTING.
StateAfterStop(t) == IF t \in Callers THEN "STARTING" ELSE "STOPPED"

\* Session, transport and process are taken out and closed; what comes next depends
\* on who stops.
Close(t) ==
  /\ pc[t] = "closing"
  /\ open' = open \ {process}
  /\ process' = Nil
  /\ proc' = Destroyed
  /\ state' = StateAfterStop(t)
  /\ mutex' = IF t \in Callers THEN t ELSE Nil
  /\ Goto(t, IF t \in Callers THEN "starting" ELSE IF t = Disposer THEN "done" ELSE "idle")
  /\ UNCHANGED <<control, held, disposed>>

StopLocked(t) == TakeControl(t) \/ ShutdownEnds(t) \/ Close(t)

\* stopIfRunning, and dispose(), which forbids any later start before it waits.
AskToStop(s) ==
  /\ pc[s] = "idle"
  /\ Goto(s, "waiting")
  /\ UNCHANGED <<proc, open, refs, mutex, held, disposed, state>>

Dispose ==
  /\ pc[Disposer] = "idle"
  /\ disposed' = TRUE
  /\ Goto(Disposer, "waiting")
  /\ UNCHANGED <<proc, open, refs, mutex, held, state>>

LockToStop(t) ==
  /\ t \in Stoppers \cup {Disposer}
  /\ pc[t] = "waiting" /\ mutex = Nil
  /\ mutex' = t
  /\ Goto(t, "stopping")
  /\ UNCHANGED <<proc, open, refs, held, disposed, state>>

-----------------------------------------------------------------------------
(* The call itself, outside the mutex. *)

ReadControl(c) ==
  /\ pc[c] = "reading"
  /\ held' = [held EXCEPT ![c] = control]
  /\ Goto(c, IF control = Nil THEN "idle" ELSE "calling")
  /\ UNCHANGED <<proc, open, refs, mutex, disposed, state>>

\* An answer, a failure or a timeout.
CallEnds(c) ==
  /\ pc[c] = "calling"
  /\ held' = [held EXCEPT ![c] = Nil]
  /\ Goto(c, "idle")
  /\ UNCHANGED <<proc, open, refs, mutex, disposed, state>>

-----------------------------------------------------------------------------
(* The process and its pipes. *)

\* The process ends: by itself, by shutdown(), or because it was told to.  The
\* reader sees the end of its output and closes transport and session.
Dies(p) ==
  /\ proc[p] \in {"alive", "killed"}
  /\ proc' = [proc EXCEPT ![p] = "dead"]
  /\ open' = open \ {p}
  /\ UNCHANGED <<refs, mutex, pc, held, disposed, state>>

\* The transport closes itself and the session; nothing else learns of it.
PipeFails(p) ==
  /\ proc[p] = "alive" /\ p \in open
  /\ open' = open \ {p}
  /\ UNCHANGED <<proc, refs, mutex, pc, held, disposed, state>>

Forget(p) ==
  /\ proc[p] = "dead"
  /\ p \notin {process, control} \cup {held[c] : c \in Callers}
  /\ proc' = [proc EXCEPT ![p] = "none"]
  /\ UNCHANGED <<open, refs, mutex, pc, held, disposed, state>>

-----------------------------------------------------------------------------
TakeMutex(t) ==
  IF t \in Callers THEN Refuse(t) \/ Reuse(t) \/ ColdStart(t) ELSE LockToStop(t)

Continue(t) ==
  \/ StopLocked(t)
  \/ t \in Callers /\ (ReadControl(t) \/ CallEnds(t) \/ StartFails(t) \/ \E p \in Procs : Start(t, p))

Next ==
  \/ \E c \in Callers : Ensure(c) \/ GivesUp(c)
  \/ \E s \in Stoppers : AskToStop(s)
  \/ Dispose
  \/ \E t \in Threads : TakeMutex(t) \/ Continue(t)
  \/ \E p \in Procs : Dies(p) \/ PipeFails(p) \/ Forget(p)

\* The mutex is handed on in order, what waits has a timeout, and a process that was
\* destroyed ends.  The page asks again and again (rpc/agent.ts), so callers come.
Fairness ==
  /\ \A t \in Threads : SF_vars(TakeMutex(t)) /\ WF_vars(Continue(t))
  /\ \A p \in Procs : WF_vars(proc[p] = "killed" /\ Dies(p)) /\ WF_vars(Forget(p))
  /\ \A c \in Callers : WF_vars(Ensure(c))

Spec == Init /\ [][Next]_vars /\ Fairness

-----------------------------------------------------------------------------
(* Properties. *)

\* Every process that lives and has not been told to end is the one the service
\* would stop: no interleaving of starts, stops and deaths loses one
\* (VibeflyAgentService.kt:153-180, 203-243).
NoOrphan == \A p \in Procs : proc[p] = "alive" => process = p

\* Whoever gets the mutex finds process, control and state in agreement.
Settled ==
  mutex = Nil =>
    /\ control = process
    /\ state = IF control = Nil THEN "STOPPED" ELSE "READY"

\* Once dispose() has returned nothing runs, and nothing is started again, although
\* callers may have passed the check outside the mutex before (VibeflyAgentService.kt:154-156).
DisposedForGood ==
  pc[Disposer] = "done" => process = Nil /\ \A p \in Procs : proc[p] # "alive"

\* A project that closes leaves no process behind.
EndsWithProject == disposed ~> [](\A p \in Procs : proc[p] \in {"none", "dead"})

\* "Ensure the project agent is running, then run [block] on its Host2Agent control
\* plane" (VibeflyAgentService.kt:188-190): while callers come, the service does not
\* stay with a control plane that is closed.
ControlRecovers == (control # Nil /\ control \notin open) ~> (control = Nil \/ control \in open)
=============================================================================
