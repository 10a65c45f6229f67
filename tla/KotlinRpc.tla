------------------------------ MODULE KotlinRpc ------------------------------
(***************************************************************************)
(* Outbound calls of the Kotlin side of SimpleRpc: RpcSession,             *)
(* TypedProxyHandler and PendingCall (vibefly-simplerpc RpcSession.kt,     *)
(* internal/KotlinCallTsProxy.kt).                                         *)
(*                                                                         *)
(* Threads interleave: each caller, the transport's reader, each timeout   *)
(* job, each canceller and the thread that closes the session.  A step is  *)
(* one operation on what they share: the closed flag, the map `pending`    *)
(* (a ConcurrentHashMap), the completed flag of a call, its continuation   *)
(* and the wire.                                                           *)
(*                                                                         *)
(* A call leaves `pending` by an atomic remove, so that one thread at most *)
(* holds it in its hands (held); only close() completes calls that are     *)
(* still in the map.                                                       *)
(***************************************************************************)
EXTENDS Naturals, Sequences, FiniteSets

CONSTANTS Calls,      \* proxy calls, by request id
          HasTimeout, \* is requestTimeout positive and finite?
          Nil

ASSUME RpcAssumption == HasTimeout \in BOOLEAN /\ Nil \notin Calls

VARIABLES
    closed,        \* RpcSession.closed
    closing,       \* where close() is
    unvisited,     \* calls that close()'s loop over pending is bound to meet
    pending,       \* RpcSession.pending
    pc,            \* where the caller is, in the block that invoke starts
    cont,          \* the caller's cancellable continuation
    held,          \* who has removed the call from pending and not completed it
    winner,        \* who has set PendingCall.completed
    timeoutJob,    \* PendingCall.timeoutJob
    wire,          \* what was sent about a call, in order
    answered,      \* calls the peer has answered
    receiving      \* the answer the reader has in its hands, past the closed check

vars == <<closed, closing, unvisited, pending, pc, cont, held, winner,
          timeoutJob, wire, answered, receiving>>

-----------------------------------------------------------------------------
CallerSteps == {"idle", "opened", "stored", "armed", "hooked", "sending", "failing", "done"}

Closing == {"open", "marked", "failing", "clearing", "stopping", "closed"}

Holders == {"reader", "timeout", "cancel", "send"}

TypeOK ==
    /\ closed \in BOOLEAN
    /\ closing \in Closing
    /\ unvisited \subseteq Calls
    /\ pending \subseteq Calls
    /\ pc \in [Calls -> CallerSteps]
    /\ cont \in [Calls -> {"none", "waiting", "resumed", "cancelled"}]
    /\ held \in [Calls -> Holders \cup {"none"}]
    /\ winner \in [Calls -> Holders \cup {"none", "close"}]
    /\ timeoutJob \in [Calls -> {"none", "delay", "notifying", "over"}]
    /\ wire \in [Calls -> Seq({"request", "cancel"})]
    /\ answered \subseteq Calls
    /\ receiving \in Calls \cup {Nil}

Times(c, x) == Cardinality({i \in DOMAIN wire[c] : wire[c][i] = x})

Requested(c) == \E i \in DOMAIN wire[c] : wire[c][i] = "request"

Init ==
    /\ closed = FALSE
    /\ closing = "open"
    /\ unvisited = {}
    /\ pending = {}
    /\ pc = [c \in Calls |-> "idle"]
    /\ cont = [c \in Calls |-> "none"]
    /\ held = [c \in Calls |-> "none"]
    /\ winner = [c \in Calls |-> "none"]
    /\ timeoutJob = [c \in Calls |-> "none"]
    /\ wire = [c \in Calls |-> <<>>]
    /\ answered = {}
    /\ receiving = Nil

-----------------------------------------------------------------------------
(* Mutation of TakeOut: the entry stays in the map, as by `pending[id]`.   *)
Peek(c, by) ==
    /\ UNCHANGED pending
    /\ held' = [held EXCEPT ![c] = IF c \in pending THEN by ELSE @]

(* pending.remove(id) by thread `by`.                                      *)
TakeOut(c, by) ==
    /\ pending' = pending \ {c}
    /\ held' = [held EXCEPT ![c] = IF c \in pending THEN by ELSE @]

(* A mutation of Complete: nobody resumes the caller, as abandon does it.  *)
CompleteSilently(c, by) ==
    IF winner[c] = "none"
      THEN /\ winner' = [winner EXCEPT ![c] = by]
           /\ timeoutJob' = [timeoutJob EXCEPT ![c] = IF @ = "delay" THEN "over" ELSE @]
           /\ UNCHANGED cont
      ELSE UNCHANGED <<winner, timeoutJob, cont>>

(* complete, fail and abandon: the first to set `completed` stops the      *)
(* timeout job and resumes the continuation.  One that was cancelled       *)
(* before ignores it (abandon relies on it), and nothing looks at the call *)
(* between the two.                                                        *)
Complete(c, by) ==
    IF winner[c] = "none"
      THEN /\ winner' = [winner EXCEPT ![c] = by]
           /\ timeoutJob' = [timeoutJob EXCEPT ![c] = IF @ = "delay" THEN "over" ELSE @]
           /\ cont' = [cont EXCEPT ![c] = IF @ = "waiting" THEN "resumed" ELSE @]
      ELSE UNCHANGED <<winner, timeoutJob, cont>>

(* sendCancel: nothing once the session is closed; the transport may fail. *)
SendCancel(c) ==
    \/ wire' = [wire EXCEPT ![c] = Append(@, "cancel")] /\ ~closed
    \/ UNCHANGED wire

-----------------------------------------------------------------------------
(* invoke, up to the check that opens suspendCancellableCoroutine (nothing *)
(* shared happens between the two calls of ensureOpen).                    *)
Invoke(c) ==
    /\ pc[c] = "idle"
    /\ IF closed
         THEN pc' = [pc EXCEPT ![c] = "done"] /\ cont' = [cont EXCEPT ![c] = "resumed"]
         ELSE pc' = [pc EXCEPT ![c] = "opened"] /\ cont' = [cont EXCEPT ![c] = "waiting"]
    /\ UNCHANGED <<closed, closing, unvisited, pending, held, winner, timeoutJob, wire,
                   answered, receiving>>

(* pending.putIfAbsent.                                                    *)
Store(c) ==
    /\ pc[c] = "opened"
    /\ pc' = [pc EXCEPT ![c] = "stored"]
    /\ pending' = pending \cup {c}
    /\ UNCHANGED <<closed, closing, unvisited, cont, held, winner, timeoutJob, wire,
                   answered, receiving>>

(* The timeout job is launched; in a scope that close() has cancelled it   *)
(* never runs.                                                             *)
Arm(c) ==
    /\ pc[c] = "stored"
    /\ pc' = [pc EXCEPT ![c] = "armed"]
    /\ timeoutJob' = [timeoutJob EXCEPT ![c] =
                        IF ~HasTimeout THEN "none"
                        ELSE IF closing = "closed" THEN "over" ELSE "delay"]
    /\ UNCHANGED <<closed, closing, unvisited, pending, cont, held, winner, wire,
                   answered, receiving>>

(* invokeOnCancellation.                                                   *)
Hook(c) ==
    /\ pc[c] = "armed"
    /\ pc' = [pc EXCEPT ![c] = "hooked"]
    /\ UNCHANGED <<closed, closing, unvisited, pending, cont, held, winner, timeoutJob, wire,
                   answered, receiving>>

(* Mutation of CheckOpen: `closed` is not looked at again behind the put.  *)
TrustOpen(c) ==
    /\ pc[c] = "hooked"
    /\ pc' = [pc EXCEPT ![c] = "sending"]
    /\ UNCHANGED <<closed, closing, unvisited, pending, cont, held, winner, timeoutJob, wire,
                   answered, receiving>>

(* sendRequest: ensureOpen, ...                                            *)
CheckOpen(c) ==
    /\ pc[c] = "hooked"
    /\ pc' = [pc EXCEPT ![c] = IF closed THEN "failing" ELSE "sending"]
    /\ UNCHANGED <<closed, closing, unvisited, pending, cont, held, winner, timeoutJob, wire,
                   answered, receiving>>

(* ... transport.sendToRemote, which may throw.                            *)
SendRequest(c) ==
    /\ pc[c] = "sending"
    /\ \/ /\ pc' = [pc EXCEPT ![c] = "done"]
          /\ wire' = [wire EXCEPT ![c] = Append(@, "request")]
       \/ /\ pc' = [pc EXCEPT ![c] = "failing"]
          /\ UNCHANGED wire
    /\ UNCHANGED <<closed, closing, unvisited, pending, cont, held, winner, timeoutJob,
                   answered, receiving>>

(* The catch block: pending.remove(id)?.fail(e).                           *)
SendFailed(c) ==
    /\ pc[c] = "failing"
    /\ pc' = [pc EXCEPT ![c] = "done"]
    /\ TakeOut(c, "send")
    /\ UNCHANGED <<closed, closing, unvisited, cont, winner, timeoutJob, wire, answered, receiving>>

(* A thread completes the call it has removed from pending; the timeout    *)
(* job sends its cancel first.                                             *)
Settle(c) ==
    /\ held[c] # "none"
    /\ timeoutJob[c] # "notifying"
    /\ Complete(c, held[c])
    /\ held' = [held EXCEPT ![c] = "none"]
    /\ receiving' = IF held[c] = "reader" THEN Nil ELSE receiving
    /\ IF held[c] = "cancel" /\ winner[c] = "none" THEN SendCancel(c) ELSE UNCHANGED wire
    /\ UNCHANGED <<closed, closing, unvisited, pending, pc, answered>>

-----------------------------------------------------------------------------
(* The timeout job wakes up and removes the call, or finds it gone.        *)
TimedOut(c) ==
    /\ timeoutJob[c] = "delay"
    /\ TakeOut(c, "timeout")
    /\ timeoutJob' = [timeoutJob EXCEPT ![c] = IF c \in pending THEN "notifying" ELSE "over"]
    /\ UNCHANGED <<closed, closing, unvisited, pc, cont, winner, wire, answered, receiving>>

(* Its sendCancel, whose failure is ignored.                               *)
TimeoutCancels(c) ==
    /\ timeoutJob[c] = "notifying"
    /\ timeoutJob' = [timeoutJob EXCEPT ![c] = "over"]
    /\ SendCancel(c)
    /\ UNCHANGED <<closed, closing, unvisited, pending, pc, cont, held, winner, answered, receiving>>

(* The caller's Job is cancelled: the continuation ends at once.           *)
Cancel(c) ==
    /\ cont[c] = "waiting"
    /\ cont' = [cont EXCEPT ![c] = "cancelled"]
    /\ UNCHANGED <<closed, closing, unvisited, pending, pc, held, winner, timeoutJob, wire,
                   answered, receiving>>

(* The cancellation handler, once it is installed (at once when the        *)
(* cancellation came first): it removes the call, and abandons it.         *)
OnCancellation(c) ==
    /\ cont[c] = "cancelled"
    /\ pc[c] \in {"hooked", "sending", "failing", "done"}
    /\ c \in pending
    /\ TakeOut(c, "cancel")
    /\ UNCHANGED <<closed, closing, unvisited, pc, cont, winner, timeoutJob, wire, answered,
                   receiving>>

-----------------------------------------------------------------------------
(* The peer answers a request once, in its own time (an answer that cannot *)
(* be parsed fails the call by the same steps).  The reader drops it when  *)
(* the session is closed.                                                  *)
Receive(c) ==
    /\ receiving = Nil
    /\ Requested(c)
    /\ c \notin answered
    /\ answered' = answered \cup {c}
    /\ receiving' = IF closed THEN Nil ELSE c
    /\ UNCHANGED <<closed, closing, unvisited, pending, pc, cont, held, winner, timeoutJob, wire>>

(* onIncoming: pending.remove(message.id) ?: return.                       *)
TakeAnswered(c) ==
    /\ receiving = c
    /\ held[c] # "reader"
    /\ TakeOut(c, "reader")
    /\ receiving' = IF c \in pending THEN c ELSE Nil
    /\ UNCHANGED <<closed, closing, unvisited, pc, cont, winner, timeoutJob, wire, answered>>

-----------------------------------------------------------------------------
(* close(), by the owner or by the transport's disconnect.                 *)
Close ==
    /\ ~closed
    /\ closed' = TRUE
    /\ closing' = "marked"
    /\ UNCHANGED <<unvisited, pending, pc, cont, held, winner, timeoutJob, wire, answered,
                   receiving>>

(* The loop over pending.values starts: its weakly consistent iterator     *)
(* meets every call that is in the map now and stays there, ...            *)
CloseStarts ==
    /\ closing = "marked"
    /\ closing' = "failing"
    /\ unvisited' = pending
    /\ UNCHANGED <<closed, pending, pc, cont, held, winner, timeoutJob, wire, answered, receiving>>

(* ... and it may meet one that has been removed or put meanwhile.         *)
CloseFails(c) ==
    /\ closing = "failing"
    /\ c \in unvisited \cup pending
    /\ Complete(c, "close")
    /\ unvisited' = unvisited \ {c}
    /\ UNCHANGED <<closed, closing, pending, pc, held, wire, answered, receiving>>

CloseLoopEnds ==
    /\ closing = "failing"
    /\ unvisited \cap pending = {}
    /\ closing' = "clearing"
    /\ unvisited' = {}
    /\ UNCHANGED <<closed, pending, pc, cont, held, winner, timeoutJob, wire, answered, receiving>>

(* pending.clear().                                                        *)
CloseClears ==
    /\ closing = "clearing"
    /\ closing' = "stopping"
    /\ pending' = {}
    /\ UNCHANGED <<closed, unvisited, pc, cont, held, winner, timeoutJob, wire, answered, receiving>>

(* scope.cancel(): no timeout job that still waits will run.               *)
CloseStops ==
    /\ closing = "stopping"
    /\ closing' = "closed"
    /\ timeoutJob' = [c \in Calls |-> IF timeoutJob[c] = "delay" THEN "over" ELSE timeoutJob[c]]
    /\ UNCHANGED <<closed, unvisited, pending, pc, cont, held, winner, wire, answered, receiving>>

-----------------------------------------------------------------------------
CallerStep(c) ==
    \/ Invoke(c) \/ Store(c) \/ Arm(c) \/ Hook(c)
    \/ CheckOpen(c) \/ SendRequest(c) \/ SendFailed(c)

TimeoutStep(c) == TimedOut(c) \/ TimeoutCancels(c)

CloseStep ==
    \/ CloseStarts \/ CloseLoopEnds \/ CloseClears \/ CloseStops
    \/ \E c \in unvisited : CloseFails(c)

Next ==
    \/ \E c \in Calls :
          \/ CallerStep(c) \/ Settle(c) \/ TimeoutStep(c)
          \/ Cancel(c) \/ OnCancellation(c)
          \/ Receive(c) \/ TakeAnswered(c)
          \/ CloseFails(c)
    \/ Close \/ CloseStep

Spec == Init /\ [][Next]_vars

(* Threads that may run do run, and time passes.  Nothing makes the peer   *)
(* answer, the caller cancel or the owner close.                           *)
Fairness ==
    /\ \A c \in Calls : /\ WF_vars(Store(c) \/ Arm(c) \/ Hook(c) \/ CheckOpen(c)
                                     \/ SendRequest(c) \/ SendFailed(c))
                        /\ WF_vars(Settle(c))
                        /\ WF_vars(TimeoutStep(c))
                        /\ WF_vars(OnCancellation(c))
                        /\ WF_vars(TakeAnswered(c))
    /\ WF_vars(CloseStep)

FairSpec == Spec /\ Fairness

-----------------------------------------------------------------------------
(* Somebody is left who can resume the caller of c.                        *)
Answerable(c) ==
    \/ held[c] # "none"
    \/ c \in pending /\ closing \in {"open", "marked"}
    \/ c \in pending /\ closing = "failing" /\ c \in unvisited

(* A caller whose request went out is never forgotten: as long as it waits *)
(* its call is in somebody's hands, or in the map where the reader, the    *)
(* timeout and close() still find it.  This rests on sendRequest's look at *)
(* `closed` behind the put.                                                *)
SentIsAnswerable ==
    \A c \in Calls : Requested(c) /\ cont[c] = "waiting" => Answerable(c)

(* No entry outlives its call: once somebody has completed it, the map     *)
(* does not hold it, except while close() works on the map.                *)
NoLeak ==
    \A c \in Calls :
        c \in pending /\ winner[c] # "none" => closing \in {"failing", "clearing"}

(* Timeout, cancellation and answer race for the call, and one of them     *)
(* wins it: at most one cancel goes out, and none for a call whose answer  *)
(* was accepted.                                                           *)
OneCancel ==
    \A c \in Calls :
        /\ Times(c, "cancel") <= 1
        /\ winner[c] = "reader" => Times(c, "cancel") = 0

(* Every request that went out is settled in the end, by its timeout if by *)
(* nothing else.                                                           *)
SentSettles ==
    \A c \in Calls : Requested(c) ~> cont[c] # "waiting"

(* RpcSession's doc: "Transport disconnect closes the session and fails    *)
(* pending calls immediately"; "After close, ... proxy method calls fail   *)
(* immediately": when close() is over and the caller's thread is through,  *)
(* no call is left that nobody will resume.                                *)
ClosedCallsFail ==
    closing = "closed" =>
        \A c \in Calls : pc[c] = "done" /\ cont[c] = "waiting" => held[c] # "none"

=============================================================================
