------------------------------- MODULE CefRpc -------------------------------
(***************************************************************************)
(* Calls of the page to the plugin over JCEF's message router.             *)
(*                                                                         *)
(* A call of the page's SimpleRpcPeer (peer.ts) is a native query (cef.ts) *)
(* that stays open until Kotlin completes its callback.  The browser's     *)
(* thread hands queries and their cancellations to                         *)
(* CefMessageRouterTransport, RpcSession runs each request in a job of its *)
(* own (RpcSession.kt, inbound), and the answer goes back twice: the       *)
(* callback is completed and a script brings the message.                  *)
(*                                                                         *)
(* The page has one thread and so has the browser's side of the router;    *)
(* jobs and the thread that closes the session run beside them, and their  *)
(* steps are operations on the three concurrent maps of the transport.  A  *)
(* call, its request id and its query id share a name.  What the page      *)
(* sends arrives in order; what it is sent arrives in any order.           *)
(***************************************************************************)
EXTENDS Naturals, SequencesExt

CONSTANTS Calls, Nil

ASSUME CefAssumption == Nil \notin Calls

VARIABLES
  pend,     \* a call at the page: "idle", "pending", or how its promise was settled
  qids,     \* requestQueryIds
  peer,     \* is the page's peer open?
  query,    \* the native query: "none", "open", "ended"
  toHost,   \* <<kind, call>> on the way to the router
  toPage,   \* {<<kind, call>>} on the way to the page
  cef,      \* where the router's thread is: <<step, call>>
  incoming, \* has the transport its handler?
  open, q2r, r2q,  \* openCallbacks, queryToRequestId, requestIdToQuery
  times,    \* how often the callback of a query was used
  closing,  \* where RpcSession.close() is
  todo,     \* query ids failAllOpenQueries still has to visit
  inbound,  \* inboundJobs
  job       \* the job of a request

page == <<pend, qids, peer>>
maps == <<open, q2r, r2q>>
session == <<incoming, closing, todo>>
vars == <<page, query, toHost, toPage, cef, session, maps, times, inbound, job>>

Settled == {"answered", "failed", "abandoned", "closed"}
Kinds == {"request", "cancel", "queryCancel"}

TypeOK ==
  /\ pend \in [Calls -> {"idle", "pending"} \cup Settled]
  /\ qids \subseteq Calls
  /\ peer \in BOOLEAN
  /\ query \in [Calls -> {"none", "open", "ended"}]
  /\ toHost \in Seq(Kinds \X Calls)
  /\ toPage \subseteq {"answer", "success", "failure"} \X Calls
  /\ cef \in {"idle", "accepted", "kept", "tracked", "dispatched"} \X (Calls \cup {Nil})
  /\ incoming \in BOOLEAN
  /\ open \subseteq Calls /\ q2r \subseteq Calls /\ r2q \subseteq Calls
  /\ times \in [Calls -> Nat]
  /\ closing \in {"open", "marked", "detached", "failing", "stopping", "closed"}
  /\ todo \subseteq Calls
  /\ inbound \subseteq Calls
  /\ job \in [Calls -> {"none", "running", "claiming", "claimed", "sending", "done", "cancelled"}]

Init ==
  /\ pend = [c \in Calls |-> "idle"] /\ qids = {} /\ peer = TRUE
  /\ query = [c \in Calls |-> "none"]
  /\ toHost = <<>> /\ toPage = {}
  /\ cef = <<"idle", Nil>>
  /\ incoming = TRUE /\ closing = "open" /\ todo = {}
  /\ open = {} /\ q2r = {} /\ r2q = {}
  /\ times = [c \in Calls |-> 0]
  /\ inbound = {}
  /\ job = [c \in Calls |-> "none"]

-----------------------------------------------------------------------------
(* The page: SimpleRpcPeer.call over the transport of createCefSimpleRpc.  *)

kotlin == <<cef, session, maps, times, inbound, job>>

Send(messages) == toHost' = toHost \o messages

Call(c) ==
  /\ peer
  /\ pend[c] = "idle"
  /\ pend' = [pend EXCEPT ![c] = "pending"]
  /\ qids' = qids \cup {c}
  /\ query' = [query EXCEPT ![c] = "open"]
  /\ Send(<< <<"request", c>> >>)
  /\ UNCHANGED <<peer, toPage, kotlin>>

\* cefQueryCancel ends the native query at once; its callback is told later.
CancelQueries(cs) ==
  query' = [c \in Calls |-> IF c \in cs /\ query[c] = "open" THEN "ended" ELSE query[c]]

\* Mutation of Abandon: the promise waits for what the other side says.
AbandonLater(c) ==
  /\ pend[c] = "pending" /\ query[c] = "open"
  /\ UNCHANGED <<pend, qids, query>>
  /\ Send(<< <<"cancel", c>> >>)
  /\ UNCHANGED <<peer, toPage, kotlin>>

\* Mutation of Abandon: the wire cancel goes out alone.
AbandonWireless(c) ==
  /\ pend[c] = "pending"
  /\ pend' = [pend EXCEPT ![c] = "abandoned"]
  /\ qids' = qids \ {c}
  /\ CancelQueries({})
  /\ Send(<<>>)
  /\ UNCHANGED <<peer, toPage, kotlin>>

\* The timer, the caller's signal or cancel(): the wire cancel as a query of its own,
\* the cancellation of the native query, and the promise rejected.
Abandon(c) ==
  /\ pend[c] = "pending"
  /\ pend' = [pend EXCEPT ![c] = "abandoned"]
  /\ qids' = qids \ {c}
  /\ CancelQueries({c} \cap qids)
  /\ Send(<< <<"cancel", c>> >> \o (IF c \in qids THEN << <<"queryCancel", c>> >> ELSE <<>>))
  /\ UNCHANGED <<peer, toPage, kotlin>>

Settle(c, how) == pend' = [pend EXCEPT ![c] = IF @ = "pending" THEN how ELSE @]

\* A script dispatches the answer: onIncoming, unless the peer is closed.
AnswerArrives(c) ==
  /\ <<"answer", c>> \in toPage
  /\ toPage' = toPage \ {<<"answer", c>>}
  /\ IF peer
     THEN Settle(c, "answered") /\ qids' = qids \ {c}
     ELSE UNCHANGED <<pend, qids>>
  /\ UNCHANGED <<peer, query, toHost, kotlin>>

\* The native query's onSuccess or onFailure; a cancelled query reports neither.
QueryEnds(c, how) ==
  /\ <<how, c>> \in toPage
  /\ toPage' = toPage \ {<<how, c>>}
  /\ query' = [query EXCEPT ![c] = "ended"]
  /\ IF query[c] = "open"
     THEN /\ qids' = qids \ {c}
          /\ IF how = "failure" /\ peer THEN Settle(c, "failed") ELSE UNCHANGED pend
     ELSE UNCHANGED <<qids, pend>>
  /\ UNCHANGED <<peer, toHost, kotlin>>

\* SimpleRpcPeer.close: unsubscribing cancels every open query, then every promise is rejected.
PeerCloses ==
  /\ peer
  /\ peer' = FALSE
  /\ CancelQueries(qids)
  /\ \E order \in SetToSeqs(qids) :
       Send([i \in DOMAIN order |-> <<"queryCancel", order[i]>>])
  /\ qids' = {}
  /\ pend' = [c \in Calls |-> IF pend[c] = "pending" THEN "closed" ELSE pend[c]]
  /\ UNCHANGED <<toPage, kotlin>>

-----------------------------------------------------------------------------
(* The router's thread: handleQuery and handleQueryCanceled.               *)

web == <<page, query>>

\* The callback of a query is used, and the page hears of it.
CallBack(c, how) ==
  /\ times' = [times EXCEPT ![c] = @ + 1]
  /\ toPage' = toPage \cup {<<how, c>>}

NoCallBack == UNCHANGED <<times, toPage>>

Next1(kind, c) ==
  /\ cef[1] = "idle"
  /\ toHost # <<>>
  /\ Head(toHost) = <<kind, c>>
  /\ toHost' = Tail(toHost)

Goto(step, c) == cef' = <<step, c>>

\* onQuery with a request: without a handler it fails at once.
Accept(c) ==
  /\ Next1("request", c)
  /\ IF incoming
     THEN Goto("accepted", c) /\ NoCallBack
     ELSE Goto("idle", Nil) /\ CallBack(c, "failure")
  /\ UNCHANGED <<web, session, maps, inbound, job>>

\* The callback is kept, ...
Keep(c) ==
  /\ cef = <<"accepted", c>>
  /\ open' = open \cup {c}
  /\ Goto("kept", c)
  /\ UNCHANGED <<web, toHost, toPage, session, q2r, r2q, times, inbound, job>>

\* ... the query is tracked, ...
Track(c) ==
  /\ cef = <<"kept", c>>
  /\ q2r' = q2r \cup {c} /\ r2q' = r2q \cup {c}
  /\ Goto("tracked", c)
  /\ UNCHANGED <<web, toHost, toPage, session, open, times, inbound, job>>

\* ... and onIncoming looks whether the session is closed ...
Dispatch(c) ==
  /\ cef = <<"tracked", c>>
  /\ IF closing = "open" THEN Goto("dispatched", c) ELSE Goto("idle", Nil)
  /\ UNCHANGED <<web, toHost, toPage, session, maps, times, inbound, job>>

\* ... before it starts a job, which a scope that is cancelled cancels at once.
Launch(c) ==
  /\ cef = <<"dispatched", c>>
  /\ inbound' = inbound \cup {c}
  /\ job' = [job EXCEPT ![c] = IF closing = "closed" THEN "cancelled" ELSE "running"]
  /\ Goto("idle", Nil)
  /\ UNCHANGED <<web, toHost, toPage, session, maps, times>>

\* Job.cancel: a job past its look at isActive still answers.
Cancelled(cs) ==
  [c \in Calls |-> IF c \in cs /\ job[c] = "running" THEN "cancelled" ELSE job[c]]

\* onIncoming with a cancel.
CancelJob(c) ==
  IF closing = "open" /\ incoming
  THEN inbound' = inbound \ {c} /\ job' = Cancelled({c} \cap inbound)
  ELSE UNCHANGED <<inbound, job>>

\* onQuery with a wire cancel: completeOpenQueryAsCancelled, then the session.
WireCancel(c) ==
  /\ Next1("cancel", c)
  /\ IF incoming /\ c \in r2q
     THEN /\ r2q' = r2q \ {c} /\ q2r' = q2r \ {c} /\ open' = open \ {c}
          /\ IF c \in open THEN CallBack(c, "failure") ELSE NoCallBack
     ELSE UNCHANGED maps /\ NoCallBack
  /\ CancelJob(c)
  /\ UNCHANGED <<web, cef, session>>

\* onQueryCanceled.
QueryCancel(c) ==
  /\ Next1("queryCancel", c)
  /\ open' = open \ {c}
  /\ q2r' = q2r \ {c}
  /\ IF c \in q2r
     THEN r2q' = r2q \ {c} /\ CancelJob(c)
     ELSE UNCHANGED <<r2q, inbound, job>>
  /\ UNCHANGED <<web, toPage, cef, session, times>>

-----------------------------------------------------------------------------
(* A job: dispatch, then sendToRemote.                                     *)

\* The handler has returned or thrown and the job is active.
Answer(c) ==
  /\ job[c] = "running"
  /\ job' = [job EXCEPT ![c] = "claiming"]
  /\ UNCHANGED <<web, toHost, toPage, cef, session, maps, times, inbound>>

\* tryCompleteQueryForOutbound: who removes the request from the map may look
\* for the callback, ...
Claim(c) ==
  /\ job[c] = "claiming"
  /\ r2q' = r2q \ {c}
  /\ job' = [job EXCEPT ![c] = IF c \in r2q THEN "claimed" ELSE "sending"]
  /\ UNCHANGED <<web, toHost, toPage, cef, session, open, q2r, times, inbound>>

\* Mutation of Complete: the callback is used and stays in the map.
CompleteKeeping(c) ==
  /\ job[c] = "claimed"
  /\ q2r' = q2r \ {c}
  /\ IF c \in open THEN CallBack(c, "success") ELSE NoCallBack
  /\ job' = [job EXCEPT ![c] = "sending"]
  /\ UNCHANGED <<web, toHost, cef, session, open, r2q, inbound>>

\* ... and who removes the callback uses it.
Complete(c) ==
  /\ job[c] = "claimed"
  /\ q2r' = q2r \ {c}
  /\ open' = open \ {c}
  /\ IF c \in open THEN CallBack(c, "success") ELSE NoCallBack
  /\ job' = [job EXCEPT ![c] = "sending"]
  /\ UNCHANGED <<web, toHost, cef, session, r2q, inbound>>

\* The script with the answer; the job leaves inboundJobs.
Deliver(c) ==
  /\ job[c] = "sending"
  /\ toPage' = toPage \cup {<<"answer", c>>}
  /\ inbound' = inbound \ {c}
  /\ job' = [job EXCEPT ![c] = "done"]
  /\ UNCHANGED <<web, toHost, cef, session, maps, times>>

-----------------------------------------------------------------------------
(* RpcSession.close, on any thread.                                        *)

Close ==
  /\ closing = "open"
  /\ closing' = "marked"
  /\ UNCHANGED <<web, toHost, toPage, cef, incoming, todo, maps, times, inbound, job>>

Detach ==
  /\ closing = "marked"
  /\ incoming' = FALSE
  /\ closing' = "detached"
  /\ UNCHANGED <<web, toHost, toPage, cef, todo, maps, times, inbound, job>>

\* failAllOpenQueries: the callbacks it sees, ...
FailStarts ==
  /\ closing = "detached"
  /\ todo' = open
  /\ closing' = "failing"
  /\ UNCHANGED <<web, toHost, toPage, cef, incoming, maps, times, inbound, job>>

\* ... one by one, unless somebody has used one meanwhile, ...
Fail(c) ==
  /\ closing = "failing" /\ c \in todo
  /\ todo' = todo \ {c}
  /\ IF c \in open
     THEN /\ open' = open \ {c} /\ q2r' = q2r \ {c}
          /\ r2q' = IF c \in q2r THEN r2q \ {c} ELSE r2q
          /\ CallBack(c, "failure")
     ELSE UNCHANGED maps /\ NoCallBack
  /\ UNCHANGED <<web, toHost, cef, incoming, closing, inbound, job>>

\* ... and the maps are cleared; the inbound jobs are cancelled and forgotten.
FailEnds ==
  /\ closing = "failing" /\ todo = {}
  /\ q2r' = {} /\ r2q' = {}
  /\ inbound' = {}
  /\ job' = Cancelled(inbound)
  /\ closing' = "stopping"
  /\ UNCHANGED <<web, toHost, toPage, cef, incoming, todo, open, times>>

\* scope.cancel(): so is whatever was launched since.
Stop ==
  /\ closing = "stopping"
  /\ job' = Cancelled(Calls)
  /\ closing' = "closed"
  /\ UNCHANGED <<web, toHost, toPage, cef, incoming, todo, maps, times, inbound>>

-----------------------------------------------------------------------------
Delivery(c) == AnswerArrives(c) \/ QueryEnds(c, "success") \/ QueryEnds(c, "failure")
Router ==
  \E c \in Calls : Accept(c) \/ Keep(c) \/ Track(c) \/ Dispatch(c) \/ Launch(c)
                   \/ WireCancel(c) \/ QueryCancel(c)
Answering(c) == Claim(c) \/ Complete(c) \/ Deliver(c)
Closing == Detach \/ FailStarts \/ FailEnds \/ Stop \/ \E c \in Calls : Fail(c)

Next ==
  \/ \E c \in Calls : Call(c) \/ Abandon(c) \/ Delivery(c) \/ Answer(c) \/ Answering(c)
  \/ PeerCloses \/ Router \/ Close \/ Closing

\* Threads run and messages arrive.  Nothing makes a handler return, a caller give
\* up, or anybody close the peer or the session.
Spec ==
  /\ Init /\ [][Next]_vars
  /\ WF_vars(Router) /\ WF_vars(Closing)
  /\ \A c \in Calls : WF_vars(Delivery(c)) /\ WF_vars(Answering(c))

-----------------------------------------------------------------------------
(* Properties. *)

\* A CEF callback may be used once.  The job that answers, the wire cancel, the
\* native cancel and close() all reach for it on threads of their own
\* (CefMessageRouterTransport.kt:145-224).
CallbackOnce == \A c \in Calls : times[c] <= 1

\* The query of a caller fails only because the session is being closed: the
\* "cancelled" a wire cancel causes never reaches a caller that still waits.
FailsOnlyClosed == \A c \in Calls : pend[c] = "failed" => closing # "open"

\* Whoever gives up a call, or closes the page's peer, stops its handler on the other
\* side: by the wire cancel, the native cancel, or both (cef.ts:107-123).
AbandonedStops ==
  \A c \in Calls : (pend[c] \in {"abandoned", "closed"}) ~> (job[c] # "running")

\* "completeOpenQueryAsCancelled ... so the native query does not stay open"
\* (CefMessageRouterTransport.kt:180-184): no callback stays behind a call that
\* is over, while the session is open.
NoCallbackLeaks ==
  \A c \in Calls : (pend[c] \in Settled /\ closing = "open") ~> (c \notin open \/ closing # "open")
=============================================================================
