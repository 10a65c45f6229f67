---------------------------- MODULE AgentLink ----------------------------
(***************************************************************************)
(* The WebSocket link between the page and the agent.                      *)
(*                                                                         *)
(* The page asks the host for a ticket (rpc/agent.ts), opens a socket,     *)
(* sends the ticket as its first frame and waits for hello_ack             *)
(* (websocket.ts).  The agent takes the ticket, lets the new session       *)
(* replace the one it has, attaches the chat registry to it and answers    *)
(* (websocket-server.ts, ws.ts, main.ts).  The page then probes the link   *)
(* with a ping, polls whether its peer is closed, and starts over after    *)
(* any failure.                                                            *)
(*                                                                         *)
(* Both programs have one thread, so an action is one callback.  A socket  *)
(* and the ticket it was made with share a name, which is used again once  *)
(* both ends have forgotten it.  Frames arrive in order, and before the    *)
(* close of the end that sent them; a close may take its time.  What goes  *)
(* wrong (a timeout that fires, a failed call, an oversized frame, a       *)
(* reload of the page, the death of the agent) is a step of Trouble, of    *)
(* which there are at most MaxTrouble.                                     *)
(***************************************************************************)
EXTENDS Naturals, Sequences

CONSTANTS
  Sockets,     \* sockets, and the ticket of each
  NoSocket,    \* no session, no current socket
  MaxTrouble,  \* steps of Trouble in a behaviour
  MaxFrames    \* frames on the way to the page before the registry sends another

ASSUME LinkAssumption == NoSocket \notin Sockets /\ MaxTrouble \in Nat /\ MaxFrames \in Nat

VARIABLES
  tickets,  \* the ticket store: "absent", "fresh" or "stale"
  srv,      \* the agent's end: "none", "accepted", "session", "closing" (close called), "gone"
  active,   \* the session createAgentWsServer keeps
  sink,     \* the session the chat registry is attached to
  cli,      \* the page's end: "unused", "connecting", "open" (hello sent), "ready", "closed"
  up, down, \* frames on their way to the agent and to the page
  phase,    \* connectOnce: "waiting", "asking", "granted", "probing", "ready"
  cur,      \* the socket of its current peer
  trouble

linkVars == <<tickets, srv, active, sink, cli, up, down, phase, cur, trouble>>

Frames == {"hello", "ack", "ping", "pong", "event"}

LinkTypeOK ==
  /\ tickets \in [Sockets -> {"absent", "fresh", "stale"}]
  /\ srv \in [Sockets -> {"none", "accepted", "session", "closing", "gone"}]
  /\ active \in Sockets \cup {NoSocket}
  /\ sink \in Sockets \cup {NoSocket}
  /\ cli \in [Sockets -> {"unused", "connecting", "open", "ready", "closed"}]
  /\ up \in [Sockets -> Seq(Frames)]
  /\ down \in [Sockets -> Seq(Frames)]
  /\ phase \in {"waiting", "asking", "granted", "probing", "ready"}
  /\ cur \in Sockets \cup {NoSocket}
  /\ trouble \in 0..MaxTrouble

LinkInit ==
  /\ tickets = [k \in Sockets |-> "absent"]
  /\ srv = [k \in Sockets |-> "gone"]
  /\ cli = [k \in Sockets |-> "unused"]
  /\ up = [k \in Sockets |-> <<>>]
  /\ down = [k \in Sockets |-> <<>>]
  /\ active = NoSocket /\ sink = NoSocket
  /\ phase = "asking" /\ cur = NoSocket
  /\ trouble = 0

server == <<tickets, srv, active, sink>>
attempt == <<phase, cur>>

-----------------------------------------------------------------------------
(* The page: connectOnce and its timers. *)

\* The backoff is over.
Retry ==
  /\ phase = "waiting"
  /\ phase' = "asking"
  /\ UNCHANGED <<server, cli, up, down, cur, trouble>>

\* Nothing is left of a socket at either end.
Forgotten(k) == cli[k] \in {"unused", "closed"} /\ srv[k] \in {"none", "gone"} /\ k # cur

\* openWebSocketSession: the agent, started if need be, makes a ticket; the answer is on its way.
Grant(k) ==
  /\ phase = "asking"
  /\ Forgotten(k)
  /\ tickets' = [tickets EXCEPT ![k] = "fresh"]
  /\ srv' = [srv EXCEPT ![k] = "none"]
  /\ cli' = [cli EXCEPT ![k] = "unused"]
  /\ up' = [up EXCEPT ![k] = <<>>]
  /\ down' = [down EXCEPT ![k] = <<>>]
  /\ cur' = k
  /\ phase' = "granted"
  /\ UNCHANGED <<active, sink, trouble>>

\* The answer has come: the socket is created and a ping waits in its outbound buffer.
Connect ==
  /\ phase = "granted"
  /\ cli' = [cli EXCEPT ![cur] = "connecting"]
  /\ phase' = "probing"
  /\ UNCHANGED <<server, up, down, cur, trouble>>

\* Mutation of Noticed: the watch runs only until the probe is answered.
NoticedEarly ==
  /\ phase = "probing"
  /\ cli[cur] = "closed"
  /\ cur' = NoSocket
  /\ phase' = "waiting"
  /\ UNCHANGED <<server, cli, up, down, trouble>>

\* The poll sees that the peer of a link that was ready is closed.
Noticed ==
  /\ phase = "ready"
  /\ cli[cur] = "closed"
  /\ cur' = NoSocket
  /\ phase' = "waiting"
  /\ UNCHANGED <<server, cli, up, down, trouble>>

-----------------------------------------------------------------------------
(* The page's transport. *)

\* The close of its peer rejects the ping of a link that is being probed.
ProbeRejected(k) ==
  IF phase = "probing" /\ cur = k
  THEN cur' = NoSocket /\ phase' = "waiting"
  ELSE UNCHANGED attempt

\* markClosed, and the close of the peer behind it.
PageCloses(k) ==
  /\ cli' = [cli EXCEPT ![k] = "closed"]
  /\ ProbeRejected(k)

PageOpens(k) ==
  /\ cli[k] = "connecting"
  /\ srv[k] \in {"accepted", "closing"}
  /\ cli' = [cli EXCEPT ![k] = "open"]
  /\ up' = [up EXCEPT ![k] = Append(@, "hello")]
  /\ UNCHANGED <<server, down, attempt, trouble>>

\* Before the handshake is done only hello_ack will do; it flushes the buffer.
PageHandshake(k) ==
  /\ cli[k] = "open"
  /\ IF Head(down[k]) = "ack"
     THEN /\ cli' = [cli EXCEPT ![k] = "ready"]
          /\ up' = [up EXCEPT ![k] = Append(@, "ping")]
          /\ UNCHANGED attempt
     ELSE PageCloses(k) /\ UNCHANGED up

\* A frame for the peer, which ignores it once connectOnce has closed it.
PageReceives(k) ==
  /\ cli[k] = "ready"
  /\ phase' = IF Head(down[k]) = "pong" /\ cur = k /\ phase = "probing" THEN "ready" ELSE phase
  /\ UNCHANGED <<cli, up, cur>>

PageMessage(k) ==
  /\ down[k] # <<>>
  /\ PageHandshake(k) \/ PageReceives(k)
  /\ down' = [down EXCEPT ![k] = Tail(@)]
  /\ UNCHANGED <<server, trouble>>

\* The close or error event of the page's socket.
PageCloseEvent(k) ==
  /\ cli[k] \in {"connecting", "open", "ready"}
  /\ \/ srv[k] = "gone"
     \/ srv[k] = "closing" /\ down[k] = <<>>
  /\ PageCloses(k)
  /\ UNCHANGED <<server, up, down, trouble>>

-----------------------------------------------------------------------------
(* The agent's server. *)

Accept(k) ==
  /\ cli[k] = "connecting"
  /\ srv[k] = "none"
  /\ srv' = [srv EXCEPT ![k] = "accepted"]
  /\ UNCHANGED <<tickets, active, sink, cli, up, down, attempt, trouble>>

\* onSession: the session replaces the active one, whose cleanup disconnects the
\* registry; the registry is attached to the new one.
OnSession(k) ==
  /\ srv' = [j \in Sockets |-> IF j = k THEN "session"
                               ELSE IF j = active THEN "closing" ELSE srv[j]]
  /\ active' = k
  /\ sink' = k

\* Mutation of Handshake: the attached registry reports before the ack.
HandshakeAfterReport(k) ==
  /\ tickets[k] = "fresh"
  /\ OnSession(k)
  /\ down' = [down EXCEPT ![k] = @ \o <<"event", "ack">>]

\* handleHandshake with a ticket that is still good: session first, hello_ack after it.
Handshake(k) ==
  /\ tickets[k] = "fresh"
  /\ OnSession(k)
  /\ down' = [down EXCEPT ![k] = Append(@, "ack")]

HandshakeRefused(k) ==
  /\ tickets[k] # "fresh"
  /\ srv' = [srv EXCEPT ![k] = "closing"]
  /\ UNCHANGED <<active, sink, down>>

\* The first frame is the hello; authenticate takes its ticket whatever comes of it.
ServerHello(k) ==
  /\ srv[k] = "accepted"
  /\ up[k] # <<>>
  /\ up' = [up EXCEPT ![k] = Tail(@)]
  /\ tickets' = [tickets EXCEPT ![k] = "absent"]
  /\ Handshake(k) \/ HandshakeRefused(k)
  /\ UNCHANGED <<cli, attempt, trouble>>

\* Later frames are for the session's peer: the ping is answered.
ServerReceives(k) ==
  /\ srv[k] = "session"
  /\ up[k] # <<>>
  /\ up' = [up EXCEPT ![k] = Tail(@)]
  /\ down' = [down EXCEPT ![k] = Append(@, "pong")]
  /\ UNCHANGED <<server, cli, attempt, trouble>>

\* Mutation of OnSessionClosed: any session takes the registry with it.
OnAnySessionClosed(k) == active' = NoSocket /\ sink' = NoSocket

\* onSessionClosed: only the active session takes the registry with it.
OnSessionClosed(k) ==
  IF active = k
  THEN active' = NoSocket /\ sink' = NoSocket
  ELSE UNCHANGED <<active, sink>>

\* The close event of the agent's socket.
ServerCloseEvent(k) ==
  /\ \/ srv[k] = "closing"
     \/ srv[k] \in {"accepted", "session"} /\ cli[k] = "closed" /\ up[k] = <<>>
  /\ srv' = [srv EXCEPT ![k] = "gone"]
  /\ OnSessionClosed(k)
  /\ UNCHANGED <<tickets, cli, up, down, attempt, trouble>>

\* The chat registry reports something to the page it is attached to.
Event(k) ==
  /\ sink = k
  /\ srv[k] = "session"
  /\ Len(down[k]) < MaxFrames
  /\ down' = [down EXCEPT ![k] = Append(@, "event")]
  /\ UNCHANGED <<server, cli, up, attempt, trouble>>

-----------------------------------------------------------------------------
(* What goes wrong. *)

\* getAgentConnection fails, or its answer is lost.
AskingFails ==
  /\ phase \in {"asking", "granted"}
  /\ cur' = NoSocket
  /\ phase' = "waiting"
  /\ UNCHANGED <<server, cli, up, down>>

TicketExpires(k) ==
  /\ tickets[k] = "fresh"
  /\ tickets' = [tickets EXCEPT ![k] = "stale"]
  /\ UNCHANGED <<srv, active, sink, cli, up, down, attempt>>

\* The ping times out: connectOnce closes its peer, which leaves the socket open.
PingTimesOut ==
  /\ phase = "probing"
  /\ cur' = NoSocket
  /\ phase' = "waiting"
  /\ UNCHANGED <<server, cli, up, down>>

\* The page's handshake timer, or a frame it does not accept.
PageFails(k) ==
  /\ \/ cli[k] = "open"
     \/ cli[k] = "ready" /\ down[k] # <<>>
  /\ PageCloses(k)
  /\ UNCHANGED <<server, up, down>>

\* The agent's handshake timer, or a frame it does not accept: the socket is
\* closed, what depends on it waits for the close event.
ServerFails(k) ==
  /\ \/ srv[k] = "accepted"
     \/ srv[k] = "session" /\ up[k] # <<>>
  /\ srv' = [srv EXCEPT ![k] = "closing"]
  /\ UNCHANGED <<tickets, active, sink, cli, up, down, attempt>>

\* The page is loaded again: its sockets close and it starts from the beginning.
Reload ==
  /\ cli' = [k \in Sockets |-> IF cli[k] = "unused" THEN "unused" ELSE "closed"]
  /\ cur' = NoSocket
  /\ phase' = "waiting"
  /\ UNCHANGED <<server, up, down>>

\* The agent's process ends, and with it tickets, sessions and its ends of the sockets.
AgentDies ==
  /\ tickets' = [k \in Sockets |-> "absent"]
  /\ srv' = [k \in Sockets |-> "gone"]
  /\ active' = NoSocket /\ sink' = NoSocket
  /\ UNCHANGED <<cli, up, down, attempt>>

Trouble ==
  /\ trouble < MaxTrouble
  /\ trouble' = trouble + 1
  /\ \/ AskingFails \/ PingTimesOut \/ Reload \/ AgentDies
     \/ \E k \in Sockets : TicketExpires(k) \/ PageFails(k) \/ ServerFails(k)

-----------------------------------------------------------------------------
Page(k) == PageOpens(k) \/ PageMessage(k) \/ PageCloseEvent(k)
Server(k) == Accept(k) \/ ServerHello(k) \/ ServerReceives(k) \/ ServerCloseEvent(k)

LinkNext ==
  \/ Retry \/ Connect \/ Noticed \/ Trouble
  \/ \E k \in Sockets : Grant(k) \/ Page(k) \/ Server(k) \/ Event(k)

\* Timers of a program that runs fire, calls to a host that works are answered, and a
\* socket on the loopback interface delivers what was sent and reports its end.
LinkFairness ==
  /\ WF_linkVars(Retry) /\ WF_linkVars(Connect) /\ WF_linkVars(Noticed)
  /\ WF_linkVars(\E k \in Sockets : Grant(k))
  /\ \A k \in Sockets : WF_linkVars(Page(k)) /\ WF_linkVars(Server(k))

LinkSpec == LinkInit /\ [][LinkNext]_linkVars /\ LinkFairness

-----------------------------------------------------------------------------
(* Properties. *)

\* The agent has one session: a socket past its handshake that is not being
\* closed is the active one, the registry is attached to the active one and to no
\* other, and an active one has a close event to come (ws.ts:88-113).
OneSession ==
  /\ sink = active
  /\ \A k \in Sockets : srv[k] = "session" => active = k
  /\ active # NoSocket => srv[active] \in {"session", "closing"}

\* hello_ack is the first frame a page reads; with anything before it the page
\* hangs up (websocket.ts:169-189), although onSession attaches the registry, which
\* may send at any time, before the ack is sent (websocket-server.ts:286-297).
AckFirst ==
  \A k \in Sockets :
    cli[k] \in {"connecting", "open"} /\ down[k] # <<>> => Head(down[k]) = "ack"

\* The page has a link that works in both directions.
Linked ==
  /\ phase = "ready"
  /\ cli[cur] = "ready"
  /\ srv[cur] = "session"
  /\ sink = cur

\* Once nothing more goes wrong the page is linked for good: no socket it has
\* given up (connectOnce closes a peer and leaves its socket open, agent.ts:186-203),
\* no late close and no replaced session takes the link away for ever.
StaysLinked == <>[]Linked
=============================================================================
