------------------------------ MODULE StdioRpc ------------------------------
(***************************************************************************)
(* SimpleRpc over the pipes of the agent process.                          *)
(*                                                                         *)
(* The plugin's threads write requests and cancels through                 *)
(* StdioRpcTransport; a reader thread of its own, started when RpcSession  *)
(* installs its handler, reads the answers (StdioRpcTransport.kt,          *)
(* ContentLengthFraming.kt).  The agent decodes whatever chunk of the pipe *)
(* it is given, dispatches requests, and writes answers one after another  *)
(* (stdio.ts, framing.ts, peer.ts).  Either side closes on a malformed     *)
(* frame or the end of its input.                                          *)
(*                                                                         *)
(* A pipe is a sequence of units: a frame is its header line, the blank    *)
(* line that ends the header, and its body; "stray" is text that is no     *)
(* header.  A chunk is any number of units.  The agent has one thread; at  *)
(* the plugin the constructing thread, writers, reader and closers         *)
(* interleave at the shared fields of the transport.                       *)
(***************************************************************************)
EXTENDS Naturals, SequencesExt

CONSTANTS
  Requests,
  MaxStray, \* bound: how much stray text the two pipes get
  Nil

Frames == {"request", "cancel"} \X Requests
Answers == {"answer"} \X Requests

Length == <<"length", Nil>>
Blank == <<"blank", Nil>>
StrayLine == <<"stray", Nil>>

ASSUME StdioAssumption == Nil \notin Requests /\ MaxStray \in Nat

VARIABLES
  down, downEnds,  \* the pipe to the agent
  up, upEnds,      \* the pipe to the plugin
  strays,
  opener,    \* where the thread that constructs transport and session is
  writer,    \* [Frames -> where the thread that sends the frame is]
  writeLock,
  reader,    \* where the reader thread is
  hand,      \* the frame the reader has read, and whether the transport was closed by then
  closed, incoming, closeHandler,
  marking,   \* how far the one markClosed that does something is
  session,   \* the RpcSession: "open" from its construction on
  written, heard, late,  \* history: frames written, frames delivered, frames read after close
  buffer,    \* the units ContentLengthDecoder has not yet made a frame of
  peer,      \* is the agent's transport, and so its peer, open?
  job,       \* dispatchRequest of a request
  chain,     \* frames in writeChain
  full,      \* is writeFrame waiting for "drain"?
  got, answered  \* history: frames the agent's peer got, answers it sent

pipes == <<down, downEnds, up, upEnds, strays>>
flags == <<closed, incoming, closeHandler, marking, session>>
host == <<opener, writer, writeLock, reader, hand, flags, written, heard, late>>
agent == <<buffer, peer, job, chain, full, got, answered>>
vars == <<pipes, host, agent>>

Units == {Length, Blank, StrayLine} \cup Frames \cup Answers

TypeOK ==
  /\ down \in Seq(Units) /\ up \in Seq(Units)
  /\ downEnds \in BOOLEAN /\ upEnds \in BOOLEAN
  /\ strays \in 0..MaxStray
  /\ opener \in {"new", "installed", "starting", "live", "open"}
  /\ writer \in [Frames -> {"idle", "entering", "header", "sent", "failed"}]
  /\ writeLock \in BOOLEAN
  /\ reader \in {"none", "looping", "reading", "read", "checked", "leaving", "over"}
  /\ hand \in (Answers \cup {Nil}) \X BOOLEAN
  /\ closed \in BOOLEAN /\ incoming \in BOOLEAN /\ closeHandler \in BOOLEAN
  /\ marking \in {"no", "won", "dropped", "done"}
  /\ session \in {"none", "open", "closed"}
  /\ written \in Seq(Frames) /\ heard \in Seq(Answers) /\ late \subseteq Answers
  /\ buffer \in Seq(Units)
  /\ peer \in BOOLEAN
  /\ job \in [Requests -> {"none", "running", "aborted", "done"}]
  /\ chain \in Seq(Answers) /\ full \in BOOLEAN
  /\ got \in Seq(Frames) /\ answered \in Seq(Answers)

Init ==
  /\ down = <<>> /\ up = <<>> /\ downEnds = FALSE /\ upEnds = FALSE /\ strays = 0
  /\ opener = "new"
  /\ writer = [f \in Frames |-> "idle"] /\ writeLock = FALSE
  /\ reader = "none" /\ hand = <<Nil, FALSE>>
  /\ closed = FALSE /\ incoming = FALSE /\ closeHandler = FALSE
  /\ marking = "no" /\ session = "none"
  /\ written = <<>> /\ heard = <<>> /\ late = {}
  /\ buffer = <<>> /\ peer = TRUE
  /\ job = [r \in Requests |-> "none"]
  /\ chain = <<>> /\ full = FALSE /\ got = <<>> /\ answered = <<>>

-----------------------------------------------------------------------------
(* Decoding.  The blank line ends a header and the unit behind it is the    *)
(* body, whatever it is; a header without a length is malformed, and lines  *)
(* that say nothing of a length are passed over.                            *)

Bodies(p) == {i \in 2..Len(p) : p[i - 1] = Blank}

LastBody(p, before) == Max({0} \cup {i \in Bodies(p) : i < before})

\* parseContentLength throws.
Malformed(p) ==
  \E i \in DOMAIN p :
    p[i] = Blank /\ \A k \in (LastBody(p, i) + 1)..(i - 1) : p[k] # Length

\* What ContentLengthDecoder.drain returns, and what it leaves in the buffer.
Drained(p) == [n \in 1..Cardinality(Bodies(p)) |->
                 p[CHOOSE i \in Bodies(p) : Cardinality({k \in Bodies(p) : k <= i}) = n]]
Rest(p) == SubSeq(p, LastBody(p, Len(p) + 1) + 1, Len(p))

\* How far readFrame reads, 0 if it blocks.
FrameEnd(p) == IF Bodies(p) = {} THEN 0 ELSE Min(Bodies(p))

-----------------------------------------------------------------------------
(* The plugin.  Any thread may find itself closing the transport: the      *)
(* first to mark it runs the callbacks.                                    *)

MarkClosed ==
  IF closed
  THEN UNCHANGED <<closed, marking>>
  ELSE closed' = TRUE /\ marking' = "won"

DropIncoming ==
  /\ marking = "won"
  /\ marking' = "dropped"
  /\ incoming' = FALSE
  /\ UNCHANGED <<pipes, agent, opener, writer, writeLock, reader, hand, closed, closeHandler,
                 session, written, heard, late>>

\* Mutation of Notify: the handler is looked at and stays.
NotifyNobody ==
  /\ marking = "dropped"
  /\ marking' = "done"
  /\ closeHandler' = FALSE
  /\ UNCHANGED <<pipes, agent, opener, writer, writeLock, reader, hand, closed, incoming,
                 session, written, heard, late>>

\* onClosed, then the close handler, which is RpcSession.close.
Notify ==
  /\ marking = "dropped"
  /\ marking' = "done"
  /\ closeHandler' = FALSE
  /\ session' = IF closeHandler THEN "closed" ELSE session
  /\ UNCHANGED <<pipes, agent, opener, writer, writeLock, reader, hand, closed, incoming,
                 written, heard, late>>

\* RpcSession's init: setIncomingHandler, which starts the reader ...
Install ==
  /\ opener = "new"
  /\ incoming' = TRUE
  /\ opener' = IF closed THEN "live" ELSE "installed"
  /\ UNCHANGED <<pipes, agent, writer, writeLock, reader, hand, closed, closeHandler, marking,
                 session, written, heard, late>>

\* ... unless close() came between, ...
StartReader ==
  /\ opener = "installed"
  /\ opener' = "live"
  /\ reader' = IF closed THEN "none" ELSE "looping"
  /\ UNCHANGED <<pipes, agent, writer, writeLock, hand, flags, written, heard, late>>

\* ... and then setCloseHandler.
OpenSession ==
  /\ opener = "live"
  /\ opener' = "open"
  /\ closeHandler' = TRUE
  /\ session' = "open"
  /\ UNCHANGED <<pipes, agent, writer, writeLock, reader, hand, closed, incoming, marking,
                 written, heard, late>>

\* RpcSession.close by its owner, which detaches both handlers, ...
CloseSession ==
  /\ session = "open"
  /\ session' = "closed"
  /\ closeHandler' = FALSE /\ incoming' = FALSE
  /\ UNCHANGED <<pipes, agent, opener, writer, writeLock, reader, hand, closed, marking,
                 written, heard, late>>

\* ... and close() of the transport; the streams stay open (closeStreams is false).
Close ==
  /\ ~closed
  /\ MarkClosed
  /\ UNCHANGED <<pipes, agent, opener, writer, writeLock, reader, hand, incoming, closeHandler,
                 session, written, heard, late>>

\* sendToRemote, up to the lock; a cancel is of a request whose caller has begun.
Enter(f) ==
  /\ opener = "open" /\ session = "open"
  /\ writer[f] = "idle"
  /\ f[1] = "cancel" => writer[<<"request", f[2]>>] # "idle"
  /\ writer' = [writer EXCEPT ![f] = IF closed THEN "failed" ELSE "entering"]
  /\ UNCHANGED <<pipes, agent, opener, writeLock, reader, hand, flags, written, heard, late>>

\* Mutation of TakeLock: nobody waits for the lock.
TakeNoLock(f) ==
  /\ writer[f] = "entering"
  /\ writeLock' = TRUE
  /\ down' = down \o <<Length, Blank>>
  /\ writer' = [writer EXCEPT ![f] = "header"]
  /\ UNCHANGED <<downEnds, up, upEnds, strays, agent, opener, reader, hand, flags, written,
                 heard, late>>

\* Under the lock closed is looked at again, and the header is written; a pipe nobody
\* reads throws, which closes the transport.
TakeLock(f) ==
  /\ writer[f] = "entering" /\ ~writeLock
  /\ IF closed \/ downEnds
     THEN /\ writer' = [writer EXCEPT ![f] = "failed"]
          /\ MarkClosed
          /\ UNCHANGED <<writeLock, down>>
     ELSE /\ writer' = [writer EXCEPT ![f] = "header"]
          /\ writeLock' = TRUE
          /\ down' = down \o <<Length, Blank>>
          /\ UNCHANGED <<closed, marking>>
  /\ UNCHANGED <<downEnds, up, upEnds, strays, agent, opener, reader, hand, incoming,
                 closeHandler, session, written, heard, late>>

\* The body and the flush; a pipe nobody reads any more throws here too.
WriteBody(f) ==
  /\ writer[f] = "header"
  /\ writeLock' = FALSE
  /\ IF downEnds
     THEN /\ writer' = [writer EXCEPT ![f] = "failed"]
          /\ MarkClosed
          /\ UNCHANGED <<down, written>>
     ELSE /\ writer' = [writer EXCEPT ![f] = "sent"]
          /\ down' = Append(down, f)
          /\ written' = Append(written, f)
          /\ UNCHANGED <<closed, marking>>
  /\ UNCHANGED <<downEnds, up, upEnds, strays, agent, opener, reader, hand, incoming,
                 closeHandler, session, heard, late>>

\* readLoop: closed is looked at before a frame, ...
Loop ==
  /\ reader = "looping"
  /\ reader' = IF closed THEN "leaving" ELSE "reading"
  /\ UNCHANGED <<pipes, agent, opener, writer, writeLock, hand, flags, written, heard, late>>

\* ... readFrame blocks until it has one, or the stream ends or makes no sense, ...
ReadFrame ==
  /\ reader = "reading"
  /\ LET end == FrameEnd(up)
     IN \/ /\ end > 0 /\ ~Malformed(SubSeq(up, 1, end))
           /\ hand' = <<up[end], closed>>
           /\ up' = SubSeq(up, end + 1, Len(up))
           /\ reader' = "read"
        \/ /\ \/ end > 0 /\ Malformed(SubSeq(up, 1, end))
              \/ end = 0 /\ (Malformed(up) \/ upEnds)
           /\ reader' = "leaving"
           /\ UNCHANGED <<hand, up>>
  /\ UNCHANGED <<down, downEnds, upEnds, strays, agent, opener, writer, writeLock, flags,
                 written, heard, late>>

\* Mutation of Recheck: the handler decides.
RecheckNot ==
  /\ reader = "read"
  /\ reader' = "checked"
  /\ UNCHANGED <<pipes, agent, opener, writer, writeLock, hand, flags, written, heard, late>>

\* ... and looked at again behind it.
Recheck ==
  /\ reader = "read"
  /\ reader' = IF closed THEN "leaving" ELSE "checked"
  /\ UNCHANGED <<pipes, agent, opener, writer, writeLock, hand, flags, written, heard, late>>

Deliver ==
  /\ reader = "checked"
  /\ reader' = "looping"
  /\ heard' = IF incoming THEN Append(heard, hand[1]) ELSE heard
  /\ late' = IF incoming /\ hand[2] THEN late \cup {hand[1]} ELSE late
  /\ hand' = <<Nil, FALSE>>
  /\ UNCHANGED <<pipes, agent, opener, writer, writeLock, flags, written>>

\* The reader's finally.
Leave ==
  /\ reader = "leaving"
  /\ reader' = "over"
  /\ hand' = <<Nil, FALSE>>
  /\ MarkClosed
  /\ UNCHANGED <<pipes, agent, opener, writer, writeLock, incoming, closeHandler, session,
                 written, heard, late>>

-----------------------------------------------------------------------------
(* The agent.                                                              *)

\* onIncoming of the peer, frame by frame: requests start jobs, cancels abort those that run.
Precedes(f, g, frames) == \E i, j \in DOMAIN frames : i < j /\ frames[i] = f /\ frames[j] = g

Dispatched(frames) ==
  [r \in Requests |->
     LET request == <<"request", r>>
         cancel == <<"cancel", r>>
     IN CASE \/ job[r] = "running" /\ Contains(frames, cancel)
             \/ Precedes(request, cancel, frames) -> "aborted"
          [] job[r] = "none" /\ Contains(frames, request)
             /\ ~Precedes(request, cancel, frames) -> "running"
          [] OTHER -> job[r]]

Aborted(jobs) == [r \in Requests |-> IF jobs[r] = "running" THEN "aborted" ELSE jobs[r]]

\* onData: frames before a malformed one in the same chunk are lost with it.
OnData ==
  /\ peer
  /\ \E n \in DOMAIN down :
       LET p == buffer \o SubSeq(down, 1, n)
       IN /\ down' = SubSeq(down, n + 1, Len(down))
          /\ IF Malformed(p)
             THEN peer' = FALSE /\ job' = Aborted(job) /\ UNCHANGED <<buffer, got>>
             ELSE /\ buffer' = Rest(p)
                  /\ got' = got \o Drained(p)
                  /\ job' = Dispatched(Drained(p))
                  /\ UNCHANGED peer
  /\ UNCHANGED <<downEnds, up, upEnds, strays, host, chain, full, answered>>

\* onEnd and notifyClosed, which closes the peer.
OnEnd ==
  /\ peer /\ downEnds /\ down = <<>>
  /\ peer' = FALSE
  /\ job' = Aborted(job)
  /\ UNCHANGED <<pipes, host, buffer, chain, full, got, answered>>

\* Mutation of Answer: a handler that ignores its signal answers.
AnswerAnyway(r) ==
  /\ peer /\ job[r] \in {"running", "aborted"}
  /\ job' = [job EXCEPT ![r] = "done"]
  /\ answered' = Append(answered, <<"answer", r>>)
  /\ chain' = Append(chain, <<"answer", r>>)
  /\ UNCHANGED <<pipes, host, buffer, peer, full, got>>

\* The handler returns or throws; one that was aborted is not answered.
Answer(r) ==
  /\ job[r] \in {"running", "aborted"}
  /\ job' = [job EXCEPT ![r] = "done"]
  /\ IF job[r] = "running"
     THEN answered' = Append(answered, <<"answer", r>>) /\ chain' = Append(chain, <<"answer", r>>)
     ELSE UNCHANGED <<answered, chain>>
  /\ UNCHANGED <<pipes, host, buffer, peer, full, got>>

\* The next link of writeChain; a full pipe makes it wait for "drain".
WriteFrame ==
  /\ chain # <<>> /\ ~full
  /\ chain' = Tail(chain)
  /\ full' \in {peer, FALSE}
  /\ up' = IF peer /\ ~upEnds THEN up \o <<Length, Blank, Head(chain)>> ELSE up
  /\ UNCHANGED <<down, downEnds, upEnds, strays, host, buffer, peer, job, got, answered>>

PipeDrained ==
  /\ full /\ up = <<>>
  /\ full' = FALSE
  /\ UNCHANGED <<pipes, host, buffer, peer, job, chain, got, answered>>

\* onError of either stream.
OnError ==
  /\ peer /\ (upEnds \/ downEnds)
  /\ peer' = FALSE
  /\ job' = Aborted(job)
  /\ UNCHANGED <<pipes, host, buffer, chain, full, got, answered>>

-----------------------------------------------------------------------------
(* The process around them. *)

\* main.ts tears the agent down when its transport closes; and it may die any time.
AgentExits ==
  /\ ~upEnds
  /\ upEnds' = TRUE /\ downEnds' = TRUE
  /\ peer' = FALSE
  /\ job' = Aborted(job)
  /\ UNCHANGED <<down, up, strays, host, buffer, chain, full, got, answered>>

\* The plugin's end of the pipe is closed: the IDE exits.
HostExits ==
  /\ ~downEnds
  /\ downEnds' = TRUE
  /\ UNCHANGED <<down, up, upEnds, strays, host, agent>>

\* Something else writes a line between two frames.
Stray ==
  /\ strays < MaxStray
  /\ strays' = strays + 1
  /\ \/ ~writeLock /\ ~downEnds /\ down' = Append(down, StrayLine) /\ UNCHANGED up
     \/ ~upEnds /\ up' = Append(up, StrayLine) /\ UNCHANGED down
     \/ ~upEnds /\ up' = up \o <<StrayLine, Blank>> /\ UNCHANGED down
     \/ ~writeLock /\ ~downEnds /\ down' = down \o <<StrayLine, Blank>> /\ UNCHANGED up
  /\ UNCHANGED <<downEnds, upEnds, host, agent>>

-----------------------------------------------------------------------------
Opening == Install \/ StartReader \/ OpenSession
Marking == DropIncoming \/ Notify
Reading == Loop \/ ReadFrame \/ Recheck \/ Deliver \/ Leave
Sending(f) == TakeLock(f) \/ WriteBody(f)
Writing == WriteFrame \/ PipeDrained

Next ==
  \/ Opening \/ Marking \/ Reading \/ CloseSession \/ Close
  \/ \E f \in Frames : Enter(f) \/ Sending(f)
  \/ OnData \/ OnEnd \/ OnError \/ Writing \/ \E r \in Requests : Answer(r)
  \/ AgentExits \/ HostExits \/ Stray

\* Threads run, the agent's streams tell of what arrives, and a process whose
\* transport is closed exits.  Handlers, closers and deaths are not fair.
Spec ==
  /\ Init /\ [][Next]_vars
  /\ WF_vars(Opening) /\ WF_vars(Marking) /\ WF_vars(Reading)
  /\ \A f \in Frames : WF_vars(Sending(f))
  /\ WF_vars(OnData) /\ WF_vars(OnEnd \/ OnError) /\ WF_vars(Writing)
  /\ WF_vars(~peer /\ AgentExits)

-----------------------------------------------------------------------------
(* Properties. *)

\* Whatever chunks the pipe comes in, whichever threads write, and whatever stray text
\* comes between, each side is given frames the other has written, in order and whole
\* (StdioRpcTransport.kt:38, framing.ts:26-30).
FramesWhole == IsPrefix(got, written) /\ IsPrefix(heard, answered)

\* "A frame completed after close is never delivered" (StdioRpcTransport.kt:172, 189).
NothingLate == late = {}

\* A request whose cancel the peer gets before the handler returns is not answered
\* (peer.ts:298-360).
CancelledUnanswered ==
  [][\A r \in Requests :
       Contains(answered', <<"answer", r>>) /\ ~Contains(answered, <<"answer", r>>)
         => ~Precedes(<<"request", r>>, <<"cancel", r>>, got)]_vars

\* The end of the agent closes the session of the plugin (StdioRpcTransport.kt:45-47),
\* once the session is constructed; and the end of the plugin that of the agent.
EndClosesBoth ==
  /\ (upEnds /\ closeHandler /\ ~closed) ~> (session = "closed")
  /\ downEnds ~> ~peer

\* What the session's KDoc says (RpcSession.kt:34-36): a transport that is closed
\* closes its session.
ClosedWithTransport == (closed /\ session = "open") ~> (session = "closed")
=============================================================================
