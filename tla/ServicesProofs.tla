--------------------------- MODULE ServicesProofs ---------------------------
(***************************************************************************)
(* Four services around the chat, which share no variable: the agent's     *)
(* process, its link to the page, the delivery of contexts to the page,    *)
(* and the generation of commit messages.  Each has its invariant here.    *)
(*                                                                         *)
(* The process, for any number of callers, stoppers and processes: none is *)
(* lost, the references agree when the mutex is free, and nothing runs     *)
(* once dispose() has returned.  What makes this inductive is what the     *)
(* holder of the mutex knows (HolderKnows): who holds it is who works      *)
(* under it, a stop has taken the control out before it closes, a start    *)
(* begins with nothing left, and after dispose() no holder is a caller.    *)
(*                                                                         *)
(* The link, for any number of sockets and any amount of trouble: the      *)
(* agent has one session, the one its registry is attached to, and every   *)
(* page reads hello_ack first.  OneSession is inductive.  AckFirst is not: *)
(* that nothing precedes the ack rests on a socket's whole life (Quiet),   *)
(* from the ticket for which there is no socket yet to the session whose   *)
(* ack is on its way.                                                      *)
(*                                                                         *)
(* The delivery, for any number of offers and coroutines: no item is lost  *)
(* or doubled.  Conserved is nearly inductive; DeliveryInv adds that       *)
(* nothing is delivered that was not offered, so that an item just offered *)
(* is nowhere yet, and which coroutines have an item in their hands.       *)
(* Every step changes one coroutine (Passed) and at most one end of the    *)
(* queue (Appended, Prepended, Removed); the places of the items follow.   *)
(*                                                                         *)
(* The generation of commit messages, for any number of generations, idle  *)
(* timeout and inputs: only a generation that is silent is timed out.      *)
(* What links the agent's reports to the host's watchdog is the slot of    *)
(* the one listener (Listened): a generation that nobody has crossed holds *)
(* it, so that a report not on its way any more has reset its watchdog.    *)
(***************************************************************************)
EXTENDS AgentLifecycle, AgentLink, ContextDelivery, CommitMessage, TLAPS

-----------------------------------------------------------------------------
(* The process (AgentLifecycle). *)

Locked == {"stopping", "shutdown", "closing", "starting"}

HolderKnows ==
  /\ \A t \in Threads : pc[t] \in Locked <=> mutex = t
  /\ \A t \in Threads : pc[t] \in {"shutdown", "closing", "starting"} => control = Nil
  /\ \A t \in Threads : pc[t] = "starting" => process = Nil /\ t \in Callers
  /\ control \in {Nil, process}

Forbidden ==
  /\ pc[Disposer] # "idle" => disposed
  /\ pc[Disposer] = "done" => process = Nil /\ mutex \notin Callers

LifeInv == TypeOK /\ HolderKnows /\ NoOrphan /\ Settled /\ Forbidden

-----------------------------------------------------------------------------
LEMMA InitLifeInv == Init => LifeInv
  BY LifecycleAssumption
  DEF Init, LifeInv, TypeOK, HolderKnows, NoOrphan, Settled, Forbidden, Locked, Threads

\* A thread moves between places outside the mutex, and nothing under it changes.
LEMMA OutsideKeeps ==
  ASSUME LifeInv, NEW t \in Threads,
         NEW where \in {"idle", "waiting", "reading", "calling"},
         pc[t] \in {"idle", "waiting", "reading", "calling"},
         Goto(t, where),
         disposed' \in BOOLEAN, t # Disposer \/ disposed',
         held' \in [Callers -> Procs \cup {Nil}],
         disposed => disposed',
         UNCHANGED <<proc, open, refs, mutex, state>>
  PROVE  LifeInv'
  <1>1. TypeOK' BY DEF LifeInv, TypeOK, Goto, refs
  <1>2. HolderKnows' BY DEF LifeInv, TypeOK, HolderKnows, Locked, Goto, refs
  <1>3. NoOrphan' /\ Settled' BY DEF LifeInv, NoOrphan, Settled, refs
  <1>4. Forbidden'
    BY DEF LifeInv, TypeOK, Forbidden, Goto, refs, Threads
  <1> QED BY <1>1, <1>2, <1>3, <1>4 DEF LifeInv

LEMMA CallerKeeps ==
  ASSUME LifeInv, NEW c \in Callers,
         Ensure(c) \/ GivesUp(c) \/ Refuse(c) \/ Reuse(c) \/ ReadControl(c) \/ CallEnds(c)
  PROVE  LifeInv'
  <1> USE LifecycleAssumption
  <1>1. c \in Threads /\ c # Disposer BY DEF Threads
  <1>2. held \in [Callers -> Procs \cup {Nil}] /\ disposed \in BOOLEAN
        /\ control \in Procs \cup {Nil}
    BY DEF LifeInv, TypeOK
  <1>3. CASE Ensure(c) \/ GivesUp(c) \/ Refuse(c)
    BY <1>1, <1>2, <1>3, OutsideKeeps DEF Ensure, GivesUp, Refuse
  <1>4. CASE Reuse(c)
    <2>1. state' = state
      BY <1>4 DEF LifeInv, Settled, Reuse, Running
    <2> QED BY <1>1, <1>2, <1>4, <2>1, OutsideKeeps DEF Reuse
  <1>5. CASE ReadControl(c)
    <2>1. held' \in [Callers -> Procs \cup {Nil}]
      BY <1>2, <1>5 DEF ReadControl
    <2>2. PICK where \in {"idle", "calling"} : Goto(c, where)
      BY <1>5 DEF ReadControl
    <2> QED BY <1>1, <1>2, <1>5, <2>1, <2>2, OutsideKeeps DEF ReadControl
  <1>6. CASE CallEnds(c)
    <2>1. held' \in [Callers -> Procs \cup {Nil}]
      BY <1>2, <1>6 DEF CallEnds
    <2> QED BY <1>1, <1>2, <1>6, <2>1, OutsideKeeps DEF CallEnds
  <1> QED BY <1>3, <1>4, <1>5, <1>6

\* AskToStop and Dispose only begin to wait.
LEMMA AskKeeps ==
  ASSUME LifeInv, Dispose \/ \E s \in Stoppers : AskToStop(s)
  PROVE  LifeInv'
  <1> USE LifecycleAssumption
  <1>1. held \in [Callers -> Procs \cup {Nil}] /\ disposed \in BOOLEAN
    BY DEF LifeInv, TypeOK
  <1>2. CASE Dispose
    BY <1>1, <1>2, OutsideKeeps DEF Dispose, Threads
  <1>3. ASSUME NEW s \in Stoppers, AskToStop(s) PROVE LifeInv'
    <2>1. s \in Threads /\ s # Disposer BY DEF Threads
    <2> QED BY <1>1, <1>3, <2>1, OutsideKeeps DEF AskToStop
  <1> QED BY <1>2, <1>3

-----------------------------------------------------------------------------
(* Under the mutex. *)

LEMMA LockKeeps ==
  ASSUME LifeInv, NEW t \in Threads,
         LockToStop(t) \/ (t \in Callers /\ ColdStart(t))
  PROVE  LifeInv'
  <1>1. /\ pc[t] = "waiting" /\ mutex = Nil /\ mutex' = t
        /\ Goto(t, "stopping")
        /\ UNCHANGED <<proc, open, refs, held, disposed, state>>
        /\ t \in Callers => ~disposed
    BY LifecycleAssumption DEF LockToStop, ColdStart
  <1>2. TypeOK' BY <1>1 DEF LifeInv, TypeOK, Goto, refs
  <1>3. HolderKnows'
    BY <1>1, LifecycleAssumption DEF LifeInv, TypeOK, HolderKnows, Locked, Goto, refs
  <1>4. NoOrphan' /\ Settled'
    BY <1>1, LifecycleAssumption DEF LifeInv, NoOrphan, Settled, refs
  <1>5. Forbidden'
    BY <1>1, LifecycleAssumption DEF LifeInv, TypeOK, Forbidden, Goto, refs, Threads
  <1> QED BY <1>2, <1>3, <1>4, <1>5 DEF LifeInv

LEMMA StopKeeps ==
  ASSUME LifeInv, NEW t \in Threads, StopLocked(t)
  PROVE  LifeInv'
  <1> USE LifecycleAssumption
  <1>0. mutex = t /\ mutex # Nil /\ \A u \in Threads : u # t => pc[u] \notin Locked
    BY DEF LifeInv, HolderKnows, Locked, StopLocked, TakeControl, ShutdownEnds, Close
  <1>1. CASE TakeControl(t)
    <2>1. PICK where \in {"shutdown", "closing"} : Goto(t, where)
      BY <1>1 DEF TakeControl
    <2> QED BY <1>0, <1>1, <2>1
      DEF LifeInv, TypeOK, HolderKnows, NoOrphan, Settled, Forbidden, Locked, TakeControl, Goto
  <1>2. CASE ShutdownEnds(t)
    BY <1>0, <1>2
    DEF LifeInv, TypeOK, HolderKnows, NoOrphan, Settled, Forbidden, Locked, ShutdownEnds, Goto, refs
  <1>3. CASE Close(t)
    <2>1. /\ control = Nil /\ control' = Nil /\ process' = Nil
          /\ disposed' = disposed /\ pc[t] = "closing"
      BY <1>3 DEF LifeInv, HolderKnows, Close
    <2>2. TypeOK' BY <1>3 DEF LifeInv, TypeOK, Close, Destroyed, StateAfterStop, Goto, Threads
    <2>3. NoOrphan' BY <1>3 DEF LifeInv, TypeOK, NoOrphan, Close, Destroyed
    <2>4. CASE t \in Callers
      <3>1. mutex' = t /\ pc' = [pc EXCEPT ![t] = "starting"]
        BY <1>3, <2>4 DEF Close, Goto
      <3> QED BY <1>0, <2>1, <2>2, <2>3, <2>4, <3>1
        DEF LifeInv, TypeOK, HolderKnows, Settled, Forbidden, Locked
    <2>5. CASE t \notin Callers
      <3>1. /\ mutex' = Nil /\ state' = "STOPPED"
            /\ pc' = [pc EXCEPT ![t] = IF t = Disposer THEN "done" ELSE "idle"]
        BY <1>3, <2>5 DEF Close, StateAfterStop, Goto
      <3>2. pc'[t] \notin Locked /\ \A u \in Threads : u # t => pc'[u] = pc[u]
        BY <3>1 DEF LifeInv, TypeOK, Locked
      <3>3. HolderKnows'
        BY <1>0, <2>1, <3>1, <3>2 DEF LifeInv, HolderKnows, Locked
      <3>4. Settled'
        BY <2>1, <3>1 DEF Settled
      <3>5. Forbidden'
        <4>1. pc[Disposer] # "idle" => disposed
          BY DEF LifeInv, Forbidden
        <4>2. Disposer \in Threads
          BY DEF Threads
        <4>3. pc'[Disposer] # "idle" => disposed
          BY <2>1, <3>2, <4>1, <4>2
        <4> QED BY <2>1, <3>1, <4>3 DEF Forbidden, Threads
      <3> QED BY <2>2, <2>3, <3>3, <3>4, <3>5 DEF LifeInv
    <2> QED BY <2>4, <2>5
  <1> QED BY <1>1, <1>2, <1>3 DEF StopLocked

LEMMA StartKeeps ==
  ASSUME LifeInv, NEW c \in Callers, StartFails(c) \/ \E p \in Procs : Start(c, p)
  PROVE  LifeInv'
  <1> USE LifecycleAssumption
  <1>0. /\ c \in Threads /\ c # Disposer /\ pc[c] = "starting"
        /\ mutex = c /\ process = Nil /\ control = Nil
        /\ \A u \in Threads : u # c => pc[u] \notin Locked
    BY DEF LifeInv, HolderKnows, Locked, StartFails, Start, Threads
  <1>1. pc[Disposer] # "done"
    BY <1>0 DEF LifeInv, Forbidden
  <1>2. CASE StartFails(c)
    BY <1>0, <1>2
    DEF LifeInv, TypeOK, HolderKnows, NoOrphan, Settled, Forbidden, Locked, StartFails, Goto, refs
  <1>3. ASSUME NEW p \in Procs, Start(c, p) PROVE LifeInv'
    <2>1. TypeOK' BY <1>0, <1>3 DEF LifeInv, TypeOK, Start, Goto
    <2>2. HolderKnows'
      BY <1>0, <1>3 DEF LifeInv, TypeOK, HolderKnows, Locked, Start, Goto
    <2>3. NoOrphan'
      BY <1>0, <1>3 DEF LifeInv, TypeOK, NoOrphan, Start
    <2>4. Settled' BY <1>3 DEF Settled, Start
    <2>5. Forbidden'
      BY <1>0, <1>1, <1>3 DEF LifeInv, TypeOK, Forbidden, Start, Goto, Threads
    <2> QED BY <2>1, <2>2, <2>3, <2>4, <2>5 DEF LifeInv
  <1> QED BY <1>2, <1>3

-----------------------------------------------------------------------------
LEMMA ProcessKeeps ==
  ASSUME LifeInv, NEW p \in Procs, Dies(p) \/ PipeFails(p) \/ Forget(p)
  PROVE  LifeInv'
  <1> USE DEF LifeInv, TypeOK, HolderKnows, NoOrphan, Settled, Forbidden, refs
  <1>1. CASE Dies(p) BY <1>1 DEF Dies
  <1>2. CASE PipeFails(p) BY <1>2 DEF PipeFails
  <1>3. CASE Forget(p) BY <1>3 DEF Forget
  <1> QED BY <1>1, <1>2, <1>3

LEMMA NextLifeInv == LifeInv /\ [Next]_vars => LifeInv'
  <1> SUFFICES ASSUME LifeInv, [Next]_vars PROVE LifeInv'
    OBVIOUS
  <1>1. ASSUME NEW t \in Threads, TakeMutex(t) PROVE LifeInv'
    BY <1>1, CallerKeeps, LockKeeps DEF TakeMutex
  <1>2. ASSUME NEW t \in Threads, Continue(t) PROVE LifeInv'
    BY <1>2, StopKeeps, CallerKeeps, StartKeeps DEF Continue
  <1>3. CASE UNCHANGED vars
    BY <1>3 DEF vars, LifeInv, TypeOK, HolderKnows, NoOrphan, Settled, Forbidden
  <1> QED BY <1>1, <1>2, <1>3, CallerKeeps, AskKeeps, ProcessKeeps DEF Next

THEOREM LifecycleInvariant == Spec => []LifeInv
  BY InitLifeInv, NextLifeInv, PTL DEF Spec

\* Type correctness of the service.
THEOREM LifecycleTypes == Spec => []TypeOK
  <1>1. LifeInv => TypeOK BY DEF LifeInv
  <1> QED BY <1>1, LifecycleInvariant, PTL

\* A process that lives is the one the service would stop (VibeflyAgentService.kt:151-178, 201-239).
THEOREM NoOrphanHolds == Spec => []NoOrphan
  <1>1. LifeInv => NoOrphan BY DEF LifeInv
  <1> QED BY <1>1, LifecycleInvariant, PTL

\* Whoever gets the mutex finds process, control and state in agreement.
THEOREM SettledHolds == Spec => []Settled
  <1>1. LifeInv => Settled BY DEF LifeInv
  <1> QED BY <1>1, LifecycleInvariant, PTL

\* Nothing runs once dispose() has returned, and nothing is started again.
THEOREM DisposedForGoodHolds == Spec => []DisposedForGood
  <1>1. LifeInv => DisposedForGood
    BY LifecycleAssumption DEF LifeInv, TypeOK, Forbidden, NoOrphan, DisposedForGood
  <1> QED BY <1>1, LifecycleInvariant, PTL

-----------------------------------------------------------------------------
(* The link (AgentLink). *)

\* What may be on its way to the page of socket k before its handshake is done.
Quiet(k) ==
  /\ cli[k] = "unused" => srv[k] \in {"none", "gone"}
  /\ srv[k] \in {"none", "accepted"} => down[k] = <<>>
  /\ cli[k] \in {"unused", "connecting", "open"} =>
       /\ down[k] # <<>> => Head(down[k]) = "ack"
       /\ srv[k] = "session" => down[k] # <<>>

\* connectOnce has a socket to open, and has not opened it.
Holds ==
  /\ phase \in {"granted", "probing", "ready"} => cur \in Sockets
  /\ phase = "granted" => cli[cur] = "unused"

LinkInv == LinkTypeOK /\ OneSession /\ Holds /\ \A k \in Sockets : Quiet(k)

-----------------------------------------------------------------------------
LEMMA AppendHead ==
  ASSUME NEW s \in Seq(Frames), NEW x \in Frames
  PROVE  /\ Append(s, x) \in Seq(Frames)
         /\ Append(s, x) # <<>>
         /\ s # <<>> => Head(Append(s, x)) = Head(s)
         /\ s = <<>> => Head(Append(s, x)) = x
  OBVIOUS

LEMMA TailType ==
  ASSUME NEW s \in Seq(Frames), s # <<>>
  PROVE  Tail(s) \in Seq(Frames) /\ Head(s) \in Frames
  OBVIOUS

LEMMA InitLinkInv == LinkInit => LinkInv
  BY LinkAssumption DEF LinkInit, LinkInv, LinkTypeOK, OneSession, Holds, Quiet

-----------------------------------------------------------------------------
(* The page's own steps. *)

LEMMA AskingKeeps ==
  ASSUME LinkInv, Retry \/ Connect \/ Noticed
  PROVE  LinkInv'
  <1> USE DEF LinkInv, LinkTypeOK, OneSession, Holds, Quiet, server
  <1>1. CASE Retry BY <1>1 DEF Retry
  <1>2. CASE Connect BY <1>2 DEF Connect
  <1>3. CASE Noticed BY <1>3 DEF Noticed
  <1> QED BY <1>1, <1>2, <1>3

LEMMA GrantKeeps ==
  ASSUME LinkInv, NEW k \in Sockets, Grant(k)
  PROVE  LinkInv'
  <1>1. LinkTypeOK' BY DEF LinkInv, LinkTypeOK, Grant, Frames
  <1>2. OneSession' BY DEF LinkInv, LinkTypeOK, OneSession, Grant, Forgotten
  <1>3. Holds' BY DEF LinkInv, LinkTypeOK, Holds, Grant
  <1>4. ASSUME NEW j \in Sockets PROVE Quiet(j)'
    BY DEF LinkInv, LinkTypeOK, Quiet, Grant
  <1> QED BY <1>1, <1>2, <1>3, <1>4 DEF LinkInv

\* What PageCloses leaves behind, whatever else a step does to the other frames.
LEMMA PageClosesKeeps ==
  ASSUME LinkInv, NEW k \in Sockets, cli[k] # "unused", PageCloses(k)
  PROVE  /\ cli' \in [Sockets -> {"unused", "connecting", "open", "ready", "closed"}]
         /\ phase' \in {"waiting", "asking", "granted", "probing", "ready"}
         /\ cur' \in Sockets \cup {NoSocket}
         /\ Holds'
  BY DEF LinkInv, LinkTypeOK, Holds, PageCloses, ProbeRejected, attempt

LEMMA PageKeeps ==
  ASSUME LinkInv, NEW k \in Sockets, Page(k)
  PROVE  LinkInv'
  <1>1. CASE PageOpens(k)
    <2>1. Append(up[k], "hello") \in Seq(Frames)
      BY AppendHead DEF LinkInv, LinkTypeOK, Frames
    <2> QED BY <1>1, <2>1
      DEF LinkInv, LinkTypeOK, OneSession, Holds, Quiet, PageOpens, server, attempt
  <1>2. CASE PageMessage(k)
    <2>1. /\ Tail(down[k]) \in Seq(Frames)
          /\ Append(up[k], "ping") \in Seq(Frames)
          /\ down' = [down EXCEPT ![k] = Tail(@)]
          /\ UNCHANGED <<server, trouble>>
      BY <1>2, TailType, AppendHead DEF LinkInv, LinkTypeOK, Frames, PageMessage
    <2>2. CASE cli[k] = "open" /\ Head(down[k]) = "ack"
      <3>1. /\ cli' = [cli EXCEPT ![k] = "ready"]
            /\ up' = [up EXCEPT ![k] = Append(@, "ping")]
            /\ UNCHANGED attempt
        BY <1>2, <2>2 DEF PageMessage, PageHandshake, PageReceives
      <3> QED BY <1>2, <2>1, <2>2, <3>1
        DEF LinkInv, LinkTypeOK, OneSession, Holds, Quiet, server, attempt
    <2>3. CASE cli[k] = "open" /\ Head(down[k]) # "ack"
      <3>1. PageCloses(k) /\ UNCHANGED up
        BY <1>2, <2>3 DEF PageMessage, PageHandshake, PageReceives
      <3>2. cli' = [cli EXCEPT ![k] = "closed"]
        BY <3>1 DEF PageCloses
      <3> QED BY <2>1, <2>3, <3>1, <3>2, PageClosesKeeps
        DEF LinkInv, LinkTypeOK, OneSession, Quiet, server
    <2>4. CASE cli[k] = "ready"
      <3>1. /\ UNCHANGED <<cli, up, cur>>
            /\ phase' = phase \/ (phase = "probing" /\ phase' = "ready")
        BY <1>2, <2>4 DEF PageMessage, PageHandshake, PageReceives
      <3> QED BY <2>1, <2>4, <3>1
        DEF LinkInv, LinkTypeOK, OneSession, Holds, Quiet, server
    <2> QED BY <1>2, <2>2, <2>3, <2>4 DEF PageMessage, PageHandshake, PageReceives
  <1>3. CASE PageCloseEvent(k)
    <2>1. /\ PageCloses(k) /\ cli[k] # "unused"
          /\ cli' = [cli EXCEPT ![k] = "closed"]
          /\ UNCHANGED <<server, up, down, trouble>>
      BY <1>3 DEF PageCloseEvent, PageCloses
    <2> QED BY <2>1, PageClosesKeeps
      DEF LinkInv, LinkTypeOK, OneSession, Quiet, server
  <1> QED BY <1>1, <1>2, <1>3 DEF Page

-----------------------------------------------------------------------------
(* The agent's steps. *)

LEMMA HandshakeKeeps ==
  ASSUME LinkInv, NEW k \in Sockets, ServerHello(k), Handshake(k)
  PROVE  LinkInv'
  <1>1. Append(down[k], "ack") \in Seq(Frames) /\ Tail(up[k]) \in Seq(Frames)
    BY AppendHead, TailType DEF LinkInv, LinkTypeOK, Frames, ServerHello
  <1>2. LinkTypeOK'
    BY <1>1 DEF LinkInv, LinkTypeOK, ServerHello, Handshake, OnSession, attempt
  <1>3. OneSession'
    <2>1. active # k
      BY LinkAssumption DEF LinkInv, OneSession, ServerHello
    <2> QED BY <2>1 DEF LinkInv, LinkTypeOK, OneSession, ServerHello, Handshake, OnSession
  <1>4. Holds'
    BY DEF LinkInv, Holds, ServerHello, attempt
  <1>5. ASSUME NEW j \in Sockets PROVE Quiet(j)'
    <2>1. CASE j = k
      <3>1. down[k] = <<>> /\ cli[k] # "unused"
        BY DEF LinkInv, Quiet, ServerHello
      <3>2. down'[k] # <<>> /\ Head(down'[k]) = "ack"
        BY <3>1, AppendHead DEF LinkInv, LinkTypeOK, Frames, Handshake
      <3> QED BY <2>1, <3>1, <3>2
        DEF LinkInv, LinkTypeOK, Quiet, ServerHello, Handshake, OnSession
    <2>2. CASE j # k
      <3>1. down'[j] = down[j] /\ cli' = cli
        BY <2>2 DEF LinkInv, LinkTypeOK, ServerHello, Handshake
      <3>2. srv'[j] = srv[j] \/ (srv[j] \in {"session", "closing"} /\ srv'[j] = "closing")
        <4>1. CASE j = active
          BY <2>2, <4>1, LinkAssumption DEF LinkInv, OneSession, Handshake, OnSession
        <4>2. CASE j # active
          BY <2>2, <4>2 DEF Handshake, OnSession
        <4> QED BY <4>1, <4>2
      <3> QED BY <3>1, <3>2, <1>5 DEF LinkInv, Quiet
    <2> QED BY <2>1, <2>2
  <1> QED BY <1>2, <1>3, <1>4, <1>5 DEF LinkInv

LEMMA ServerKeeps ==
  ASSUME LinkInv, NEW k \in Sockets, Server(k)
  PROVE  LinkInv'
  <1> USE DEF LinkInv, LinkTypeOK, OneSession, Holds, Quiet, server, attempt
  <1>1. CASE Accept(k) BY <1>1 DEF Accept
  <1>2. CASE ServerHello(k)
    <2>1. Tail(up[k]) \in Seq(Frames)
      BY <1>2, TailType DEF ServerHello
    <2>2. CASE HandshakeRefused(k)
      BY <1>2, <2>1, <2>2 DEF ServerHello, HandshakeRefused
    <2> QED BY <1>2, <2>2, HandshakeKeeps DEF ServerHello
  <1>3. CASE ServerReceives(k)
    <2>1. /\ Tail(up[k]) \in Seq(Frames)
          /\ Append(down[k], "pong") \in Seq(Frames)
          /\ Append(down[k], "pong") # <<>>
          /\ down[k] # <<>> => Head(Append(down[k], "pong")) = Head(down[k])
      BY <1>3, TailType, AppendHead DEF ServerReceives, Frames
    <2> QED BY <1>3, <2>1 DEF ServerReceives
  <1>4. CASE ServerCloseEvent(k)
    BY <1>4 DEF ServerCloseEvent, OnSessionClosed
  <1> QED BY <1>1, <1>2, <1>3, <1>4 DEF Server

LEMMA EventKeeps ==
  ASSUME LinkInv, NEW k \in Sockets, Event(k)
  PROVE  LinkInv'
  <1>1. /\ Append(down[k], "event") \in Seq(Frames)
        /\ Append(down[k], "event") # <<>>
        /\ down[k] # <<>> => Head(Append(down[k], "event")) = Head(down[k])
    BY AppendHead DEF LinkInv, LinkTypeOK, Frames
  <1> QED BY <1>1
    DEF LinkInv, LinkTypeOK, OneSession, Holds, Quiet, Event, server, attempt

-----------------------------------------------------------------------------
(* Trouble. *)

LEMMA TroubleKeeps ==
  ASSUME LinkInv, Trouble
  PROVE  LinkInv'
  <1>0. trouble' \in 0..MaxTrouble
    BY LinkAssumption DEF LinkInv, LinkTypeOK, Trouble
  <1> USE <1>0 DEF LinkInv, LinkTypeOK, OneSession, Holds, Quiet, server, attempt
  <1>1. CASE AskingFails BY <1>1 DEF AskingFails
  <1>2. CASE PingTimesOut BY <1>2 DEF PingTimesOut
  <1>3. CASE Reload BY <1>3 DEF Reload
  <1>4. CASE AgentDies BY <1>4 DEF AgentDies
  <1>5. ASSUME NEW k \in Sockets, TicketExpires(k) PROVE LinkInv'
    BY <1>5 DEF TicketExpires
  <1>6. ASSUME NEW k \in Sockets, PageFails(k) PROVE LinkInv'
    <2>1. /\ PageCloses(k) /\ cli[k] # "unused"
          /\ cli' = [cli EXCEPT ![k] = "closed"]
          /\ UNCHANGED <<server, up, down>>
      BY <1>6 DEF PageFails, PageCloses
    <2> QED BY <2>1, PageClosesKeeps
  <1>7. ASSUME NEW k \in Sockets, ServerFails(k) PROVE LinkInv'
    BY <1>7 DEF ServerFails
  <1> QED BY <1>1, <1>2, <1>3, <1>4, <1>5, <1>6, <1>7 DEF Trouble

LEMMA NextLinkInv == LinkInv /\ [LinkNext]_linkVars => LinkInv'
  <1> SUFFICES ASSUME LinkInv, [LinkNext]_linkVars PROVE LinkInv'
    OBVIOUS
  <1>1. CASE Trouble BY <1>1, TroubleKeeps
  <1>2. CASE \E k \in Sockets : Grant(k) \/ Page(k) \/ Server(k) \/ Event(k)
    BY <1>2, GrantKeeps, PageKeeps, ServerKeeps, EventKeeps
  <1>3. CASE UNCHANGED linkVars
    BY <1>3 DEF linkVars, LinkInv, LinkTypeOK, OneSession, Holds, Quiet
  <1> QED BY <1>1, <1>2, <1>3, AskingKeeps DEF LinkNext

THEOREM LinkInvariant == LinkSpec => []LinkInv
  BY InitLinkInv, NextLinkInv, PTL DEF LinkSpec

\* Type correctness of the link.
THEOREM LinkTypes == LinkSpec => []LinkTypeOK
  <1>1. LinkInv => LinkTypeOK BY DEF LinkInv
  <1> QED BY <1>1, LinkInvariant, PTL

\* The agent has one session, and the registry is attached to it and to no other (ws.ts:90-118).
THEOREM OneSessionHolds == LinkSpec => []OneSession
  <1>1. LinkInv => OneSession BY DEF LinkInv
  <1> QED BY <1>1, LinkInvariant, PTL

\* hello_ack is the first frame a page reads on any socket (websocket-server.ts:281-293).
THEOREM AckFirstHolds == LinkSpec => []AckFirst
  <1>1. LinkInv => AckFirst BY DEF LinkInv, AckFirst, Quiet
  <1> QED BY <1>1, LinkInvariant, PTL

-----------------------------------------------------------------------------
(* The delivery (ContextDelivery). *)

Carrying == {"adding", "calling", "answering", "lost", "failed"}

ElementsOf(s) == {s[i] : i \in DOMAIN s}
NoTwice(s) == \A i, k \in DOMAIN s : s[i] = s[k] => i = k
OneEach == \A j, k \in Jobs : job[j].item = job[k].item /\ job[j].item # NoItem => j = k

\* What the page has is elsewhere only while its answer is awaited, or if that was late.
Once ==
  /\ late \subseteq shown
  /\ InLine \cap shown \subseteq late
  /\ \A j \in Jobs : job[j].at = "answering" => job[j].item \in shown
  /\ \A j \in Jobs : job[j].item \in shown \ late => job[j].at = "answering"

DeliveryInv ==
  /\ DeliveryTypeOK
  /\ \A j \in Jobs : job[j].item # NoItem <=> job[j].at \in Carrying
  /\ offered = InLine \cup InHands \cup shown
  /\ NoTwice(pending)
  /\ OneEach
  /\ InLine \cap InHands = {}
  /\ Once

-----------------------------------------------------------------------------
(* The queue. *)

LEMMA Appended ==
  ASSUME NEW T, NEW s \in Seq(T), NEW e \in T
  PROVE  /\ Append(s, e) \in Seq(T)
         /\ ElementsOf(Append(s, e)) = ElementsOf(s) \cup {e}
         /\ NoTwice(s) /\ e \notin ElementsOf(s) => NoTwice(Append(s, e))
  <1> DEFINE u == Append(s, e)
  <1>1. /\ u \in Seq(T) /\ Len(s) \in Nat
        /\ DOMAIN s = 1..Len(s) /\ DOMAIN u = 1..(Len(s) + 1)
        /\ u[Len(s) + 1] = e /\ \A i \in DOMAIN s : u[i] = s[i]
    OBVIOUS
  <1> HIDE DEF u
  <1>2. /\ Len(s) + 1 \in DOMAIN u /\ \A i \in DOMAIN s : i \in DOMAIN u
        /\ \A i \in DOMAIN u : i = Len(s) + 1 \/ i \in DOMAIN s
    BY <1>1
  <1>3. ElementsOf(u) = ElementsOf(s) \cup {e}
    BY <1>1, <1>2 DEF ElementsOf
  <1>4. NoTwice(s) /\ e \notin ElementsOf(s) => NoTwice(u)
    BY <1>1, <1>2 DEF ElementsOf, NoTwice
  <1> QED
    BY <1>1, <1>3, <1>4 DEF u

LEMMA Prepended ==
  ASSUME NEW T, NEW s \in Seq(T), NEW e \in T
  PROVE  /\ <<e>> \o s \in Seq(T)
         /\ ElementsOf(<<e>> \o s) = ElementsOf(s) \cup {e}
         /\ NoTwice(s) /\ e \notin ElementsOf(s) => NoTwice(<<e>> \o s)
  <1> DEFINE u == <<e>> \o s
  <1>1. /\ u \in Seq(T) /\ Len(s) \in Nat
        /\ DOMAIN s = 1..Len(s) /\ DOMAIN u = 1..(Len(s) + 1)
        /\ u[1] = e /\ \A i \in DOMAIN s : u[i + 1] = s[i]
    OBVIOUS
  <1> HIDE DEF u
  <1>2. /\ 1 \in DOMAIN u /\ \A i \in DOMAIN s : i + 1 \in DOMAIN u
        /\ \A i \in DOMAIN u : i = 1 \/ (i - 1 \in DOMAIN s /\ u[i] = s[i - 1])
    BY <1>1
  <1>3. ElementsOf(u) = ElementsOf(s) \cup {e}
    BY <1>1, <1>2 DEF ElementsOf
  <1>4. ASSUME NoTwice(s), e \notin ElementsOf(s), NEW i \in DOMAIN u, NEW k \in DOMAIN u, u[i] = u[k]
        PROVE  i = k
    <2>1. CASE i = 1 \/ k = 1
      BY <1>1, <1>2, <1>4, <2>1 DEF ElementsOf
    <2>2. CASE i # 1 /\ k # 1
      <3>1. i - 1 \in DOMAIN s /\ k - 1 \in DOMAIN s /\ s[i - 1] = s[k - 1]
        BY <1>2, <1>4, <2>2
      <3>2. i - 1 = k - 1
        BY <1>4, <3>1 DEF NoTwice
      <3> QED
        BY <1>1, <3>2
    <2> QED
      BY <2>1, <2>2
  <1> QED
    BY <1>1, <1>3, <1>4 DEF u, NoTwice

LEMMA Removed ==
  ASSUME NEW T, NEW s \in Seq(T), s # <<>>
  PROVE  /\ Tail(s) \in Seq(T) /\ Head(s) \in T
         /\ ElementsOf(s) = ElementsOf(Tail(s)) \cup {Head(s)}
         /\ NoTwice(s) => NoTwice(Tail(s)) /\ Head(s) \notin ElementsOf(Tail(s))
  <1> DEFINE u == Tail(s)
  <1>1. /\ u \in Seq(T) /\ Head(s) \in T /\ Head(s) = s[1] /\ Len(s) \in Nat /\ Len(s) >= 1
        /\ DOMAIN s = 1..Len(s) /\ DOMAIN u = 1..(Len(s) - 1)
        /\ \A i \in DOMAIN u : u[i] = s[i + 1]
    OBVIOUS
  <1> HIDE DEF u
  <1>2. /\ 1 \in DOMAIN s
        /\ \A i \in DOMAIN u : i + 1 \in DOMAIN s /\ i + 1 # 1 /\ u[i] = s[i + 1]
        /\ \A i \in DOMAIN s : i = 1 \/ (i - 1 \in DOMAIN u /\ u[i - 1] = s[i])
    BY <1>1
  <1>3. ElementsOf(s) = ElementsOf(u) \cup {Head(s)}
    BY <1>1, <1>2 DEF ElementsOf
  <1>4. NoTwice(s) => Head(s) \notin ElementsOf(u)
    BY <1>1, <1>2 DEF ElementsOf, NoTwice
  <1>5. ASSUME NoTwice(s), NEW i \in DOMAIN u, NEW k \in DOMAIN u, u[i] = u[k]
        PROVE  i = k
    <2>1. i + 1 = k + 1
      BY <1>2, <1>5 DEF NoTwice
    <2> QED
      BY <2>1, <1>1
  <1> QED
    BY <1>1, <1>3, <1>4, <1>5 DEF u, NoTwice

-----------------------------------------------------------------------------
(* The hands: coroutine j goes from what it carries to r.                  *)
Places == {"none", "adding", "flushing", "taking", "calling", "answering", "lost", "failed"}

LEMMA Passed ==
  ASSUME DeliveryInv, NEW j \in Jobs, NEW r \in [at : Places, item : Items \cup {NoItem}],
         r.item # NoItem <=> r.at \in Carrying,
         job' = [job EXCEPT ![j] = r],
         r.item \notin InHands \ {job[j].item}
  PROVE  /\ job' \in [Jobs -> [at : Places, item : Items \cup {NoItem}]]
         /\ \A k \in Jobs : job'[k].item # NoItem <=> job'[k].at \in Carrying
         /\ InHands' = (InHands \ {job[j].item}) \cup ({r.item} \ {NoItem})
         /\ OneEach'
         /\ job'[j] = r /\ \A k \in Jobs : k # j => job'[k] = job[k]
  <1>1. job \in [Jobs -> [at : Places, item : Items \cup {NoItem}]]
    BY DEF DeliveryInv, DeliveryTypeOK, Places
  <1>2. job'[j] = r /\ \A k \in Jobs : k # j => job'[k] = job[k]
    BY <1>1
  <1>3. job' \in [Jobs -> [at : Places, item : Items \cup {NoItem}]]
    BY <1>1
  <1>4. \A k \in Jobs : job'[k].item # NoItem <=> job'[k].at \in Carrying
    BY <1>2 DEF DeliveryInv
  <1>5. \A k \in Jobs : k # j /\ job[k].item # NoItem => job[k].item # job[j].item
    BY DEF DeliveryInv, OneEach
  <1>6. \A k \in Jobs : k # j /\ r.item # NoItem => job[k].item # r.item
    BY <1>5 DEF InHands
  <1>7. OneEach'
    BY <1>2, <1>6 DEF DeliveryInv, OneEach
  <1>8. InHands' = (InHands \ {job[j].item}) \cup ({r.item} \ {NoItem})
    BY <1>2, <1>5 DEF InHands
  <1> QED
    BY <1>2, <1>3, <1>4, <1>7, <1>8

-----------------------------------------------------------------------------
LEMMA InitDeliveryInv == DeliveryInit => DeliveryInv
  <1> SUFFICES ASSUME DeliveryInit PROVE DeliveryInv
    OBVIOUS
  <1>1. \A j \in Jobs : job[j].item = NoItem /\ job[j].at = "none"
    BY DEF DeliveryInit, NoJob
  <1>2. DeliveryTypeOK
    <2>1. NoJob \in [at : Places, item : Items \cup {NoItem}]
      BY DEF NoJob, Places
    <2>2. job \in [Jobs -> [at : Places, item : Items \cup {NoItem}]]
      BY <2>1 DEF DeliveryInit
    <2>3. pending = <<>>
      BY DEF DeliveryInit
    <2>4. pending \in Seq(Items)
      BY <2>3
    <2>5. /\ bound \in BOOLEAN /\ page \in {"loading", "listening", "ready"}
          /\ offered \subseteq Items /\ shown \subseteq Items /\ late \subseteq Items
      BY DEF DeliveryInit
    <2> QED
      BY <2>2, <2>4, <2>5 DEF DeliveryTypeOK, Places
  <1>3. InLine = {} /\ InHands = {} /\ NoTwice(pending) /\ OneEach
    BY <1>1 DEF DeliveryInit, InLine, InHands, NoTwice, OneEach
  <1> QED
    BY <1>1, <1>2, <1>3 DEF DeliveryInv, DeliveryInit, Carrying, Once

(* A coroutine is launched, empty-handed or with what was just offered.    *)
LEMMA LaunchKeeps ==
  ASSUME DeliveryInv, NEW j \in Jobs, NEW at \in {"adding", "flushing"}, NEW item \in Items \cup {NoItem},
         Launch(j, at, item), item # NoItem <=> at = "adding",
         item \notin offered, offered' = offered \cup ({item} \ {NoItem}),
         bound' \in BOOLEAN, page' \in {"loading", "listening", "ready"},
         UNCHANGED <<pending, shown, late>>
  PROVE  DeliveryInv'
  <1> DEFINE r == [at |-> at, item |-> item]
  <1>1. job[j].item = NoItem /\ job' = [job EXCEPT ![j] = r]
    BY DEF Launch, NoJob
  <1>2. r \in [at : Places, item : Items \cup {NoItem}] /\ r.item = item
        /\ (r.item # NoItem <=> r.at \in Carrying)
    BY DEF Places, Carrying
  <1>3. r.item \notin InHands \ {job[j].item}
    BY <1>2 DEF DeliveryInv
  <1>4. /\ job' \in [Jobs -> [at : Places, item : Items \cup {NoItem}]]
        /\ \A k \in Jobs : job'[k].item # NoItem <=> job'[k].at \in Carrying
        /\ InHands' = (InHands \ {NoItem}) \cup ({item} \ {NoItem})
        /\ OneEach'
        /\ job'[j] = r /\ \A k \in Jobs : k # j => job'[k] = job[k]
    <2> HIDE DEF r
    <2> QED
      BY <1>1, <1>2, <1>3, Passed
  <1>5. InLine' = InLine /\ NoTwice(pending)'
    BY DEF InLine, DeliveryInv
  <1>6. InHands' = InHands \cup ({item} \ {NoItem})
    BY <1>4 DEF InHands
  <1>7. DeliveryTypeOK'
    BY <1>4 DEF DeliveryInv, DeliveryTypeOK, Places
  <1>8. Once'
    <2>1. item \notin shown
      BY DEF DeliveryInv
    <2>2. job'[j].at # "answering" /\ job'[j].item = item
      BY <1>2, <1>4
    <2> QED
      BY <1>4, <1>5, <2>1, <2>2 DEF DeliveryInv, Once
  <1> QED
    BY <1>4, <1>5, <1>6, <1>7, <1>8 DEF DeliveryInv

(* A coroutine takes a step that leaves the queue alone.                   *)
LEMMA StepKeeps ==
  ASSUME DeliveryInv, NEW j \in Jobs,
         NEW r \in [at : Places, item : Items \cup {NoItem}],
         r.item # NoItem <=> r.at \in Carrying,
         job' = [job EXCEPT ![j] = r],
         r.item \in {NoItem, job[j].item},
         shown' = shown \/ shown' = shown \cup ({job[j].item} \ {NoItem}),
         job[j].item \in {r.item, NoItem} \cup shown',
         late \subseteq late', late' \subseteq shown',
         r.at = "answering" => r.item \in shown',
         r.item \in shown' \ late' => r.at = "answering",
         UNCHANGED <<bound, page, pending, offered>>
  PROVE  DeliveryInv'
  <1>1. /\ job' \in [Jobs -> [at : Places, item : Items \cup {NoItem}]]
        /\ \A k \in Jobs : job'[k].item # NoItem <=> job'[k].at \in Carrying
        /\ InHands' = (InHands \ {job[j].item}) \cup ({r.item} \ {NoItem})
        /\ OneEach'
        /\ job'[j] = r /\ \A k \in Jobs : k # j => job'[k] = job[k]
    <2>1. r.item \notin InHands \ {job[j].item}
      BY DEF InHands
    <2> QED
      BY <2>1, Passed
  <1>2. InLine' = InLine /\ NoTwice(pending)'
    BY DEF InLine, DeliveryInv
  <1>3. job[j].item \in InHands \cup {NoItem} /\ NoItem \notin InHands
    BY DEF InHands
  <1>4. job[j].item \in Items \cup {NoItem}
    BY DEF DeliveryInv, DeliveryTypeOK
  <1>5. DeliveryTypeOK'
    BY <1>1, <1>4 DEF DeliveryInv, DeliveryTypeOK, Places
  <1>6. offered' = InLine' \cup InHands' \cup shown'
    BY <1>1, <1>2, <1>3 DEF DeliveryInv
  <1>7. InLine' \cap InHands' = {}
    BY <1>1, <1>2, <1>3 DEF DeliveryInv
  <1>8. Once'
    <2>1. InLine' \cap shown' \subseteq late'
      BY <1>2, <1>3 DEF DeliveryInv, Once
    <2>2. ASSUME NEW k \in Jobs
          PROVE  /\ job'[k].at = "answering" => job'[k].item \in shown'
                 /\ job'[k].item \in shown' \ late' => job'[k].at = "answering"
      <3>1. CASE k = j BY <1>1, <3>1
      <3>2. CASE k # j
        <4>1. job'[k] = job[k] BY <1>1, <3>2
        <4>2. job[k].item # NoItem => job[k].item # job[j].item
          BY <3>2 DEF DeliveryInv, OneEach
        <4>3. NoItem \notin shown BY DeliveryAssumption DEF DeliveryInv, DeliveryTypeOK
        <4> QED BY <4>1, <4>2, <4>3 DEF DeliveryInv, Once
      <3> QED BY <3>1, <3>2
    <2> QED
      BY <2>1, <2>2 DEF Once
  <1> QED
    BY <1>1, <1>2, <1>5, <1>6, <1>7, <1>8 DEF DeliveryInv

(* A coroutine puts what it carries at an end of the queue.                *)
LEMMA QueueKeeps ==
  ASSUME DeliveryInv, NEW j \in Jobs,
         NEW r \in [at : Places, item : {NoItem}], r.at \notin Carrying,
         job[j].item # NoItem, job[j].at # "answering",
         job' = [job EXCEPT ![j] = r],
         \/ pending' = Append(pending, job[j].item)
         \/ pending' = <<job[j].item>> \o pending,
         UNCHANGED <<bound, page, offered, shown, late>>
  PROVE  DeliveryInv'
  <1>1. job[j].item \in Items /\ pending \in Seq(Items)
    BY DEF DeliveryInv, DeliveryTypeOK
  <1>2. /\ job' \in [Jobs -> [at : Places, item : Items \cup {NoItem}]]
        /\ \A k \in Jobs : job'[k].item # NoItem <=> job'[k].at \in Carrying
        /\ InHands' = (InHands \ {job[j].item}) \cup ({r.item} \ {NoItem})
        /\ OneEach'
        /\ job'[j] = r /\ \A k \in Jobs : k # j => job'[k] = job[k]
    <2>1. r.item = NoItem /\ r.item \notin InHands /\ r \in [at : Places, item : Items \cup {NoItem}]
      BY DEF InHands
    <2> QED
      BY <2>1, Passed
  <1>3. job[j].item \in InHands /\ r.item = NoItem
    BY DEF InHands
  <1>4. job[j].item \notin ElementsOf(pending) /\ NoTwice(pending)
    BY <1>3 DEF DeliveryInv, ElementsOf, InLine
  <1>5. /\ pending' \in Seq(Items) /\ NoTwice(pending')
        /\ ElementsOf(pending') = ElementsOf(pending) \cup {job[j].item}
    <2>1. CASE pending' = Append(pending, job[j].item)
      BY <1>1, <1>4, <2>1, Appended
    <2>2. CASE pending' = <<job[j].item>> \o pending
      BY <1>1, <1>4, <2>2, Prepended
    <2> QED
      BY <2>1, <2>2
  <1>6. InLine = ElementsOf(pending) /\ InLine' = ElementsOf(pending')
    BY DEF InLine, ElementsOf
  <1>7. DeliveryTypeOK'
    BY <1>2, <1>5 DEF DeliveryInv, DeliveryTypeOK, Places
  <1>8. offered' = InLine' \cup InHands' \cup shown' /\ InLine' \cap InHands' = {}
    BY <1>2, <1>3, <1>4, <1>5, <1>6 DEF DeliveryInv
  <1>9. Once'
    <2>1. job[j].item \in shown => job[j].item \in late
      BY DEF DeliveryInv, Once
    <2>2. InLine' \cap shown' \subseteq late'
      BY <1>5, <1>6, <2>1 DEF DeliveryInv, Once
    <2>3. r.item \notin shown /\ r.at # "answering"
      BY <1>3, DeliveryAssumption DEF DeliveryInv, DeliveryTypeOK, Carrying
    <2> QED
      BY <1>2, <2>2, <2>3 DEF DeliveryInv, Once
  <1> QED
    BY <1>2, <1>5, <1>7, <1>8, <1>9 DEF DeliveryInv

LEMMA TakeKeeps ==
  ASSUME DeliveryInv, NEW j \in Jobs, Take(j)
  PROVE  DeliveryInv'
  <1>1. job[j].at = "taking" /\ job[j].item = NoItem
    BY DEF DeliveryInv, Take, Carrying
  <1>2. CASE pending = <<>>
    <2>1. NoJob \in [at : Places, item : Items \cup {NoItem}] /\ NoJob.item = NoItem /\ NoJob.at \notin Carrying
      BY DEF NoJob, Places, Carrying
    <2>2. job' = [job EXCEPT ![j] = NoJob] /\ UNCHANGED <<bound, page, pending, offered, shown, late>>
      BY <1>2 DEF Take
    <2>3. NoItem \notin shown /\ late \subseteq shown /\ NoJob.at # "answering"
      BY DeliveryAssumption DEF DeliveryInv, DeliveryTypeOK, Once, NoJob
    <2> QED
      BY <1>1, <2>1, <2>2, <2>3, StepKeeps
  <1>3. CASE pending # <<>>
    <2> DEFINE r == [at |-> "calling", item |-> Head(pending)]
    <2>1. job' = [job EXCEPT ![j] = r] /\ pending' = Tail(pending)
          /\ UNCHANGED <<bound, page, offered, shown, late>>
      BY <1>3 DEF Take
    <2>2. pending \in Seq(Items) /\ NoTwice(pending)
      BY DEF DeliveryInv, DeliveryTypeOK
    <2>3. /\ pending' \in Seq(Items) /\ Head(pending) \in Items
          /\ ElementsOf(pending) = ElementsOf(pending') \cup {Head(pending)}
          /\ NoTwice(pending') /\ Head(pending) \notin ElementsOf(pending')
      BY <1>3, <2>1, <2>2, Removed
    <2>4. InLine = ElementsOf(pending) /\ InLine' = ElementsOf(pending')
      BY DEF InLine, ElementsOf
    <2>5. r \in [at : Places, item : Items \cup {NoItem}] /\ r.at \in Carrying
          /\ r.item = Head(pending) /\ r.item # NoItem
      BY <2>3, DeliveryAssumption DEF Places, Carrying
    <2>6. r.item \notin InHands
      BY <2>3, <2>4, <2>5 DEF DeliveryInv
    <2>7. /\ job' \in [Jobs -> [at : Places, item : Items \cup {NoItem}]]
          /\ \A k \in Jobs : job'[k].item # NoItem <=> job'[k].at \in Carrying
          /\ InHands' = (InHands \ {NoItem}) \cup {Head(pending)}
          /\ OneEach'
          /\ job'[j] = r /\ \A k \in Jobs : k # j => job'[k] = job[k]
      <3>1. r.item \notin InHands \ {job[j].item} /\ (r.item # NoItem <=> r.at \in Carrying)
        BY <2>5, <2>6
      <3>2. InHands' = (InHands \ {job[j].item}) \cup ({r.item} \ {NoItem})
            /\ job' \in [Jobs -> [at : Places, item : Items \cup {NoItem}]]
            /\ (\A k \in Jobs : job'[k].item # NoItem <=> job'[k].at \in Carrying) /\ OneEach'
            /\ job'[j] = r /\ \A k \in Jobs : k # j => job'[k] = job[k]
        <4> HIDE DEF r
        <4> QED
          BY <2>1, <2>5, <3>1, Passed
      <3> QED
        BY <1>1, <2>5, <3>2
    <2>8. InHands' = InHands \cup {Head(pending)}
      BY <2>7 DEF InHands
    <2>9. DeliveryTypeOK'
      BY <2>1, <2>3, <2>7 DEF DeliveryInv, DeliveryTypeOK, Places
    <2>10. offered' = InLine' \cup InHands' \cup shown' /\ InLine' \cap InHands' = {}
      BY <2>1, <2>3, <2>4, <2>6, <2>5, <2>8 DEF DeliveryInv
    <2>11. Once'
      <3>1. Head(pending) \in shown => Head(pending) \in late
        BY <2>3, <2>4 DEF DeliveryInv, Once
      <3>2. r.at # "answering" /\ r.item = Head(pending)
        OBVIOUS
      <3> HIDE DEF r
      <3> QED
        BY <2>1, <2>3, <2>4, <2>7, <3>1, <3>2 DEF DeliveryInv, Once
    <2> QED
      BY <2>3, <2>7, <2>9, <2>10, <2>11 DEF DeliveryInv
  <1> QED
    BY <1>2, <1>3

-----------------------------------------------------------------------------
LEMMA JobStepKeeps ==
  ASSUME DeliveryInv, NEW j \in Jobs, JobStep(j)
  PROVE  DeliveryInv'
  <1>0. /\ job[j].item \in Items \cup {NoItem} /\ (job[j].item # NoItem <=> job[j].at \in Carrying)
        /\ job[j] = [at |-> job[j].at, item |-> job[j].item]
    BY DEF DeliveryInv, DeliveryTypeOK
  <1>a. NoItem \notin shown /\ late \subseteq shown
    BY DeliveryAssumption DEF DeliveryInv, DeliveryTypeOK, Once
  <1>b. /\ job[j].item \in shown \ late => job[j].at = "answering"
        /\ job[j].at = "answering" => job[j].item \in shown
    BY DEF DeliveryInv, Once
  <1>1. CASE Add(j)
    <2> DEFINE r == [at |-> "flushing", item |-> NoItem]
    <2>1. r \in [at : Places, item : {NoItem}] /\ r.at \notin Carrying
      BY DEF Places, Carrying
    <2>2. /\ job[j].item # NoItem /\ job[j].at # "answering" /\ job' = [job EXCEPT ![j] = r]
          /\ pending' = Append(pending, job[j].item) /\ UNCHANGED <<bound, page, offered, shown, late>>
      BY <1>0, <1>1 DEF Add, Carrying
    <2> QED
      BY <2>1, <2>2, QueueKeeps
  <1>2. CASE PutBack(j)
    <2>1. NoJob \in [at : Places, item : {NoItem}] /\ NoJob.at \notin Carrying
      BY DEF Places, Carrying, NoJob
    <2>2. /\ job[j].item # NoItem /\ job[j].at # "answering" /\ job' = [job EXCEPT ![j] = NoJob]
          /\ pending' = <<job[j].item>> \o pending /\ UNCHANGED <<bound, page, offered, shown, late>>
      BY <1>0, <1>2 DEF PutBack, Carrying
    <2> QED
      BY <2>1, <2>2, QueueKeeps
  <1>3. CASE Flush(j)
    <2> DEFINE r == IF bound THEN [at |-> "taking", item |-> NoItem] ELSE NoJob
    <2>1. r \in [at : Places, item : Items \cup {NoItem}] /\ r.item = NoItem /\ r.at \notin Carrying
      BY DEF Places, Carrying, NoJob
    <2>2. /\ job[j].item = NoItem /\ job' = [job EXCEPT ![j] = r]
          /\ UNCHANGED <<bound, page, pending, offered, shown, late>>
      BY <1>0, <1>3 DEF Flush, Carrying
    <2>3. r.at # "answering"
      BY DEF NoJob
    <2> HIDE DEF r
    <2> QED
      BY <1>a, <2>1, <2>2, <2>3, StepKeeps
  <1>4. CASE CallPage(j)
    <2> DEFINE lost == [at |-> "lost", item |-> job[j].item]
               answering == [at |-> "answering", item |-> job[j].item]
    <2>1. /\ {lost, answering} \subseteq [at : Places, item : Items \cup {NoItem}]
          /\ lost.item = job[j].item /\ lost.at \in Carrying /\ lost.at # "answering"
          /\ answering.item = job[j].item /\ answering.at \in Carrying /\ answering.at = "answering"
      BY <1>0 DEF Places, Carrying
    <2>2. /\ job[j].item # NoItem /\ job[j].at # "answering"
          /\ UNCHANGED <<bound, page, pending, offered, late>>
      BY <1>0, <1>4 DEF CallPage, Carrying
    <2>3. \/ job' = [job EXCEPT ![j] = lost] /\ shown' = shown
          \/ job' = [job EXCEPT ![j] = answering] /\ shown' = shown \cup {job[j].item}
      BY <1>0, <1>4 DEF CallPage
    <2> HIDE DEF lost, answering
    <2>4. CASE job' = [job EXCEPT ![j] = lost] /\ shown' = shown
      BY <1>a, <1>b, <2>1, <2>2, <2>4, StepKeeps
    <2>5. CASE job' = [job EXCEPT ![j] = answering] /\ shown' = shown \cup {job[j].item}
      BY <1>a, <1>b, <2>1, <2>2, <2>5, StepKeeps
    <2> QED
      BY <2>3, <2>4, <2>5
  <1>5. CASE PageAnswers(j)
    <2> DEFINE taking == [at |-> "taking", item |-> NoItem]
    <2>1. /\ taking \in [at : Places, item : Items \cup {NoItem}]
          /\ taking.item = NoItem /\ taking.at \notin Carrying /\ taking.at # "answering"
      BY DEF Places, Carrying
    <2>2. /\ job[j].item \in shown /\ job' = [job EXCEPT ![j] = taking]
          /\ UNCHANGED <<bound, page, pending, offered, shown, late>>
      BY <1>b, <1>5 DEF PageAnswers
    <2> HIDE DEF taking
    <2> QED
      BY <1>a, <2>1, <2>2, StepKeeps
  <1>6. CASE TimeOut(j)
    <2> DEFINE failed == [at |-> "failed", item |-> job[j].item]
    <2>1. /\ failed \in [at : Places, item : Items \cup {NoItem}]
          /\ failed.item = job[j].item /\ failed.at \in Carrying /\ failed.at # "answering"
      BY <1>0 DEF Places, Carrying
    <2>2. /\ job[j].item # NoItem /\ job' = [job EXCEPT ![j] = failed]
          /\ UNCHANGED <<bound, page, pending, offered, shown>>
          /\ late' = IF job[j].at = "answering" THEN late \cup {job[j].item} ELSE late
      <3>1. job[j].at \in Carrying BY <1>6 DEF TimeOut, Carrying
      <3>2. job' = [job EXCEPT ![j] = failed]
        <4>1. job' = [job EXCEPT ![j] = [job[j] EXCEPT !.at = "failed"]] BY <1>6 DEF TimeOut
        <4>2. [job[j] EXCEPT !.at = "failed"] = failed BY <1>0
        <4> QED BY <4>1, <4>2
      <3> HIDE DEF failed
      <3> QED BY <1>0, <1>6, <3>1, <3>2 DEF TimeOut
    <2> HIDE DEF failed
    <2>3. late \subseteq late' /\ late' \subseteq shown' /\ job[j].item \notin shown' \ late'
      BY <1>a, <1>b, <2>2
    <2> QED
      BY <2>1, <2>2, <2>3, StepKeeps
  <1> QED
    BY <1>1, <1>2, <1>3, <1>4, <1>5, <1>6, TakeKeeps DEF JobStep

LEMMA NextDeliveryInv == DeliveryInv /\ [DeliveryNext]_deliveryVars => DeliveryInv'
  <1> SUFFICES ASSUME DeliveryInv, [DeliveryNext]_deliveryVars PROVE DeliveryInv'
    OBVIOUS
  <1>1. ASSUME NEW j \in Jobs, Bind(j) \/ ChatUiReady(j) PROVE DeliveryInv'
    <2>1. /\ Launch(j, "flushing", NoItem) /\ UNCHANGED <<pending, offered, shown, late>>
          /\ bound' \in BOOLEAN /\ page' \in {"loading", "listening", "ready"}
      BY <1>1 DEF Bind, ChatUiReady, DeliveryInv, DeliveryTypeOK
    <2>2. NoItem \notin offered
      BY DeliveryAssumption DEF DeliveryInv, DeliveryTypeOK
    <2> QED
      BY <2>1, <2>2, LaunchKeeps
  <1>2. ASSUME NEW j \in Jobs, NEW item \in Items, Offer(j, item) PROVE DeliveryInv'
    BY <1>2, DeliveryAssumption, LaunchKeeps DEF Offer, DeliveryInv, DeliveryTypeOK
  <1>3. CASE PageListens
    <2>1. page' = "listening" /\ UNCHANGED <<bound, pending, job, offered, shown, late>>
      BY <1>3 DEF PageListens
    <2>2. DeliveryTypeOK' BY <2>1 DEF DeliveryInv, DeliveryTypeOK
    <2>3. InLine' = InLine /\ InHands' = InHands BY <2>1 DEF InLine, InHands
    <2>4. OneEach' /\ NoTwice(pending)' BY <2>1 DEF DeliveryInv, OneEach
    <2>5. Once' BY <2>1, <2>3 DEF DeliveryInv, Once
    <2> QED BY <2>1, <2>2, <2>3, <2>4, <2>5 DEF DeliveryInv
  <1>4. CASE UNCHANGED deliveryVars
    BY <1>4 DEF deliveryVars, DeliveryInv, DeliveryTypeOK, InLine, InHands, OneEach, Once
  <1> QED
    BY <1>1, <1>2, <1>3, <1>4, JobStepKeeps DEF DeliveryNext

(* Whatever offers, retries, lost calls, late answers and their timeouts   *)
(* do to one another: an item is in the queue or in one coroutine's hands  *)
(* until the page has it, and elsewhere then only while the page's answer  *)
(* is awaited or if it was late (ChatContextDeliveryService.kt:27-57).     *)
THEOREM ConservedHolds == DeliverySpec => []Conserved
  <1>1. DeliveryInv => Conserved
    BY DEF DeliveryInv, Conserved, NoTwice, OneEach, Once
  <1> QED
    BY <1>1, InitDeliveryInv, NextDeliveryInv, PTL DEF DeliverySpec

-----------------------------------------------------------------------------
(* The generation of commit messages (CommitMessage). *)

(* A generation that nobody has crossed holds the slot; its watchdog waits  *)
(* no longer than the agent has been silent, but for reports on their way,  *)
(* and not as long as the timeout unless the agent has been.                *)
Listened ==
  \A g \in Gens : task[g] = "calling" /\ ~crossed[g] =>
    /\ slot = g
    /\ air = 0 => quiet[g] <= silence[g]
    /\ quiet[g] >= Idle => silence[g] >= Idle

CommitInv == CommitTypeOK /\ Listened

LEMMA InitCommitInv == CommitInit => CommitInv
  <1> SUFFICES ASSUME CommitInit PROVE CommitInv
    OBVIOUS
  <1> USE CommitAssumption
  <1>1. case.events \in Nat BY DEF CommitInit
  <1>2. 0 \in 0 .. case.events /\ 0 \in 0 .. Idle /\ 0 \in 0 .. MaxAir BY <1>1
  <1>3. events \in [Gens -> 0 .. case.events] BY <1>2 DEF CommitInit
  <1>4. quiet \in [Gens -> 0 .. Idle] /\ silence \in [Gens -> 0 .. Idle] /\ air \in 0 .. MaxAir
    BY <1>2 DEF CommitInit
  <1>5. CommitTypeOK BY <1>3, <1>4 DEF CommitInit, CommitTypeOK
  <1>6. Listened BY DEF CommitInit, Listened
  <1> QED BY <1>5, <1>6 DEF CommitInv

\* Nothing Listened looks at, but for tasks that begin or end.
LEMMA ListenedKeeps ==
  ASSUME CommitInv, UNCHANGED <<slot, air, quiet, silence, crossed>>,
         \A g \in Gens : task'[g] = "calling" => task[g] = "calling"
  PROVE  Listened'
  BY DEF CommitInv, Listened

LEMMA ClickKeeps ==
  ASSUME CommitInv, NEW g \in Gens,
         Click(g) \/ Collect(g) \/ GiveUp(g) \/ UserCancels(g) \/ Finish(g)
  PROVE  CommitInv'
  <1>1. UNCHANGED <<case, slot, prev, quiet, crossed, air, agentVars, cancelling>>
    BY DEF Click, Collect, GiveUp, UserCancels, Finish
  <1>2. /\ generating' \in BOOLEAN
        /\ task' \in [Gens -> {"none", "queued", "collected", "calling", "ended", "gone"}]
        /\ canceled' \in [Gens -> BOOLEAN]
    BY DEF Click, Collect, GiveUp, UserCancels, Finish, Return, CommitInv, CommitTypeOK
  <1>3. \A h \in Gens : task'[h] = "calling" => task[h] = "calling"
    BY DEF Click, Collect, GiveUp, UserCancels, Finish, Return, CommitInv, CommitTypeOK
  <1>4. CommitTypeOK' BY <1>1, <1>2 DEF CommitInv, CommitTypeOK, agentVars
  <1>5. Listened' BY <1>1, <1>3, ListenedKeeps DEF agentVars
  <1> QED BY <1>4, <1>5 DEF CommitInv

\* It takes the slot, and whoever held it is crossed.
LEMMA CallKeeps ==
  ASSUME CommitInv, NEW g \in Gens, Call(g)
  PROVE  CommitInv'
  <1> USE CommitAssumption
  <1>1. CommitTypeOK' BY DEF Call, CommitInv, CommitTypeOK
  <1>2. Listened'
    <2> SUFFICES ASSUME NEW h \in Gens, task'[h] = "calling", ~crossed'[h]
                 PROVE  /\ slot' = h /\ (air' = 0 => quiet'[h] <= silence'[h])
                        /\ quiet'[h] >= Idle => silence'[h] >= Idle
      BY DEF Listened
    <2>1. CASE h = g BY <2>1 DEF Call, CommitInv, CommitTypeOK
    <2>2. CASE h # g
      <3>1. task[h] = "calling" BY <2>2 DEF Call, CommitInv, CommitTypeOK
      <3>2. ~crossed[h] /\ slot # h BY <3>1 DEF Call
      <3> QED BY <3>1, <3>2 DEF CommitInv, Listened
    <2> QED BY <2>1, <2>2
  <1> QED BY <1>1, <1>2 DEF CommitInv

\* It gives the slot back only if it still has it.
LEMMA LeaveKeeps ==
  ASSUME CommitInv, NEW g \in Gens, Answered(g) \/ Watchdog(g) \/ PollCancel(g)
  PROVE  CommitInv'
  <1> USE CommitAssumption
  <1>1. PICK cancel \in SUBSET Gens : Leave(g, cancel)
    BY DEF Answered, Watchdog, PollCancel
  <1>2. UNCHANGED <<case, canceled, crossed, air, agentVars>>
    BY DEF Answered, Watchdog, PollCancel
  <1>3. task[g] = "calling"
    BY DEF Answered, Watchdog, PollCancel
  <1>4. CommitTypeOK'
    <2>1. generating' = FALSE /\ task' = [task EXCEPT ![g] = "ended"]
      BY <1>1 DEF Leave, Return
    <2>2. /\ slot' \in Gens \cup {NoGen} /\ prev' \in [Gens -> Gens \cup {NoGen}]
          /\ quiet' \in [Gens -> 0 .. Idle] /\ cancelling' \subseteq Gens
      BY <1>1 DEF Leave, CommitInv, CommitTypeOK
    <2> QED BY <1>2, <2>1, <2>2 DEF CommitInv, CommitTypeOK, agentVars
  <1>5. Listened'
    <2> SUFFICES ASSUME NEW h \in Gens, task'[h] = "calling", ~crossed'[h]
                 PROVE  /\ slot' = h /\ (air' = 0 => quiet'[h] <= silence'[h])
                        /\ quiet'[h] >= Idle => silence'[h] >= Idle
      BY DEF Listened
    <2>1. h # g /\ task[h] = "calling" /\ quiet'[h] = quiet[h]
      BY <1>1 DEF Leave, Return, CommitInv, CommitTypeOK
    <2>2. slot = h /\ slot' = slot
      BY <1>1, <1>2, <2>1 DEF Leave, CommitInv, Listened
    <2> QED BY <1>2, <2>1, <2>2 DEF CommitInv, Listened, agentVars
  <1> QED BY <1>4, <1>5 DEF CommitInv

LEMMA DeliverKeeps ==
  ASSUME CommitInv, Deliver
  PROVE  CommitInv'
  <1> USE CommitAssumption
  <1>1. CommitTypeOK' BY DEF Deliver, CommitInv, CommitTypeOK, agentVars
  <1>2. Listened' BY DEF Deliver, CommitInv, CommitTypeOK, Listened, agentVars
  <1> QED BY <1>1, <1>2 DEF CommitInv

\* A report is on its way, so its watchdog may be behind.
LEMMA ReportKeeps ==
  ASSUME CommitInv, NEW g \in Gens, NEW n \in {1, 2}, Report(g, n), UNCHANGED hostVars
  PROVE  /\ air' \in 0 .. MaxAir /\ silence' \in [Gens -> 0 .. Idle]
         /\ Listened'
  <1> USE CommitAssumption
  <1>1. air \in 0 .. MaxAir /\ silence \in [Gens -> 0 .. Idle]
    BY DEF CommitInv, CommitTypeOK
  <1>2. air' \in 1 .. MaxAir /\ silence' \in [Gens -> 0 .. Idle]
    BY <1>1 DEF Report
  <1>3. \A h \in Gens : silence[h] >= Idle => silence'[h] >= Idle
    BY <1>1 DEF Report
  <1> QED BY <1>2, <1>3 DEF CommitInv, Listened, hostVars

LEMMA AgentSideKeeps ==
  ASSUME CommitInv, NEW g \in Gens,
         \/ Resolving(g) \/ ResolveFails(g) \/ CallModel(g) \/ Heartbeat(g)
         \/ StreamEvent(g) \/ StreamEnds(g) \/ Abort(g)
  PROVE  CommitInv'
  <1> USE CommitAssumption
  <1>0. UNCHANGED <<case, hostVars>>
    BY DEF Resolving, ResolveFails, CallModel, Heartbeat, StreamEvent, StreamEnds, Abort, Ends
  <1>1. \/ UNCHANGED <<air, silence>>
        \/ \E n \in {1, 2} : Report(g, n)
    BY DEF Resolving, ResolveFails, CallModel, Heartbeat, StreamEvent, StreamEnds, Abort, Ends
  <1>2. /\ air' \in 0 .. MaxAir /\ silence' \in [Gens -> 0 .. Idle]
        /\ Listened'
    <2>1. CASE UNCHANGED <<air, silence>>
      BY <1>0, <2>1, ListenedKeeps DEF hostVars, CommitInv, CommitTypeOK
    <2>2. CASE \E n \in {1, 2} : Report(g, n)
      BY <1>0, <2>2, ReportKeeps
    <2> QED BY <1>1, <2>1, <2>2
  <1>3. /\ agent' \in [Gens -> {"none", "asked", "resolving", "waiting", "streaming", "done", "stopped"}]
        /\ aborted' \in [Gens -> BOOLEAN]
        /\ cancelling' \subseteq Gens
    BY DEF Resolving, ResolveFails, CallModel, Heartbeat, StreamEvent, StreamEnds, Abort, Ends,
           CommitInv, CommitTypeOK
  <1>4. /\ beat' \in [Gens -> BOOLEAN] /\ fresh' \in [Gens -> BOOLEAN]
        /\ events' \in [Gens -> 0 .. case.events]
    <2>1. case.events \in Nat /\ events \in [Gens -> 0 .. case.events]
          /\ beat \in [Gens -> BOOLEAN] /\ fresh \in [Gens -> BOOLEAN]
      BY DEF CommitInv, CommitTypeOK
    <2>2. \/ UNCHANGED events
          \/ events' = [events EXCEPT ![g] = 0]
          \/ events[g] < case.events /\ events' = [events EXCEPT ![g] = @ + 1]
      BY DEF Resolving, ResolveFails, CallModel, Heartbeat, StreamEvent, StreamEnds, Abort, Ends
    <2>3. events' \in [Gens -> 0 .. case.events]
      BY <2>1, <2>2
    <2>4. \/ UNCHANGED beat \/ beat' = [beat EXCEPT ![g] = FALSE]
      BY DEF Resolving, ResolveFails, CallModel, Heartbeat, StreamEvent, StreamEnds, Abort, Ends
    <2>5. \/ UNCHANGED fresh \/ fresh' = [fresh EXCEPT ![g] = FALSE] \/ fresh' = [fresh EXCEPT ![g] = TRUE]
      BY DEF Resolving, ResolveFails, CallModel, Heartbeat, StreamEvent, StreamEnds, Abort, Ends
    <2> QED BY <2>1, <2>3, <2>4, <2>5
  <1>5. CommitTypeOK'
    BY <1>0, <1>2, <1>3, <1>4 DEF hostVars, CommitInv, CommitTypeOK
  <1> QED BY <1>2, <1>5 DEF CommitInv

LEMMA TickKeeps ==
  ASSUME CommitInv, Tick
  PROVE  CommitInv'
  <1> USE CommitAssumption
  <1>1. /\ quiet \in [Gens -> 0 .. Idle] /\ silence \in [Gens -> 0 .. Idle]
        /\ air = 0
        /\ quiet' = [g \in Gens |-> IF task[g] = "calling" THEN quiet[g] + 1 ELSE 0]
        /\ silence' = [g \in Gens |-> IF task[g] = "calling" THEN Least(Idle, silence[g] + 1) ELSE 0]
        /\ \A g \in Gens : task[g] = "calling" => quiet[g] < Idle
    BY DEF Tick, CommitInv, CommitTypeOK
  <1>2. quiet' \in [Gens -> 0 .. Idle] /\ silence' \in [Gens -> 0 .. Idle]
    BY <1>1 DEF Least
  <1>3. CommitTypeOK'
    BY <1>2 DEF Tick, CommitInv, CommitTypeOK
  <1>4. Listened'
    <2> SUFFICES ASSUME NEW h \in Gens, task'[h] = "calling", ~crossed'[h]
                 PROVE  /\ slot' = h /\ quiet'[h] <= silence'[h]
                        /\ quiet'[h] >= Idle => silence'[h] >= Idle
      BY DEF Listened
    <2>1. task[h] = "calling" /\ ~crossed[h] /\ slot' = slot
      BY DEF Tick
    <2>2. slot = h /\ quiet[h] <= silence[h]
      BY <1>1, <2>1 DEF CommitInv, Listened
    <2>3. quiet'[h] = quiet[h] + 1 /\ silence'[h] = Least(Idle, silence[h] + 1)
      BY <1>1, <2>1
    <2>4. quiet[h] \in 0 .. Idle /\ silence[h] \in 0 .. Idle /\ quiet[h] < Idle
      BY <1>1, <2>1
    <2> QED BY <2>1, <2>2, <2>3, <2>4 DEF Least
  <1> QED BY <1>3, <1>4 DEF CommitInv

LEMMA NextCommitInv ==
  CommitInv /\ [CommitNext]_commitVars => CommitInv'
  <1> SUFFICES ASSUME CommitInv, [CommitNext]_commitVars PROVE CommitInv'
    OBVIOUS
  <1>1. CASE UNCHANGED commitVars
    BY <1>1 DEF commitVars, hostVars, agentVars, CommitInv, CommitTypeOK, Listened
  <1>2. CASE HostNext BY <1>2, ClickKeeps, CallKeeps, LeaveKeeps DEF HostNext
  <1>3. CASE AgentNext BY <1>3, AgentSideKeeps DEF AgentNext
  <1>4. CASE Deliver BY <1>4, DeliverKeeps
  <1>5. CASE Tick BY <1>5, TickKeeps
  <1> QED BY <1>1, <1>2, <1>3, <1>4, <1>5 DEF CommitNext

(* Who holds the one listener of Agent2HostBridge, and how far its watchdog *)
(* can be from what the agent has reported (VibeflyAgentService.kt:94-151). *)
THEOREM CommitInvariant == CommitSpec => []CommitInv
  <1> QED BY InitCommitInv, NextCommitInv, PTL DEF CommitSpec

(* The variables of both sides keep their types for any number of           *)
(* generations (GenerateCommitMessageAction.kt, commitMessage.ts).          *)
THEOREM CommitTypes == CommitSpec => []CommitTypeOK
  <1>1. CommitInv => CommitTypeOK BY DEF CommitInv
  <1> QED BY <1>1, CommitInvariant, PTL

(* The watchdog of withIdleTimeout ends a generation only if the agent has  *)
(* reported nothing for the whole idle time, or a later generation has      *)
(* taken the listener's place (VibeflyAgentService.kt:129-151).             *)
THEOREM TimedOutIfSilentHolds == CommitSpec => TimedOutIfSilent
  <1>1. ASSUME CommitInv, NEW g \in Gens, Watchdog(g)
        PROVE  silence[g] >= Idle \/ crossed[g]
    BY <1>1 DEF CommitInv, Listened, Watchdog
  <1>2. CommitInv => [\A g \in Gens : Watchdog(g) => silence[g] >= Idle \/ crossed[g]]_commitVars
    BY <1>1
  <1> QED BY <1>2, CommitInvariant, PTL DEF TimedOutIfSilent
=============================================================================
