--------------------------- MODULE KotlinRpcProofs ---------------------------
(***************************************************************************)
(* For any number of calls: no caller whose request went out is forgotten, *)
(* no entry outlives its call in the map of pending calls, and no call is  *)
(* cancelled twice.                                                        *)
(*                                                                         *)
(* SentIsAnswerable is not inductive: a request is sent by a caller that   *)
(* looked at `closed` before, and was in the map before that.  RInv says   *)
(* it of every caller that close() is bound to meet, and that nobody has   *)
(* touched a call that is not stored yet.                                  *)
(***************************************************************************)
EXTENDS KotlinRpc, FiniteSetTheorems, TLAPS

Fresh == {"idle", "opened"}

Stored == {"stored", "armed", "hooked"}

(* close() has not begun since c was stored, or is bound to meet it.       *)
MetByClose(c) ==
    \/ pc[c] \in Stored /\ ~closed
    \/ pc[c] = "sending"
    \/ Requested(c)

Untouched(c) ==
    /\ c \notin pending /\ c \notin unvisited
    /\ held[c] = "none" /\ winner[c] = "none"
    /\ ~Requested(c)

CallInv(c) ==
    /\ pc[c] \in Fresh => Untouched(c)
    /\ held[c] # "none" => c \notin pending
    /\ winner[c] # "none" => cont[c] # "waiting"
    /\ MetByClose(c) /\ cont[c] = "waiting" => Answerable(c)
    /\ c \in pending /\ winner[c] # "none" => closing \in {"failing", "clearing"}

RInv ==
    /\ TypeOK
    /\ closed <=> closing # "open"
    /\ \A c \in Calls : CallInv(c)

-----------------------------------------------------------------------------
(* Requested depends on what was sent, and a cancel is no request.         *)
LEMMA AppendRequested ==
    ASSUME NEW s \in Seq({"request", "cancel"}), NEW x \in {"request", "cancel"}
    PROVE  /\ Append(s, x) \in Seq({"request", "cancel"})
           /\ (\E i \in DOMAIN Append(s, x) : Append(s, x)[i] = "request")
                 <=> (x = "request" \/ \E i \in DOMAIN s : s[i] = "request")
  <1> DEFINE t == Append(s, x)
  <1>1. /\ t \in Seq({"request", "cancel"}) /\ Len(s) \in Nat
        /\ DOMAIN s = 1..Len(s) /\ DOMAIN t = 1..(Len(s) + 1)
        /\ t[Len(s) + 1] = x /\ \A i \in 1..Len(s) : t[i] = s[i]
    OBVIOUS
  <1> HIDE DEF t
  <1>2. ASSUME x = "request" PROVE \E i \in DOMAIN t : t[i] = "request"
    BY <1>1, <1>2
  <1>3. ASSUME NEW i \in DOMAIN s, s[i] = "request"
        PROVE  \E j \in DOMAIN t : t[j] = "request"
    BY <1>1, <1>3
  <1>4. ASSUME NEW i \in DOMAIN t, t[i] = "request", x # "request"
        PROVE  \E j \in DOMAIN s : s[j] = "request"
    <2>1. i \in 1..Len(s)
      BY <1>1, <1>4
    <2>2. QED
      BY <1>1, <1>4, <2>1
  <1>5. QED
    BY <1>1, <1>2, <1>3, <1>4 DEF t

LEMMA InitRInv == Init => RInv
  <1> SUFFICES ASSUME Init PROVE RInv
    OBVIOUS
  <1>1. wire \in [Calls -> Seq({"request", "cancel"})]
    BY DEF Init
  <1>2. /\ pc \in [Calls -> CallerSteps]
        /\ cont \in [Calls -> {"none", "waiting", "resumed", "cancelled"}]
        /\ held \in [Calls -> Holders \cup {"none"}]
        /\ winner \in [Calls -> Holders \cup {"none", "close"}]
        /\ timeoutJob \in [Calls -> {"none", "delay", "notifying", "over"}]
    BY DEF Init, CallerSteps, Holders
  <1>3. closed \in BOOLEAN
    BY DEF Init
  <1>4. /\ closing \in Closing /\ unvisited \subseteq Calls /\ pending \subseteq Calls
        /\ answered \subseteq Calls /\ receiving \in Calls \cup {Nil}
    BY DEF Init, Closing
  <1>5. closed <=> closing # "open"
    BY DEF Init
  <1>6. ASSUME NEW c \in Calls PROVE CallInv(c)
    <2>1. ~Requested(c)
      BY DEF Init, Requested
    <2>2. QED
      BY <2>1 DEF Init, CallInv, Untouched, MetByClose, Stored
  <1>7. QED
    BY <1>1, <1>2, <1>3, <1>4, <1>5, <1>6 DEF RInv, TypeOK

(* A step that keeps the types, the close flag and everything CallInv      *)
(* reads of the other calls need only look at its own call.                *)
LEMMA OneCall ==
    ASSUME RInv, NEW c \in Calls, TypeOK', CallInv(c)',
           UNCHANGED <<closed, closing>>,
           \A d \in Calls : d # c =>
              /\ d \in pending' <=> d \in pending
              /\ d \in unvisited' <=> d \in unvisited
              /\ pc'[d] = pc[d] /\ cont'[d] = cont[d] /\ held'[d] = held[d]
              /\ winner'[d] = winner[d] /\ wire'[d] = wire[d]
    PROVE  RInv'
  <1>1. ASSUME NEW d \in Calls, d # c PROVE CallInv(d)'
    BY <1>1 DEF RInv, CallInv, Fresh, Untouched, MetByClose, Stored, Requested, Answerable
  <1>2. QED
    BY <1>1 DEF RInv

-----------------------------------------------------------------------------
(* The caller.                                                             *)
LEMMA CallerKeeps ==
    ASSUME RInv, NEW c \in Calls, CallerStep(c)
    PROVE  RInv'
  <1> USE DEF RInv
  <1>1. CASE Invoke(c)
    <2>1. TypeOK'
      BY <1>1 DEF Invoke, TypeOK, CallerSteps
    <2>2. CallInv(c)'
      BY <1>1 DEF Invoke, TypeOK, CallInv, Fresh, Untouched, MetByClose, Stored, Requested
    <2>3. \A d \in Calls : d # c => pc'[d] = pc[d] /\ cont'[d] = cont[d]
      BY <1>1 DEF Invoke, TypeOK
    <2>4. UNCHANGED <<closed, closing, pending, unvisited, held, winner, wire>>
      BY <1>1 DEF Invoke
    <2>5. QED
      BY <2>1, <2>2, <2>3, <2>4, OneCall
  <1>2. CASE Store(c)
    <2>1. TypeOK'
      BY <1>2 DEF Store, TypeOK, CallerSteps
    <2>2. CallInv(c)'
      BY <1>2 DEF Store, TypeOK, CallInv, Fresh, Untouched, MetByClose, Stored, Requested,
         Answerable
    <2>3. QED
      BY <1>2, <2>1, <2>2, OneCall DEF Store, TypeOK
  <1>3. CASE Arm(c)
    <2>1. TypeOK'
      BY <1>3 DEF Arm, TypeOK, CallerSteps
    <2>2. CallInv(c)'
      BY <1>3 DEF Arm, TypeOK, CallInv, Fresh, Untouched, MetByClose, Stored, Requested,
         Answerable
    <2>3. QED
      BY <1>3, <2>1, <2>2, OneCall DEF Arm, TypeOK
  <1>4. CASE Hook(c)
    <2>1. TypeOK'
      BY <1>4 DEF Hook, TypeOK, CallerSteps
    <2>2. CallInv(c)'
      BY <1>4 DEF Hook, TypeOK, CallInv, Fresh, Untouched, MetByClose, Stored, Requested,
         Answerable
    <2>3. QED
      BY <1>4, <2>1, <2>2, OneCall DEF Hook, TypeOK
  <1>5. CASE CheckOpen(c)
    <2>1. TypeOK'
      BY <1>5 DEF CheckOpen, TypeOK, CallerSteps
    <2>2. CallInv(c)'
      BY <1>5 DEF CheckOpen, TypeOK, CallInv, Fresh, Untouched, MetByClose, Stored, Requested,
         Answerable
    <2>3. QED
      BY <1>5, <2>1, <2>2, OneCall DEF CheckOpen, TypeOK
  <1>6. CASE SendRequest(c)
    <2>1. wire[c] \in Seq({"request", "cancel"}) /\ pc[c] = "sending"
      BY <1>6 DEF SendRequest, TypeOK
    <2>2. /\ wire' \in [Calls -> Seq({"request", "cancel"})]
          /\ Requested(c) => Requested(c)'
      <3>1. CASE UNCHANGED wire
        BY <3>1 DEF TypeOK, Requested
      <3>2. CASE wire' = [wire EXCEPT ![c] = Append(wire[c], "request")]
        <4>1. wire'[c] = Append(wire[c], "request")
          BY <3>2 DEF TypeOK
        <4>2. /\ Append(wire[c], "request") \in Seq({"request", "cancel"})
              /\ \E i \in DOMAIN wire'[c] : wire'[c][i] = "request"
          BY <2>1, <4>1, AppendRequested
        <4>3. QED
          BY <3>2, <4>2 DEF TypeOK, Requested
      <3>3. QED
        BY <1>6, <3>1, <3>2 DEF SendRequest
    <2>3. TypeOK'
      BY <1>6, <2>2 DEF SendRequest, TypeOK, CallerSteps
    <2>4. CallInv(c)'
      BY <1>6, <2>1, <2>2 DEF SendRequest, TypeOK, CallInv, Fresh, MetByClose, Answerable
    <2>5. \A d \in Calls : d # c => pc'[d] = pc[d] /\ wire'[d] = wire[d]
      BY <1>6 DEF SendRequest, TypeOK
    <2>6. UNCHANGED <<closed, closing, pending, unvisited, cont, held, winner>>
      BY <1>6 DEF SendRequest
    <2>7. QED
      BY <2>3, <2>4, <2>5, <2>6, OneCall
  <1>7. CASE SendFailed(c)
    <2>1. TypeOK'
      BY <1>7 DEF SendFailed, TakeOut, TypeOK, CallerSteps, Holders
    <2>2. CallInv(c)'
      BY <1>7 DEF SendFailed, TakeOut, TypeOK, CallInv, Fresh, Untouched, MetByClose, Stored,
         Requested, Answerable
    <2>3. QED
      BY <1>7, <2>1, <2>2, OneCall DEF SendFailed, TakeOut, TypeOK
  <1>8. QED
    BY <1>1, <1>2, <1>3, <1>4, <1>5, <1>6, <1>7 DEF CallerStep

-----------------------------------------------------------------------------
(* The threads that race for a call.                                       *)

(* sendCancel sends no request.                                            *)
LEMMA SendCancelKeeps ==
    ASSUME TypeOK, NEW c \in Calls, SendCancel(c) \/ UNCHANGED wire
    PROVE  /\ wire' \in [Calls -> Seq({"request", "cancel"})]
           /\ Requested(c)' <=> Requested(c)
           /\ \A d \in Calls : d # c => wire'[d] = wire[d]
  <1>1. CASE UNCHANGED wire
    BY <1>1 DEF TypeOK, Requested
  <1>2. CASE wire' = [wire EXCEPT ![c] = Append(wire[c], "cancel")]
    <2>1. wire[c] \in Seq({"request", "cancel"}) /\ wire'[c] = Append(wire[c], "cancel")
      BY <1>2 DEF TypeOK
    <2>2. /\ Append(wire[c], "cancel") \in Seq({"request", "cancel"})
          /\ (\E i \in DOMAIN wire'[c] : wire'[c][i] = "request")
                <=> \E i \in DOMAIN wire[c] : wire[c][i] = "request"
      BY <2>1, AppendRequested
    <2>3. QED
      BY <1>2, <2>2 DEF TypeOK, Requested
  <1>3. QED
    BY <1>1, <1>2 DEF SendCancel

LEMMA CompleteKeeps ==
    ASSUME TypeOK, NEW c \in Calls, NEW by \in Holders \cup {"close"}, Complete(c, by)
    PROVE  /\ winner' \in [Calls -> Holders \cup {"none", "close"}]
           /\ timeoutJob' \in [Calls -> {"none", "delay", "notifying", "over"}]
           /\ cont' \in [Calls -> {"none", "waiting", "resumed", "cancelled"}]
           /\ winner[c] = "none" => cont'[c] # "waiting"
           /\ winner[c] # "none" => cont'[c] = cont[c]
           /\ \A d \in Calls : d # c => winner'[d] = winner[d] /\ cont'[d] = cont[d]
  BY ZenonT(60) DEF Complete, TypeOK

LEMMA SettleKeeps ==
    ASSUME RInv, NEW c \in Calls, Settle(c)
    PROVE  RInv'
  <1>0. TypeOK /\ CallInv(c) /\ held[c] \in Holders /\ pc[c] \notin Fresh /\ c \notin pending
    BY DEF RInv, Settle, TypeOK, CallInv, Untouched
  <1>1. /\ winner' \in [Calls -> Holders \cup {"none", "close"}]
        /\ timeoutJob' \in [Calls -> {"none", "delay", "notifying", "over"}]
        /\ cont' \in [Calls -> {"none", "waiting", "resumed", "cancelled"}]
        /\ winner[c] = "none" => cont'[c] # "waiting"
        /\ winner[c] # "none" => cont'[c] = cont[c]
        /\ \A d \in Calls : d # c => winner'[d] = winner[d] /\ cont'[d] = cont[d]
    BY <1>0, CompleteKeeps DEF Settle
  <1>2. /\ wire' \in [Calls -> Seq({"request", "cancel"})]
        /\ \A d \in Calls : d # c => wire'[d] = wire[d]
    BY <1>0, SendCancelKeeps DEF Settle
  <1>3. /\ held' = [held EXCEPT ![c] = "none"] /\ receiving' \in {Nil, receiving}
        /\ UNCHANGED <<closed, closing, unvisited, pending, pc, answered>>
    BY DEF Settle
  <1>4. TypeOK'
    BY <1>0, <1>1, <1>2, <1>3 DEF TypeOK
  <1>5. cont'[c] # "waiting"
    BY <1>0, <1>1 DEF CallInv
  <1>6. CallInv(c)'
    BY <1>0, <1>3, <1>5 DEF CallInv, TypeOK
  <1>7. QED
    BY <1>0, <1>1, <1>2, <1>3, <1>4, <1>6, OneCall DEF TypeOK

(* Taking a call out of the map leaves it in somebody's hands.             *)
LEMMA TakeOutKeeps ==
    ASSUME RInv, NEW c \in Calls, NEW by \in Holders, TakeOut(c, by),
           UNCHANGED <<closed, closing, unvisited, pc, cont, winner>>,
           wire' \in [Calls -> Seq({"request", "cancel"})],
           Requested(c)' <=> Requested(c),
           \A d \in Calls : d # c => wire'[d] = wire[d],
           timeoutJob' \in [Calls -> {"none", "delay", "notifying", "over"}],
           answered' \subseteq Calls, receiving' \in Calls \cup {Nil}
    PROVE  RInv'
  <1>1. TypeOK'
    BY DEF RInv, TypeOK, TakeOut
  <1>2. CallInv(c)'
    BY DEF RInv, TypeOK, TakeOut, CallInv, Fresh, Untouched, MetByClose, Stored, Answerable,
       Holders
  <1>3. QED
    BY <1>1, <1>2, OneCall DEF RInv, TypeOK, TakeOut

LEMMA RaceKeeps ==
    ASSUME RInv, NEW c \in Calls,
           TimedOut(c) \/ OnCancellation(c) \/ TakeAnswered(c)
    PROVE  RInv'
  <1>0. TypeOK /\ UNCHANGED wire
    BY DEF RInv, TimedOut, OnCancellation, TakeAnswered
  <1>1. /\ wire' \in [Calls -> Seq({"request", "cancel"})]
        /\ Requested(c)' <=> Requested(c)
        /\ \A d \in Calls : d # c => wire'[d] = wire[d]
    BY <1>0, SendCancelKeeps
  <1>2. CASE TimedOut(c)
    BY <1>0, <1>1, <1>2, TakeOutKeeps DEF TimedOut, Holders, TypeOK
  <1>3. CASE OnCancellation(c)
    BY <1>0, <1>1, <1>3, TakeOutKeeps DEF OnCancellation, Holders, TypeOK
  <1>4. CASE TakeAnswered(c)
    BY <1>0, <1>1, <1>4, TakeOutKeeps DEF TakeAnswered, Holders, TypeOK
  <1>5. QED
    BY <1>2, <1>3, <1>4

LEMMA TimeoutCancelsKeeps ==
    ASSUME RInv, NEW c \in Calls, TimeoutCancels(c)
    PROVE  RInv'
  <1>1. /\ wire' \in [Calls -> Seq({"request", "cancel"})]
        /\ Requested(c)' <=> Requested(c)
        /\ \A d \in Calls : d # c => wire'[d] = wire[d]
    BY SendCancelKeeps DEF RInv, TimeoutCancels
  <1>2. TypeOK'
    BY <1>1 DEF RInv, TypeOK, TimeoutCancels
  <1>3. CallInv(c)'
    BY <1>1 DEF RInv, TimeoutCancels, CallInv, Fresh, Untouched, MetByClose, Stored, Answerable
  <1>4. QED
    BY <1>1, <1>2, <1>3, OneCall DEF TimeoutCancels

LEMMA CancelKeeps ==
    ASSUME RInv, NEW c \in Calls, Cancel(c)
    PROVE  RInv'
  <1>1. TypeOK'
    BY DEF RInv, TypeOK, Cancel
  <1>2. CallInv(c)'
    BY DEF RInv, TypeOK, Cancel, CallInv, Fresh, Untouched, Requested
  <1>3. QED
    BY <1>1, <1>2, OneCall DEF RInv, TypeOK, Cancel

LEMMA ReceiveKeeps ==
    ASSUME RInv, NEW c \in Calls, Receive(c)
    PROVE  RInv'
  <1>1. TypeOK'
    BY DEF RInv, TypeOK, Receive
  <1>2. CallInv(c)'
    BY DEF RInv, Receive, CallInv, Fresh, Untouched, MetByClose, Stored, Requested, Answerable
  <1>3. QED
    BY <1>1, <1>2, OneCall DEF Receive

-----------------------------------------------------------------------------
(* close().                                                                *)
LEMMA CloseFailsKeeps ==
    ASSUME RInv, NEW c \in Calls, CloseFails(c)
    PROVE  RInv'
  <1>0. /\ TypeOK /\ CallInv(c) /\ c \in unvisited \cup pending
        /\ closing = "failing" /\ pc[c] \notin Fresh
    BY DEF RInv, CloseFails, CallInv, Untouched
  <1>1. /\ winner' \in [Calls -> Holders \cup {"none", "close"}]
        /\ timeoutJob' \in [Calls -> {"none", "delay", "notifying", "over"}]
        /\ cont' \in [Calls -> {"none", "waiting", "resumed", "cancelled"}]
        /\ winner[c] = "none" => cont'[c] # "waiting"
        /\ winner[c] # "none" => cont'[c] = cont[c]
        /\ \A d \in Calls : d # c => winner'[d] = winner[d] /\ cont'[d] = cont[d]
    BY <1>0, CompleteKeeps DEF CloseFails
  <1>2. /\ unvisited' = unvisited \ {c}
        /\ UNCHANGED <<closed, closing, pending, pc, held, wire, answered, receiving>>
    BY DEF CloseFails
  <1>3. TypeOK'
    BY <1>0, <1>1, <1>2 DEF TypeOK
  <1>4. CallInv(c)'
    BY <1>0, <1>1, <1>2 DEF CallInv
  <1>5. QED
    BY <1>0, <1>1, <1>2, <1>3, <1>4, OneCall DEF TypeOK

(* The steps of close() itself look at every call.                         *)
LEMMA CloseKeeps ==
    ASSUME RInv, Close \/ CloseStarts \/ CloseLoopEnds \/ CloseClears \/ CloseStops
    PROVE  RInv'
  <1>0. TypeOK /\ (closed <=> closing # "open") /\ \A c \in Calls : CallInv(c)
    BY DEF RInv
  <1>1. CASE Close
    <2>1. TypeOK' /\ (closed <=> closing # "open")'
      BY <1>0, <1>1 DEF Close, TypeOK, Closing
    <2>2. ASSUME NEW c \in Calls PROVE CallInv(c)'
      BY <1>0, <1>1 DEF Close, CallInv, Fresh, Untouched, MetByClose, Stored, Requested,
         Answerable
    <2>3. QED
      BY <2>1, <2>2 DEF RInv
  <1>2. CASE CloseStarts
    <2>1. TypeOK' /\ (closed <=> closing # "open")'
      BY <1>0, <1>2 DEF CloseStarts, TypeOK, Closing
    <2>2. ASSUME NEW c \in Calls PROVE CallInv(c)'
      BY <1>0, <1>2 DEF CloseStarts, CallInv, Fresh, Untouched, MetByClose, Stored, Requested,
         Answerable
    <2>3. QED
      BY <2>1, <2>2 DEF RInv
  <1>3. CASE CloseLoopEnds
    <2>1. TypeOK' /\ (closed <=> closing # "open")'
      BY <1>0, <1>3 DEF CloseLoopEnds, TypeOK, Closing
    <2>2. ASSUME NEW c \in Calls PROVE CallInv(c)'
      BY <1>0, <1>3 DEF CloseLoopEnds, CallInv, Fresh, Untouched, MetByClose, Stored, Requested,
         Answerable
    <2>3. QED
      BY <2>1, <2>2 DEF RInv
  <1>4. CASE CloseClears
    <2>1. TypeOK' /\ (closed <=> closing # "open")'
      BY <1>0, <1>4 DEF CloseClears, TypeOK, Closing
    <2>2. ASSUME NEW c \in Calls PROVE CallInv(c)'
      BY <1>0, <1>4 DEF CloseClears, CallInv, Fresh, Untouched, MetByClose, Stored, Requested,
         Answerable
    <2>3. QED
      BY <2>1, <2>2 DEF RInv
  <1>5. CASE CloseStops
    <2>1. TypeOK' /\ (closed <=> closing # "open")'
      BY <1>0, <1>5 DEF CloseStops, TypeOK, Closing
    <2>2. ASSUME NEW c \in Calls PROVE CallInv(c)'
      BY <1>0, <1>5 DEF CloseStops, CallInv, Fresh, Untouched, MetByClose, Stored, Requested,
         Answerable
    <2>3. QED
      BY <2>1, <2>2 DEF RInv
  <1>6. QED
    BY <1>1, <1>2, <1>3, <1>4, <1>5

-----------------------------------------------------------------------------
LEMMA NextKeepsRInv == ASSUME RInv, [Next]_vars PROVE RInv'
  <1>1. ASSUME NEW c \in Calls,
               CallerStep(c) \/ Settle(c) \/ TimeoutStep(c) \/ Cancel(c) \/ OnCancellation(c)
                 \/ Receive(c) \/ TakeAnswered(c) \/ CloseFails(c)
        PROVE  RInv'
    BY <1>1, CallerKeeps, SettleKeeps, RaceKeeps, TimeoutCancelsKeeps, CancelKeeps,
       ReceiveKeeps, CloseFailsKeeps DEF TimeoutStep
  <1>2. CASE CloseStep
    <2>1. unvisited \subseteq Calls
      BY DEF RInv, TypeOK
    <2>2. QED
      BY <1>2, <2>1, CloseKeeps, CloseFailsKeeps DEF CloseStep
  <1>3. CASE Close
    BY <1>3, CloseKeeps
  <1>4. CASE UNCHANGED vars
    BY <1>4 DEF vars, RInv, TypeOK, CallInv, Fresh, Untouched, MetByClose, Stored, Requested,
       Answerable
  <1>5. QED
    BY <1>1, <1>2, <1>3, <1>4 DEF Next

(* The invariant holds in every reachable state.                           *)
THEOREM RpcInvariance == Spec => []RInv
  <1>1. Init => RInv
    BY InitRInv
  <1>2. RInv /\ [Next]_vars => RInv'
    BY NextKeepsRInv
  <1>3. QED
    BY <1>1, <1>2, PTL DEF Spec

(* For any number of calls: every variable of the session keeps its type.  *)
THEOREM RpcTypeCorrect == Spec => []TypeOK
  <1>1. RInv => TypeOK
    BY DEF RInv
  <1>2. QED
    BY <1>1, RpcInvariance, PTL

(* For any number of calls, and any race of answers, timeouts,             *)
(* cancellations and close(): a caller whose request went out and that     *)
(* still waits can be resumed.                                             *)
THEOREM SentAnswerable == Spec => []SentIsAnswerable
  <1>1. RInv => SentIsAnswerable
    BY DEF RInv, CallInv, MetByClose, SentIsAnswerable
  <1>2. QED
    BY <1>1, RpcInvariance, PTL

(* For any number of calls: a completed call is in the map of pending      *)
(* calls only while close() works on it.                                   *)
THEOREM NoEntryLeaks == Spec => []NoLeak
  <1>1. RInv => NoLeak
    BY DEF RInv, CallInv, NoLeak
  <1>2. QED
    BY <1>1, RpcInvariance, PTL

-----------------------------------------------------------------------------
(* OneCancel.  A call is taken out of the map once; who takes it may send  *)
(* a cancel, the timeout job on its way to complete the call, the          *)
(* cancellation handler as it completes it, and nobody else.               *)
Clean(s) == \A i \in DOMAIN s : s[i] # "cancel"

AtMostOne(s) == \A i, k \in DOMAIN s : s[i] = "cancel" /\ s[k] = "cancel" => i = k

MayCancel(c) ==
    \/ pc[c] \in Fresh \/ c \in pending
    \/ held[c] \in {"reader", "cancel"}
    \/ timeoutJob[c] = "notifying"

CancelInv(c) ==
    /\ AtMostOne(wire[c])
    /\ MayCancel(c) \/ winner[c] = "reader" => Clean(wire[c])
    /\ timeoutJob[c] = "notifying" => held[c] = "timeout"
    /\ winner[c] = "reader" => c \notin pending /\ held[c] = "none"

CInv == \A c \in Calls : CancelInv(c)

LEMMA AppendCancel ==
    ASSUME NEW s \in Seq({"request", "cancel"}), NEW x \in {"request", "cancel"}
    PROVE  /\ x = "request" /\ Clean(s) => Clean(Append(s, x))
           /\ x = "request" /\ AtMostOne(s) => AtMostOne(Append(s, x))
           /\ Clean(s) => AtMostOne(Append(s, x))
           /\ Clean(s) => AtMostOne(s)
  <1> DEFINE t == Append(s, x)
  <1>1. /\ DOMAIN s = 1..Len(s) /\ DOMAIN t = 1..(Len(s) + 1) /\ Len(s) \in Nat
        /\ t[Len(s) + 1] = x /\ \A i \in DOMAIN s : t[i] = s[i]
    OBVIOUS
  <1> HIDE DEF t
  <1>2. \A i \in DOMAIN t : i = Len(s) + 1 \/ i \in DOMAIN s
    BY <1>1
  <1>3. x = "request" /\ Clean(s) => Clean(t)
    BY <1>1, <1>2 DEF Clean
  <1>4. x = "request" /\ AtMostOne(s) => AtMostOne(t)
    BY <1>1, <1>2 DEF AtMostOne
  <1>5. Clean(s) => AtMostOne(t)
    BY <1>1, <1>2 DEF Clean, AtMostOne
  <1>6. Clean(s) => AtMostOne(s)
    BY DEF Clean, AtMostOne
  <1> QED
    BY <1>3, <1>4, <1>5, <1>6 DEF t

LEMMA CancelsCounted ==
    ASSUME NEW c \in Calls
    PROVE  /\ Clean(wire[c]) => Times(c, "cancel") = 0
           /\ AtMostOne(wire[c]) => Times(c, "cancel") <= 1
  <1> DEFINE places == {i \in DOMAIN wire[c] : wire[c][i] = "cancel"}
  <1>1. Times(c, "cancel") = Cardinality(places)
    BY DEF Times
  <1>2. ASSUME places = {} PROVE Cardinality(places) = 0
    BY <1>2, FS_EmptySet
  <1>3. ASSUME NEW i \in places, AtMostOne(wire[c]) PROVE Cardinality(places) = 1
    <2>1. places = {i}
      BY <1>3 DEF AtMostOne
    <2> HIDE DEF places
    <2> QED
      BY <2>1, FS_Singleton
  <1>4. Clean(wire[c]) => places = {}
    BY DEF Clean
  <1> HIDE DEF places
  <1> QED
    BY <1>1, <1>2, <1>3, <1>4

(* A step is about one call.                                               *)
LEMMA OneCancelCall ==
    ASSUME CInv, NEW c \in Calls, CancelInv(c)',
           \A d \in Calls : d # c =>
              /\ d \in pending' => d \in pending
              /\ pc'[d] = pc[d] /\ held'[d] = held[d] /\ winner'[d] = winner[d]
              /\ timeoutJob'[d] = timeoutJob[d] /\ wire'[d] = wire[d]
    PROVE  CInv'
  <1>1. ASSUME NEW d \in Calls, d # c PROVE CancelInv(d)'
    BY <1>1 DEF CInv, CancelInv, MayCancel
  <1> QED
    BY <1>1 DEF CInv

LEMMA CallerKeepsCancels ==
    ASSUME RInv, CInv, NEW c \in Calls, CallerStep(c)
    PROVE  CInv'
  <1> USE DEF RInv, CInv
  <1>1. CASE Invoke(c) \/ Store(c) \/ Arm(c) \/ Hook(c) \/ CheckOpen(c)
    <2>1. CancelInv(c)'
      BY <1>1 DEF Invoke, Store, Arm, Hook, CheckOpen, TypeOK, CallInv, Untouched, CancelInv,
         MayCancel, Fresh
    <2>2. \A d \in Calls : d # c =>
              /\ d \in pending' => d \in pending
              /\ pc'[d] = pc[d] /\ held'[d] = held[d] /\ winner'[d] = winner[d]
              /\ timeoutJob'[d] = timeoutJob[d] /\ wire'[d] = wire[d]
      BY <1>1 DEF Invoke, Store, Arm, Hook, CheckOpen, TypeOK
    <2> QED
      BY <2>1, <2>2, OneCancelCall
  <1>2. CASE SendRequest(c)
    <2>1. wire[c] \in Seq({"request", "cancel"})
      BY DEF TypeOK
    <2>2. wire'[c] = wire[c] \/ wire'[c] = Append(wire[c], "request")
      BY <1>2 DEF SendRequest, TypeOK
    <2>3. (Clean(wire[c]) => Clean(wire'[c])) /\ (AtMostOne(wire[c]) => AtMostOne(wire'[c]))
      BY <2>1, <2>2, AppendCancel
    <2>4. pc[c] \notin Fresh /\ pc'[c] \notin Fresh /\ UNCHANGED <<pending, held, winner, timeoutJob>>
      BY <1>2 DEF SendRequest, TypeOK, Fresh
    <2>5. CancelInv(c)'
      BY <2>3, <2>4 DEF CancelInv, MayCancel
    <2>6. \A d \in Calls : d # c => pc'[d] = pc[d] /\ wire'[d] = wire[d]
      BY <1>2 DEF SendRequest, TypeOK
    <2> QED
      BY <2>4, <2>5, <2>6, OneCancelCall
  <1>3. CASE SendFailed(c)
    <2>1. CancelInv(c)'
      BY <1>3 DEF SendFailed, TakeOut, TypeOK, CallInv, CancelInv, MayCancel, Fresh
    <2> QED
      BY <1>3, <2>1, OneCancelCall DEF SendFailed, TakeOut, TypeOK
  <1> QED
    BY <1>1, <1>2, <1>3 DEF CallerStep

(* What a cancel does to the line of its call.                             *)
LEMMA CancelSent ==
    ASSUME TypeOK, NEW c \in Calls, SendCancel(c) \/ UNCHANGED wire
    PROVE  /\ Clean(wire[c]) => AtMostOne(wire'[c])
           /\ UNCHANGED wire => (Clean(wire[c]) => Clean(wire'[c]))
           /\ \A d \in Calls : d # c => wire'[d] = wire[d]
  <1>1. wire[c] \in Seq({"request", "cancel"})
    BY DEF TypeOK
  <1>2. wire'[c] = wire[c] \/ wire'[c] = Append(wire[c], "cancel")
    BY DEF SendCancel, TypeOK
  <1>3. Clean(wire[c]) => AtMostOne(wire'[c])
    BY <1>1, <1>2, AppendCancel
  <1> QED
    BY <1>3, SendCancelKeeps

LEMMA SettleKeepsCancels ==
    ASSUME RInv, CInv, NEW c \in Calls, Settle(c)
    PROVE  CInv'
  <1>1. /\ TypeOK /\ CallInv(c) /\ CancelInv(c) /\ held[c] \in Holders
        /\ held[c] # "none" /\ c \notin pending /\ pc[c] \notin Fresh
        /\ timeoutJob[c] # "notifying" /\ winner[c] # "reader"
    BY DEF RInv, CInv, Settle, TypeOK, CallInv, Untouched, CancelInv
  <1>2. /\ winner'[c] \in {winner[c], held[c]} /\ timeoutJob'[c] # "notifying"
        /\ \A d \in Calls : d # c => winner'[d] = winner[d] /\ timeoutJob'[d] = timeoutJob[d]
    BY <1>1, ZenonT(60) DEF Settle, Complete, TypeOK
  <1>3. /\ held' = [held EXCEPT ![c] = "none"] /\ UNCHANGED <<pending, pc>>
        /\ held[c] # "cancel" => UNCHANGED wire
        /\ SendCancel(c) \/ UNCHANGED wire
    BY DEF Settle
  <1>4. held'[c] = "none" /\ \A d \in Calls : d # c => held'[d] = held[d]
    BY <1>1, <1>3 DEF TypeOK
  <1>5. AtMostOne(wire'[c]) /\ \A d \in Calls : d # c => wire'[d] = wire[d]
    BY <1>1, <1>3, CancelSent DEF CancelInv, MayCancel
  <1>6. winner'[c] = "reader" => Clean(wire'[c])
    BY <1>1, <1>2, <1>3, CancelSent DEF CancelInv, MayCancel
  <1>7. CancelInv(c)'
    BY <1>1, <1>2, <1>3, <1>4, <1>5, <1>6 DEF CancelInv, MayCancel
  <1> QED
    BY <1>2, <1>3, <1>4, <1>5, <1>7, OneCancelCall

LEMMA RaceKeepsCancels ==
    ASSUME RInv, CInv, NEW c \in Calls,
           TimedOut(c) \/ TimeoutCancels(c) \/ Cancel(c) \/ OnCancellation(c) \/ Receive(c)
             \/ TakeAnswered(c)
    PROVE  CInv'
  <1> USE DEF RInv, CInv
  <1>1. CASE TimedOut(c)
    <2>1. CancelInv(c)'
      BY <1>1 DEF TimedOut, TakeOut, TypeOK, CallInv, CancelInv, MayCancel
    <2> QED
      BY <1>1, <2>1, OneCancelCall DEF TimedOut, TakeOut, TypeOK
  <1>2. CASE TimeoutCancels(c)
    <2>1. /\ Clean(wire[c]) /\ held[c] = "timeout" /\ c \notin pending /\ pc[c] \notin Fresh
          /\ winner[c] # "reader"
      BY <1>2 DEF TimeoutCancels, CancelInv, MayCancel, CallInv, Untouched
    <2>2. /\ timeoutJob'[c] = "over" /\ UNCHANGED <<pending, pc, held, winner>>
          /\ \A d \in Calls : d # c => timeoutJob'[d] = timeoutJob[d]
      BY <1>2 DEF TimeoutCancels, TypeOK
    <2>3. AtMostOne(wire'[c]) /\ \A d \in Calls : d # c => wire'[d] = wire[d]
      BY <1>2, <2>1, CancelSent DEF TimeoutCancels
    <2>4. CancelInv(c)'
      BY <2>1, <2>2, <2>3 DEF CancelInv, MayCancel
    <2> QED
      BY <2>2, <2>3, <2>4, OneCancelCall
  <1>3. CASE Cancel(c) \/ Receive(c)
    BY <1>3 DEF Cancel, Receive, CancelInv, MayCancel
  <1>4. CASE OnCancellation(c)
    <2>1. CancelInv(c)'
      BY <1>4 DEF OnCancellation, TakeOut, TypeOK, CallInv, Untouched, CancelInv, MayCancel, Fresh
    <2> QED
      BY <1>4, <2>1, OneCancelCall DEF OnCancellation, TakeOut, TypeOK
  <1>5. CASE TakeAnswered(c)
    <2>1. CancelInv(c)'
      BY <1>5 DEF TakeAnswered, TakeOut, TypeOK, CallInv, Untouched, CancelInv, MayCancel, Fresh
    <2> QED
      BY <1>5, <2>1, OneCancelCall DEF TakeAnswered, TakeOut, TypeOK
  <1> QED
    BY <1>1, <1>2, <1>3, <1>4, <1>5

LEMMA CloseKeepsCancels ==
    ASSUME RInv, CInv,
           \/ Close \/ CloseStarts \/ CloseLoopEnds \/ CloseClears \/ CloseStops
           \/ \E c \in Calls : CloseFails(c)
    PROVE  CInv'
  <1> USE DEF RInv, CInv
  <1>1. CASE Close \/ CloseStarts \/ CloseLoopEnds \/ CloseClears
    BY <1>1 DEF Close, CloseStarts, CloseLoopEnds, CloseClears, CancelInv, MayCancel
  <1>2. CASE CloseStops
    <2>1. /\ UNCHANGED <<pending, pc, held, winner, wire>>
          /\ \A c \in Calls : timeoutJob'[c] = "notifying" => timeoutJob[c] = "notifying"
      BY <1>2 DEF CloseStops, TypeOK
    <2> QED
      BY <2>1 DEF CancelInv, MayCancel
  <1>3. ASSUME NEW c \in Calls, CloseFails(c) PROVE CInv'
    <2>1. /\ winner'[c] \in {winner[c], "close"}
          /\ timeoutJob'[c] = "notifying" => timeoutJob[c] = "notifying"
          /\ \A d \in Calls : d # c => winner'[d] = winner[d] /\ timeoutJob'[d] = timeoutJob[d]
      <3>1. /\ winner \in [Calls -> {winner[x] : x \in Calls}]
            /\ timeoutJob \in [Calls -> {timeoutJob[x] : x \in Calls}]
        BY DEF TypeOK
      <3>2. CASE winner[c] = "none"
        <4>1. /\ winner' = [winner EXCEPT ![c] = "close"]
              /\ timeoutJob' = [timeoutJob EXCEPT ![c] = IF @ = "delay" THEN "over" ELSE @]
          BY <1>3, <3>2 DEF CloseFails, Complete
        <4> QED
          BY <3>1, <4>1
      <3>3. CASE winner[c] # "none"
        <4>1. winner' = winner /\ timeoutJob' = timeoutJob
          BY <1>3, <3>3 DEF CloseFails, Complete
        <4> QED
          BY <4>1
      <3> QED
        BY <3>2, <3>3
    <2>2. UNCHANGED <<pending, pc, held, wire>>
      BY <1>3 DEF CloseFails
    <2>3. CancelInv(c)'
      BY <2>1, <2>2 DEF CancelInv, MayCancel
    <2> QED
      BY <2>1, <2>2, <2>3, OneCancelCall
  <1> QED
    BY <1>1, <1>2, <1>3

LEMMA NextKeepsCancels == ASSUME RInv, CInv, [Next]_vars PROVE CInv'
  <1>1. ASSUME NEW c \in Calls,
               CallerStep(c) \/ Settle(c) \/ TimeoutStep(c) \/ Cancel(c) \/ OnCancellation(c)
                 \/ Receive(c) \/ TakeAnswered(c) \/ CloseFails(c)
        PROVE  CInv'
    BY <1>1, CallerKeepsCancels, SettleKeepsCancels, RaceKeepsCancels, CloseKeepsCancels
    DEF TimeoutStep
  <1>2. CASE Close \/ CloseStep
    <2>1. unvisited \subseteq Calls
      BY DEF RInv, TypeOK
    <2> QED
      BY <1>2, <2>1, CloseKeepsCancels DEF CloseStep
  <1>3. CASE UNCHANGED vars
    BY <1>3 DEF vars, CInv, CancelInv, MayCancel
  <1> QED
    BY <1>1, <1>2, <1>3 DEF Next

(* For any number of calls: answer, timeout, cancellation, failed send and *)
(* close() race for a call; at most one cancel goes out, and none for a    *)
(* call whose answer was accepted (KotlinCallTsProxy.kt:91-215).           *)
THEOREM OneCancelHolds == Spec => []OneCancel
  <1>1. Init => CInv
    BY DEF Init, CInv, CancelInv, MayCancel, Clean, AtMostOne
  <1>2. RInv /\ CInv => OneCancel
    BY CancelsCounted DEF CInv, CancelInv, OneCancel
  <1>3. RInv /\ CInv /\ [Next]_vars => CInv'
    BY NextKeepsCancels
  <1> QED
    BY <1>1, <1>2, <1>3, RpcInvariance, PTL DEF Spec
=============================================================================
