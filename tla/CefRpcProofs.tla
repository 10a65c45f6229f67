---------------------------- MODULE CefRpcProofs ----------------------------
(***************************************************************************)
(* For any number of calls: the callback of a query is used once at most,  *)
(* and the query of a caller that waits fails only by a close.             *)
(*                                                                         *)
(* Neither is inductive.  A callback is unused while its request is on the *)
(* way, while the router's thread has accepted it, and while the map holds *)
(* it, and a request is sent once (OneUse).  A failure on its way belongs  *)
(* to a call that was given up, or the session is being closed; a cancel   *)
(* on its way belongs to a call that was given up (Untroubled).            *)
(***************************************************************************)
EXTENDS CefRpc, FiniteSetTheorems, TLAPS

InLine(s, m) == \E i \in DOMAIN s : s[i] = m
Single(s, m) == \A i, k \in DOMAIN s : s[i] = m /\ s[k] = m => i = k

Messages == Kinds \X Calls
Request(c) == <<"request", c>>

Unused(c) == times[c] = 0 /\ c \notin open
Awaiting(c) == pend[c] \in {"idle", "pending"}

OneUse(c) ==
  /\ times[c] <= 1
  /\ c \in open => times[c] = 0
  /\ pend[c] = "idle" => Unused(c) /\ ~InLine(toHost, Request(c)) /\ cef # <<"accepted", c>>
  /\ InLine(toHost, Request(c)) => Unused(c) /\ cef # <<"accepted", c>>
  /\ Single(toHost, Request(c))
  /\ cef = <<"accepted", c>> => Unused(c)

Untroubled(c) ==
  /\ pend[c] = "failed" => closing # "open"
  /\ <<"failure", c>> \in toPage => closing # "open" \/ ~Awaiting(c)
  /\ InLine(toHost, <<"cancel", c>>) => ~Awaiting(c)

CInv ==
  /\ TypeOK
  /\ IsFiniteSet(qids)
  /\ ~incoming => closing # "open"
  /\ \A c \in Calls : OneUse(c) /\ Untroubled(c)

-----------------------------------------------------------------------------
(* What is on the line after a message was put on it, or taken off it.     *)
LEMMA Joined ==
  ASSUME NEW T, NEW s \in Seq(T), NEW t \in Seq(T)
  PROVE  /\ s \o t \in Seq(T)
         /\ \A m : InLine(s \o t, m) => InLine(s, m) \/ InLine(t, m)
         /\ \A m : Single(s, m) /\ ~InLine(t, m) => Single(s \o t, m)
         /\ \A m : ~InLine(s, m) /\ Single(t, m) => Single(s \o t, m)
  <1> DEFINE u == s \o t
  <1>1. /\ u \in Seq(T) /\ Len(s) \in Nat /\ Len(t) \in Nat
        /\ DOMAIN s = 1..Len(s) /\ DOMAIN t = 1..Len(t) /\ DOMAIN u = 1..(Len(s) + Len(t))
        /\ \A i \in DOMAIN u : u[i] = IF i <= Len(s) THEN s[i] ELSE t[i - Len(s)]
    OBVIOUS
  <1> HIDE DEF u
  <1>2. \A i \in DOMAIN u : \/ i \in DOMAIN s /\ u[i] = s[i]
                            \/ i > Len(s) /\ i - Len(s) \in DOMAIN t /\ u[i] = t[i - Len(s)]
    BY <1>1
  <1>3. \A m : InLine(u, m) => InLine(s, m) \/ InLine(t, m)
    BY <1>2 DEF InLine
  <1>4. ASSUME NEW m, Single(s, m), ~InLine(t, m) PROVE Single(u, m)
    BY <1>2, <1>4 DEF InLine, Single
  <1>5. ASSUME NEW m, ~InLine(s, m), Single(t, m) PROVE Single(u, m)
    <2> SUFFICES ASSUME NEW i \in DOMAIN u, NEW k \in DOMAIN u, u[i] = m, u[k] = m
                 PROVE  i = k
      BY DEF Single
    <2>1. /\ i - Len(s) \in DOMAIN t /\ t[i - Len(s)] = m
          /\ k - Len(s) \in DOMAIN t /\ t[k - Len(s)] = m
      BY <1>2, <1>5 DEF InLine
    <2>2. i - Len(s) = k - Len(s)
      BY <2>1, <1>5 DEF Single
    <2> QED
      BY <2>2, <1>1
  <1> QED
    BY <1>1, <1>3, <1>4, <1>5 DEF u

LEMMA TakenOff ==
  ASSUME NEW T, NEW s \in Seq(T), s # <<>>
  PROVE  /\ Tail(s) \in Seq(T) /\ Head(s) \in T /\ InLine(s, Head(s))
         /\ \A m : InLine(Tail(s), m) => InLine(s, m)
         /\ \A m : Single(s, m) => Single(Tail(s), m)
         /\ Single(s, Head(s)) => ~InLine(Tail(s), Head(s))
  <1> DEFINE u == Tail(s)
  <1>1. /\ u \in Seq(T) /\ Head(s) \in T /\ Head(s) = s[1] /\ Len(s) \in Nat /\ Len(s) >= 1
        /\ DOMAIN s = 1..Len(s) /\ DOMAIN u = 1..(Len(s) - 1)
        /\ \A i \in DOMAIN u : u[i] = s[i + 1]
    OBVIOUS
  <1> HIDE DEF u
  <1>2. 1 \in DOMAIN s /\ \A i \in DOMAIN u : i + 1 \in DOMAIN s /\ i + 1 # 1 /\ u[i] = s[i + 1]
    BY <1>1
  <1>3. InLine(s, Head(s)) /\ \A m : InLine(u, m) => InLine(s, m)
    BY <1>1, <1>2 DEF InLine
  <1>4. ASSUME NEW m, Single(s, m), NEW i \in DOMAIN u, NEW k \in DOMAIN u, u[i] = m, u[k] = m
        PROVE  i = k
    <2>1. i + 1 = k + 1
      BY <1>2, <1>4 DEF Single
    <2> QED
      BY <2>1, <1>1
  <1>5. Single(s, Head(s)) => ~InLine(u, Head(s))
    BY <1>1, <1>2 DEF Single, InLine
  <1> QED
    BY <1>1, <1>3, <1>4, <1>5 DEF Single, u

-----------------------------------------------------------------------------
(* Initially. *)
LEMMA InitCInv == Init => CInv
  <1> SUFFICES ASSUME Init PROVE CInv
    OBVIOUS
  <1>1. TypeOK
    BY DEF Init, TypeOK, Settled, Kinds
  <1>2. IsFiniteSet(qids)
    BY FS_EmptySet DEF Init
  <1>3. \A m : ~InLine(toHost, m) /\ Single(toHost, m)
    BY DEF Init, InLine, Single
  <1>4. ASSUME NEW c \in Calls PROVE OneUse(c) /\ Untroubled(c)
    BY <1>3, <1>4 DEF Init, OneUse, Untroubled, Unused
  <1> QED
    BY <1>1, <1>2, <1>4 DEF CInv, Init

-----------------------------------------------------------------------------
(* The page.  What it sends is put behind what is on the line.             *)

LEMMA CallKeeps ==
  ASSUME CInv, NEW c \in Calls, Call(c)
  PROVE  CInv'
  <1> DEFINE new == << <<"request", c>> >>
  <1>1. new \in Seq(Messages) /\ \A m : InLine(new, m) => m = Request(c)
    BY DEF Messages, Kinds, InLine, Request
  <1>2. \A m : Single(new, m)
    BY DEF Single
  <1>3. toHost \in Seq(Messages) /\ toHost' = toHost \o new
    BY DEF CInv, TypeOK, Call, Send, Messages
  <1> HIDE DEF new
  <1>4. /\ toHost' \in Seq(Messages)
        /\ \A m : InLine(toHost', m) => InLine(toHost, m) \/ m = Request(c)
        /\ \A m : m # Request(c) /\ Single(toHost, m) => Single(toHost', m)
        /\ ~InLine(toHost, Request(c)) => Single(toHost', Request(c))
    BY <1>1, <1>2, <1>3, Joined
  <1>5. TypeOK'
    BY <1>4 DEF CInv, TypeOK, Call, kotlin, session, maps, Settled, Messages
  <1>6. IsFiniteSet(qids')
    BY FS_AddElement DEF CInv, Call
  <1>7. ASSUME NEW d \in Calls PROVE OneUse(d)' /\ Untroubled(d)'
    BY <1>4, <1>7 DEF CInv, TypeOK, Call, kotlin, session, maps, OneUse, Untroubled, Unused, Awaiting, Request
  <1> QED
    BY <1>5, <1>6, <1>7 DEF CInv, Call, kotlin, session

LEMMA AbandonKeeps ==
  ASSUME CInv, NEW c \in Calls, Abandon(c)
  PROVE  CInv'
  <1> DEFINE more == IF c \in qids THEN << <<"queryCancel", c>> >> ELSE <<>>
             new == << <<"cancel", c>> >> \o more
  <1>1. << <<"cancel", c>> >> \in Seq(Messages) /\ more \in Seq(Messages)
    BY DEF Messages, Kinds
  <1>2. \A m : InLine(new, m) => m \in {<<"cancel", c>>, <<"queryCancel", c>>}
    <2>1. \A m : InLine(<< <<"cancel", c>> >>, m) => m = <<"cancel", c>>
      BY DEF InLine
    <2>2. \A m : InLine(more, m) => m = <<"queryCancel", c>>
      BY DEF InLine
    <2> QED
      BY <1>1, <2>1, <2>2, Joined
  <1>3. new \in Seq(Messages)
    BY <1>1, Joined
  <1>4. toHost \in Seq(Messages) /\ toHost' = toHost \o new
    BY DEF CInv, TypeOK, Abandon, Send, Messages
  <1> HIDE DEF new
  <1>5. /\ toHost' \in Seq(Messages)
        /\ \A m : InLine(toHost', m)
              => InLine(toHost, m) \/ m \in {<<"cancel", c>>, <<"queryCancel", c>>}
        /\ \A d \in Calls : Single(toHost, Request(d)) => Single(toHost', Request(d))
    BY <1>2, <1>3, <1>4, Joined DEF Request
  <1>6. TypeOK'
    BY <1>5 DEF CInv, TypeOK, Abandon, CancelQueries, kotlin, session, maps, Settled, Messages
  <1>7. IsFiniteSet(qids')
    BY FS_RemoveElement DEF CInv, Abandon
  <1>8. ASSUME NEW d \in Calls PROVE OneUse(d)' /\ Untroubled(d)'
    BY <1>5, <1>8 DEF CInv, TypeOK, Abandon, kotlin, session, maps, OneUse, Untroubled, Unused, Awaiting, Request
  <1> QED
    BY <1>6, <1>7, <1>8 DEF CInv, Abandon, kotlin, session

LEMMA PeerClosesKeeps ==
  ASSUME CInv, PeerCloses
  PROVE  CInv'
  <1>1. PICK order \in SetToSeqs(qids) :
          toHost' = toHost \o [i \in DOMAIN order |-> <<"queryCancel", order[i]>>]
    BY DEF PeerCloses, Send
  <1> DEFINE new == [i \in DOMAIN order |-> <<"queryCancel", order[i]>>]
  <1>2. Cardinality(qids) \in Nat
    BY FS_CardinalityType DEF CInv
  <1>3. order \in [1..Cardinality(qids) -> qids]
    BY DEF SetToSeqs
  <1>4. new \in Seq(Messages)
    <2>1. DOMAIN new = 1..Cardinality(qids) /\ \A i \in DOMAIN new : new[i] \in Messages
      BY <1>2, <1>3 DEF Messages, Kinds, CInv, TypeOK
    <2>2. new \in [1..Cardinality(qids) -> Messages]
      BY <2>1
    <2> QED
      BY <1>2, <2>2
  <1>5. \A m : InLine(new, m) => m[1] = "queryCancel"
    BY DEF InLine
  <1>6. toHost \in Seq(Messages) /\ toHost' = toHost \o new
    BY <1>1 DEF CInv, TypeOK, Messages
  <1> HIDE DEF new
  <1>7. /\ toHost' \in Seq(Messages)
        /\ \A m : InLine(toHost', m) => InLine(toHost, m) \/ m[1] = "queryCancel"
        /\ \A d \in Calls : Single(toHost, Request(d)) => Single(toHost', Request(d))
    BY <1>4, <1>5, <1>6, Joined DEF Request
  <1>8. TypeOK'
    BY <1>7 DEF CInv, TypeOK, PeerCloses, CancelQueries, kotlin, session, maps, Settled, Messages
  <1>9. IsFiniteSet(qids')
    BY FS_EmptySet DEF PeerCloses
  <1>10. ASSUME NEW d \in Calls PROVE OneUse(d)' /\ Untroubled(d)'
    BY <1>7, <1>10 DEF CInv, TypeOK, PeerCloses, kotlin, session, maps, OneUse, Untroubled, Unused, Awaiting, Request
  <1> QED
    BY <1>8, <1>9, <1>10 DEF CInv, PeerCloses, kotlin, session

LEMMA DeliveryKeeps ==
  ASSUME CInv, NEW c \in Calls, Delivery(c)
  PROVE  CInv'
  <1>1. TypeOK'
    <2>1. CASE AnswerArrives(c)
      <3>1. pend' \in [Calls -> {"idle", "pending"} \cup Settled]
        <4>1. pend' = pend \/ pend' = [pend EXCEPT ![c] = IF @ = "pending" THEN "answered" ELSE @]
          BY <2>1 DEF AnswerArrives, Settle
        <4>2. pend \in [Calls -> {"idle", "pending"} \cup Settled] /\ "answered" \in Settled
          BY DEF CInv, TypeOK, Settled
        <4> QED
          BY <4>1, <4>2
      <3>2. qids' \subseteq Calls /\ toPage' \subseteq toPage
        BY <2>1 DEF CInv, TypeOK, AnswerArrives
      <3> QED
        BY <2>1, <3>1, <3>2 DEF CInv, TypeOK, AnswerArrives, kotlin, session, maps
    <2>2. ASSUME NEW how \in {"success", "failure"}, QueryEnds(c, how)
          PROVE  TypeOK'
      BY <2>2 DEF CInv, TypeOK, QueryEnds, Settle, kotlin, session, maps, Settled
    <2> QED
      BY <2>1, <2>2 DEF Delivery
  <1>2. IsFiniteSet(qids')
    BY FS_RemoveElement DEF CInv, Delivery, AnswerArrives, QueryEnds
  <1>3. ASSUME NEW d \in Calls PROVE OneUse(d)' /\ Untroubled(d)'
    <2>1. CASE AnswerArrives(c)
      BY <1>3, <2>1 DEF CInv, TypeOK, AnswerArrives, Settle, kotlin, session, maps,
                        OneUse, Untroubled, Unused, Awaiting, Request
    <2>2. ASSUME NEW how \in {"success", "failure"}, QueryEnds(c, how)
          PROVE  OneUse(d)' /\ Untroubled(d)'
      BY <1>3, <2>2 DEF CInv, TypeOK, QueryEnds, Settle, kotlin, session, maps,
                        OneUse, Untroubled, Unused, Awaiting, Request
    <2> QED
      BY <2>1, <2>2 DEF Delivery
  <1> QED
    BY <1>1, <1>2, <1>3 DEF CInv, Delivery, AnswerArrives, QueryEnds, kotlin, session

-----------------------------------------------------------------------------
(* The router's thread takes the messages off the line.                    *)

LEMMA AcceptKeeps ==
  ASSUME CInv, NEW c \in Calls, Accept(c)
  PROVE  CInv'
  <1>1. /\ toHost \in Seq(Messages) /\ toHost # <<>>
        /\ Head(toHost) = <<"request", c>> /\ toHost' = Tail(toHost)
    BY DEF CInv, TypeOK, Accept, Next1, Messages
  <1>2. /\ toHost' \in Seq(Messages) /\ InLine(toHost, <<"request", c>>)
        /\ \A m : InLine(toHost', m) => InLine(toHost, m)
        /\ \A m : Single(toHost, m) => Single(toHost', m)
        /\ Single(toHost, <<"request", c>>) => ~InLine(toHost', <<"request", c>>)
    BY <1>1, TakenOff
  <1>3. TypeOK'
    <2>1. TypeOK
      BY DEF CInv
    <2>2. /\ cef' \in {"idle", "accepted", "kept", "tracked", "dispatched"} \X (Calls \cup {Nil})
          /\ times' \in [Calls -> Nat]
          /\ toPage' \subseteq {"answer", "success", "failure"} \X Calls
      BY <2>1 DEF TypeOK, Accept, CallBack, NoCallBack, Goto
    <2>3. UNCHANGED <<web, session, maps, inbound, job>> /\ UNCHANGED incoming
      BY DEF Accept, Next1, session, maps
    <2> QED
      BY <1>2, <2>1, <2>2, <2>3 DEF TypeOK, web, page, session, maps, Messages
  <1>4. ASSUME NEW d \in Calls PROVE OneUse(d)' /\ Untroubled(d)'
    <2>1. /\ InLine(toHost, Request(c)) /\ ~InLine(toHost', Request(c))
          /\ times[c] = 0 /\ c \notin open /\ ~(pend[c] = "idle") /\ cef[1] = "idle"
      BY <1>2 DEF CInv, OneUse, Unused, Accept, Next1, Request
    <2>2. \/ times' = times /\ toPage' = toPage
          \/ CallBack(c, "failure") /\ closing # "open"
      BY DEF Accept, NoCallBack, CInv
    <2>3. UNCHANGED <<pend, open, closing>>
      BY DEF Accept, web, page, session, maps
    <2>4. \/ cef' = <<"idle", Nil>>
          \/ cef' = <<"accepted", c>> /\ times' = times
      BY DEF Accept, Goto, NoCallBack
    <2>5. OneUse(d)'
      <3>1. OneUse(d) /\ times \in [Calls -> Nat]
        BY <1>4 DEF CInv, TypeOK
      <3>2. \/ times' = times
            \/ times' = [times EXCEPT ![c] = @ + 1] /\ cef' = <<"idle", Nil>>
        BY <2>2, <2>4 DEF CallBack, Accept, Goto, NoCallBack
      <3>3. CASE d = c
        BY <1>2, <2>1, <2>3, <2>4, <3>1, <3>2, <3>3 DEF OneUse, Unused
      <3>4. CASE d # c
        BY <1>2, <2>3, <2>4, <3>1, <3>2, <3>4 DEF OneUse, Unused
      <3> QED
        BY <3>3, <3>4
    <2>6. Untroubled(d)'
      BY <1>2, <1>4, <2>2, <2>3 DEF CInv, Untroubled, Awaiting, CallBack
    <2> QED
      BY <2>5, <2>6
  <1> QED
    BY <1>3, <1>4 DEF CInv, Accept, web, page, session, maps, CallBack, NoCallBack, Goto

LEMMA KeepKeeps ==
  ASSUME CInv, NEW c \in Calls, Keep(c)
  PROVE  CInv'
  <1>1. TypeOK'
    BY DEF CInv, TypeOK, Keep, web, page, session, maps, CallBack, NoCallBack, Goto
  <1>2. ASSUME NEW d \in Calls PROVE OneUse(d)' /\ Untroubled(d)'
    BY <1>2 DEF CInv, TypeOK, Keep, web, page, session, maps, CallBack, NoCallBack, Goto,
                OneUse, Untroubled, Unused, Awaiting, Request
  <1> QED
    BY <1>1, <1>2 DEF CInv, Keep, web, page, session, maps, CallBack, NoCallBack, Goto

LEMMA TrackKeeps ==
  ASSUME CInv, NEW c \in Calls, Track(c)
  PROVE  CInv'
  <1>1. TypeOK'
    BY DEF CInv, TypeOK, Track, web, page, session, maps, CallBack, NoCallBack, Goto
  <1>2. ASSUME NEW d \in Calls PROVE OneUse(d)' /\ Untroubled(d)'
    BY <1>2 DEF CInv, TypeOK, Track, web, page, session, maps, CallBack, NoCallBack, Goto,
                OneUse, Untroubled, Unused, Awaiting, Request
  <1> QED
    BY <1>1, <1>2 DEF CInv, Track, web, page, session, maps, CallBack, NoCallBack, Goto

LEMMA DispatchKeeps ==
  ASSUME CInv, NEW c \in Calls, Dispatch(c)
  PROVE  CInv'
  <1>1. TypeOK'
    BY DEF CInv, TypeOK, Dispatch, web, page, session, maps, CallBack, NoCallBack, Goto
  <1>2. ASSUME NEW d \in Calls PROVE OneUse(d)' /\ Untroubled(d)'
    BY <1>2 DEF CInv, TypeOK, Dispatch, web, page, session, maps, CallBack, NoCallBack, Goto,
                OneUse, Untroubled, Unused, Awaiting, Request
  <1> QED
    BY <1>1, <1>2 DEF CInv, Dispatch, web, page, session, maps, CallBack, NoCallBack, Goto

LEMMA LaunchKeeps ==
  ASSUME CInv, NEW c \in Calls, Launch(c)
  PROVE  CInv'
  <1>1. TypeOK'
    BY DEF CInv, TypeOK, Launch, web, page, session, maps, CallBack, NoCallBack, Goto
  <1>2. ASSUME NEW d \in Calls PROVE OneUse(d)' /\ Untroubled(d)'
    BY <1>2 DEF CInv, TypeOK, Launch, web, page, session, maps, CallBack, NoCallBack, Goto,
                OneUse, Untroubled, Unused, Awaiting, Request
  <1> QED
    BY <1>1, <1>2 DEF CInv, Launch, web, page, session, maps, CallBack, NoCallBack, Goto

LEMMA WireCancelKeeps ==
  ASSUME CInv, NEW c \in Calls, WireCancel(c)
  PROVE  CInv'
  <1>1. /\ toHost \in Seq(Messages) /\ toHost # <<>>
        /\ Head(toHost) = <<"cancel", c>> /\ toHost' = Tail(toHost)
    BY DEF CInv, TypeOK, WireCancel, Next1, Messages
  <1>2. /\ toHost' \in Seq(Messages) /\ InLine(toHost, <<"cancel", c>>)
        /\ \A m : InLine(toHost', m) => InLine(toHost, m)
        /\ \A m : Single(toHost, m) => Single(toHost', m)
        /\ Single(toHost, <<"cancel", c>>) => ~InLine(toHost', <<"cancel", c>>)
    BY <1>1, TakenOff
  <1>3. TypeOK'
    <2>1. times' \in [Calls -> Nat] /\ toPage' \subseteq {"answer", "success", "failure"} \X Calls
      <3>1. \/ times' = times /\ toPage' = toPage
            \/ times' = [times EXCEPT ![c] = @ + 1] /\ toPage' = toPage \cup {<<"failure", c>>}
        BY DEF WireCancel, CallBack, NoCallBack
      <3>2. /\ times \in [Calls -> Nat] /\ toPage \subseteq {"answer", "success", "failure"} \X Calls
            /\ \A n \in Nat : n + 1 \in Nat
        BY DEF CInv, TypeOK
      <3> QED
        BY <3>1, <3>2
    <2>2. /\ inbound' \subseteq Calls
          /\ job' \in [Calls -> {"none", "running", "claiming", "claimed", "sending", "done", "cancelled"}]
      BY DEF CInv, TypeOK, WireCancel, CancelJob, Cancelled
    <2> QED
      BY <1>2, <2>1, <2>2 DEF CInv, TypeOK, WireCancel, web, page, session, maps, Messages
  <1>4. ASSUME NEW d \in Calls PROVE OneUse(d)' /\ Untroubled(d)'
    BY <1>2, <1>4 DEF CInv, TypeOK, WireCancel, Next1, web, page, session, maps, CallBack, NoCallBack, Goto, CancelJob, Cancelled,
                      OneUse, Untroubled, Unused, Awaiting, Request
  <1> QED
    BY <1>3, <1>4 DEF CInv, WireCancel, web, page, session, maps, CallBack, NoCallBack, Goto, CancelJob, Cancelled

LEMMA QueryCancelKeeps ==
  ASSUME CInv, NEW c \in Calls, QueryCancel(c)
  PROVE  CInv'
  <1>1. /\ toHost \in Seq(Messages) /\ toHost # <<>>
        /\ Head(toHost) = <<"queryCancel", c>> /\ toHost' = Tail(toHost)
    BY DEF CInv, TypeOK, QueryCancel, Next1, Messages
  <1>2. /\ toHost' \in Seq(Messages) /\ InLine(toHost, <<"queryCancel", c>>)
        /\ \A m : InLine(toHost', m) => InLine(toHost, m)
        /\ \A m : Single(toHost, m) => Single(toHost', m)
        /\ Single(toHost, <<"queryCancel", c>>) => ~InLine(toHost', <<"queryCancel", c>>)
    BY <1>1, TakenOff
  <1>3. TypeOK'
    BY <1>2 DEF CInv, TypeOK, QueryCancel, Next1, web, page, session, maps, CallBack, NoCallBack, Goto, CancelJob, Cancelled, Messages
  <1>4. ASSUME NEW d \in Calls PROVE OneUse(d)' /\ Untroubled(d)'
    BY <1>2, <1>4 DEF CInv, TypeOK, QueryCancel, Next1, web, page, session, maps, CallBack, NoCallBack, Goto, CancelJob, Cancelled,
                      OneUse, Untroubled, Unused, Awaiting, Request
  <1> QED
    BY <1>3, <1>4 DEF CInv, QueryCancel, web, page, session, maps, CallBack, NoCallBack, Goto, CancelJob, Cancelled

-----------------------------------------------------------------------------
(* A job, and the thread that closes the session.                          *)

LEMMA AnswerKeeps ==
  ASSUME CInv, NEW c \in Calls, Answer(c)
  PROVE  CInv'
  <1>1. TypeOK'
    BY DEF CInv, TypeOK, Answer, web, page, session, maps, CallBack, NoCallBack, Goto
  <1>2. ASSUME NEW d \in Calls PROVE OneUse(d)' /\ Untroubled(d)'
    BY <1>2 DEF CInv, TypeOK, Answer, web, page, session, maps, CallBack, NoCallBack, Goto,
                OneUse, Untroubled, Unused, Awaiting, Request
  <1> QED
    BY <1>1, <1>2 DEF CInv, Answer, web, page, session, maps, CallBack, NoCallBack, Goto

LEMMA ClaimKeeps ==
  ASSUME CInv, NEW c \in Calls, Claim(c)
  PROVE  CInv'
  <1>1. TypeOK'
    BY DEF CInv, TypeOK, Claim, web, page, session, maps, CallBack, NoCallBack, Goto
  <1>2. ASSUME NEW d \in Calls PROVE OneUse(d)' /\ Untroubled(d)'
    BY <1>2 DEF CInv, TypeOK, Claim, web, page, session, maps, CallBack, NoCallBack, Goto,
                OneUse, Untroubled, Unused, Awaiting, Request
  <1> QED
    BY <1>1, <1>2 DEF CInv, Claim, web, page, session, maps, CallBack, NoCallBack, Goto

LEMMA CompleteKeeps ==
  ASSUME CInv, NEW c \in Calls, Complete(c)
  PROVE  CInv'
  <1>1. TypeOK'
    <2>1. times' \in [Calls -> Nat] /\ toPage' \subseteq {"answer", "success", "failure"} \X Calls
      BY DEF CInv, TypeOK, Complete, CallBack, NoCallBack
    <2> QED
      BY <2>1 DEF CInv, TypeOK, Complete, web, page, session
  <1>2. ASSUME NEW d \in Calls PROVE OneUse(d)' /\ Untroubled(d)'
    BY <1>2 DEF CInv, TypeOK, Complete, web, page, session, maps, CallBack, NoCallBack, Goto,
                OneUse, Untroubled, Unused, Awaiting, Request
  <1> QED
    BY <1>1, <1>2 DEF CInv, Complete, web, page, session, maps, CallBack, NoCallBack, Goto

LEMMA DeliverKeeps ==
  ASSUME CInv, NEW c \in Calls, Deliver(c)
  PROVE  CInv'
  <1>1. TypeOK'
    BY DEF CInv, TypeOK, Deliver, web, page, session, maps, CallBack, NoCallBack, Goto
  <1>2. ASSUME NEW d \in Calls PROVE OneUse(d)' /\ Untroubled(d)'
    BY <1>2 DEF CInv, TypeOK, Deliver, web, page, session, maps, CallBack, NoCallBack, Goto,
                OneUse, Untroubled, Unused, Awaiting, Request
  <1> QED
    BY <1>1, <1>2 DEF CInv, Deliver, web, page, session, maps, CallBack, NoCallBack, Goto

LEMMA CloseKeeps ==
  ASSUME CInv, Close
  PROVE  CInv'
  <1>1. TypeOK'
    BY DEF CInv, TypeOK, Close, web, page, session, maps, CallBack, NoCallBack, Goto
  <1>2. ASSUME NEW d \in Calls PROVE OneUse(d)' /\ Untroubled(d)'
    BY <1>2 DEF CInv, TypeOK, Close, web, page, session, maps, CallBack, NoCallBack, Goto,
                OneUse, Untroubled, Unused, Awaiting, Request
  <1> QED
    BY <1>1, <1>2 DEF CInv, Close, web, page, session, maps, CallBack, NoCallBack, Goto

LEMMA DetachKeeps ==
  ASSUME CInv, Detach
  PROVE  CInv'
  <1>1. TypeOK'
    BY DEF CInv, TypeOK, Detach, web, page, session, maps, CallBack, NoCallBack, Goto
  <1>2. ASSUME NEW d \in Calls PROVE OneUse(d)' /\ Untroubled(d)'
    BY <1>2 DEF CInv, TypeOK, Detach, web, page, session, maps, CallBack, NoCallBack, Goto,
                OneUse, Untroubled, Unused, Awaiting, Request
  <1> QED
    BY <1>1, <1>2 DEF CInv, Detach, web, page, session, maps, CallBack, NoCallBack, Goto

LEMMA FailStartsKeeps ==
  ASSUME CInv, FailStarts
  PROVE  CInv'
  <1>1. TypeOK'
    BY DEF CInv, TypeOK, FailStarts, web, page, session, maps, CallBack, NoCallBack, Goto
  <1>2. ASSUME NEW d \in Calls PROVE OneUse(d)' /\ Untroubled(d)'
    BY <1>2 DEF CInv, TypeOK, FailStarts, web, page, session, maps, CallBack, NoCallBack, Goto,
                OneUse, Untroubled, Unused, Awaiting, Request
  <1> QED
    BY <1>1, <1>2 DEF CInv, FailStarts, web, page, session, maps, CallBack, NoCallBack, Goto

LEMMA FailKeeps ==
  ASSUME CInv, NEW c \in Calls, Fail(c)
  PROVE  CInv'
  <1>1. TypeOK'
    BY DEF CInv, TypeOK, Fail, web, page, session, maps, CallBack, NoCallBack, Goto
  <1>2. ASSUME NEW d \in Calls PROVE OneUse(d)' /\ Untroubled(d)'
    BY <1>2 DEF CInv, TypeOK, Fail, web, page, session, maps, CallBack, NoCallBack, Goto,
                OneUse, Untroubled, Unused, Awaiting, Request
  <1> QED
    BY <1>1, <1>2 DEF CInv, Fail, web, page, session, maps, CallBack, NoCallBack, Goto

LEMMA FailEndsKeeps ==
  ASSUME CInv, FailEnds
  PROVE  CInv'
  <1>1. TypeOK'
    BY DEF CInv, TypeOK, FailEnds, web, page, session, maps, CallBack, NoCallBack, Goto, Cancelled
  <1>2. ASSUME NEW d \in Calls PROVE OneUse(d)' /\ Untroubled(d)'
    BY <1>2 DEF CInv, TypeOK, FailEnds, web, page, session, maps, CallBack, NoCallBack, Goto, Cancelled,
                OneUse, Untroubled, Unused, Awaiting, Request
  <1> QED
    BY <1>1, <1>2 DEF CInv, FailEnds, web, page, session, maps, CallBack, NoCallBack, Goto, Cancelled

LEMMA StopKeeps ==
  ASSUME CInv, Stop
  PROVE  CInv'
  <1>1. TypeOK'
    BY DEF CInv, TypeOK, Stop, web, page, session, maps, CallBack, NoCallBack, Goto, Cancelled
  <1>2. ASSUME NEW d \in Calls PROVE OneUse(d)' /\ Untroubled(d)'
    BY <1>2 DEF CInv, TypeOK, Stop, web, page, session, maps, CallBack, NoCallBack, Goto, Cancelled,
                OneUse, Untroubled, Unused, Awaiting, Request
  <1> QED
    BY <1>1, <1>2 DEF CInv, Stop, web, page, session, maps, CallBack, NoCallBack, Goto, Cancelled

-----------------------------------------------------------------------------
(* The inductive invariant, and what it says.                              *)

LEMMA NextCInv == CInv /\ [Next]_vars => CInv'
  <1> SUFFICES ASSUME CInv, [Next]_vars PROVE CInv'
    OBVIOUS
  <1>1. ASSUME NEW c \in Calls, Call(c) \/ Abandon(c) \/ Delivery(c) PROVE CInv'
    BY <1>1, CallKeeps, AbandonKeeps, DeliveryKeeps
  <1>2. ASSUME NEW c \in Calls, Answer(c) \/ Answering(c) PROVE CInv'
    BY <1>2, AnswerKeeps, ClaimKeeps, CompleteKeeps, DeliverKeeps DEF Answering
  <1>3. CASE PeerCloses
    BY <1>3, PeerClosesKeeps
  <1>4. CASE Router
    BY <1>4, AcceptKeeps, KeepKeeps, TrackKeeps, DispatchKeeps, LaunchKeeps,
       WireCancelKeeps, QueryCancelKeeps DEF Router
  <1>5. CASE Close \/ Closing
    BY <1>5, CloseKeeps, DetachKeeps, FailStartsKeeps, FailKeeps, FailEndsKeeps, StopKeeps
    DEF Closing
  <1>6. CASE UNCHANGED vars
    BY <1>6 DEF vars, page, session, maps, CInv, TypeOK, OneUse, Untroubled, Unused, Awaiting
  <1> QED
    BY <1>1, <1>2, <1>3, <1>4, <1>5, <1>6 DEF Next

(* The inductive invariant of the transport: types, and for each call who  *)
(* may still use its callback or tell its caller of a failure.             *)
THEOREM CefInvariance == Spec => []CInv
  BY InitCInv, NextCInv, PTL DEF Spec

(* The job that answers, the wire cancel, the native cancel and close()    *)
(* reach for a callback on threads of their own: it is used once at most   *)
(* (CefMessageRouterTransport.kt:145-224).                                 *)
THEOREM CallbackOnceHolds == Spec => []CallbackOnce
  <1>1. CInv => CallbackOnce
    BY DEF CInv, OneUse, CallbackOnce
  <1> QED
    BY <1>1, CefInvariance, PTL

(* A caller that waits is told of a failure only when the session is being *)
(* closed, however a cancel overtakes or follows the answer.               *)
THEOREM FailsOnlyClosedHolds == Spec => []FailsOnlyClosed
  <1>1. CInv => FailsOnlyClosed
    BY DEF CInv, Untroubled, FailsOnlyClosed
  <1> QED
    BY <1>1, CefInvariance, PTL
=============================================================================
