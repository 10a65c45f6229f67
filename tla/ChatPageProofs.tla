--------------------------- MODULE ChatPageProofs ---------------------------
(***************************************************************************)
(* For any number of sessions, tabs, calls, drops and questions that are   *)
(* open together: a question the agent waits for is on its way to the      *)
(* page, shown, or answered, unless a later one of its kind was asked in   *)
(* the meantime.                                                           *)
(*                                                                         *)
(* NoQuestionLost is not inductive.  That a question which arrives takes   *)
(* the slot of none but those it passed follows from the order of the      *)
(* frames: whatever open question of its kind it has not passed was asked  *)
(* behind it, and its frame is still to come (Order).  And without a       *)
(* connection nobody waits.  What a frame is about matters only if it is a *)
(* question or a reply, so of the two directions the invariant looks at    *)
(* the questions in them (Of).                                             *)
(***************************************************************************)
EXTENDS ChatPage, TLAPS

IsSeq(s) == s \in Seq({s[i] : i \in DOMAIN s})

\* The questions of the frames of kind k.
Of(s, k) == {s[i].q : i \in {j \in DOMAIN s : s[j].k = k}}

\* Behind a frame of kind k there is one for each question that V gives its question.
Order(s, k, V) ==
  \A i \in DOMAIN s : s[i].k = k => \A r \in V[s[i].q] :
    \E j \in DOMAIN s : j > i /\ s[j].k = k /\ s[j].q = r

AskIs(a) == a = [of |-> a.of, kind |-> a.kind, at |-> a.at, prev |-> a.prev] /\ a.kind \in Kinds
AsksTyped ==
  /\ asks = [q \in Questions |-> asks[q]]
  /\ \A q \in Questions : AskIs(asks[q])
  /\ slot = [kind \in Kinds |-> slot[kind]]
  /\ \A kind \in Kinds : slot[kind] \in Questions \cup {Nil}

\* The questions that may not lose the slot to q.
Rivals ==
  [q \in Questions |->
     {r \in Questions \ ({q} \cup passed) : asks[r].at = "open" /\ asks[r].kind = asks[q].kind}]

Frames ==
  /\ IsSeq(toPage) /\ IsSeq(toAgent)
  /\ Of(toPage, "ask") \subseteq {q \in Questions : asks[q].at # "none"}
  /\ Of(toAgent, "reply") \subseteq Questions
  /\ Order(toPage, "ask", Rivals)

NobodyWaits == ~sink => \A q \in Questions : asks[q].at # "open"

(* NoQuestionLost, in these terms. *)
NoneLost ==
  \A q \in Questions \ passed : asks[q].at = "open" =>
    q \in Of(toPage, "ask") \/ slot[asks[q].kind] = q \/ q \in Of(toAgent, "reply")

QInv == AsksTyped /\ Frames /\ NobodyWaits /\ NoneLost

-----------------------------------------------------------------------------
(* Sequences of frames. *)

LEMMA SeqIs ==
  ASSUME NEW S, NEW s \in Seq(S)
  PROVE  IsSeq(s)
  <1> DEFINE R == {s[i] : i \in DOMAIN s}
  <1>1. Len(s) \in Nat /\ s = [i \in 1 .. Len(s) |-> s[i]] /\ DOMAIN s = 1 .. Len(s)
    OBVIOUS
  <1>2. \A i \in 1 .. Len(s) : s[i] \in R BY <1>1
  <1> HIDE DEF R
  <1>3. [i \in 1 .. Len(s) |-> s[i]] \in Seq(R) BY <1>1, <1>2
  <1>4. s \in Seq(R) BY <1>1, <1>3
  <1> QED BY <1>4 DEF R, IsSeq

LEMMA AppendIs ==
  ASSUME NEW s, IsSeq(s), NEW e
  PROVE  /\ IsSeq(Append(s, e)) /\ Len(s) \in Nat /\ DOMAIN s = 1 .. Len(s)
         /\ DOMAIN Append(s, e) = 1 .. Len(s) + 1
         /\ \A i \in 1 .. Len(s) : Append(s, e)[i] = s[i]
         /\ Append(s, e)[Len(s) + 1] = e
  <1> DEFINE S == {s[i] : i \in DOMAIN s} \cup {e}
  <1>1. s \in Seq(S)
    <2>1. s \in Seq({s[i] : i \in DOMAIN s}) BY DEF IsSeq
    <2> QED BY <2>1
  <1>2. e \in S OBVIOUS
  <1> HIDE DEF S
  <1>3. /\ Append(s, e) \in Seq(S) /\ Len(s) \in Nat /\ DOMAIN s = 1 .. Len(s)
        /\ DOMAIN Append(s, e) = 1 .. Len(s) + 1
        /\ \A i \in 1 .. Len(s) : Append(s, e)[i] = s[i]
        /\ Append(s, e)[Len(s) + 1] = e
    BY <1>1, <1>2
  <1>4. IsSeq(Append(s, e))
    BY <1>3, SeqIs
  <1> QED BY <1>3, <1>4

LEMMA TailIs ==
  ASSUME NEW s, IsSeq(s), s # <<>>
  PROVE  /\ IsSeq(Tail(s)) /\ Len(s) \in Nat \ {0} /\ DOMAIN s = 1 .. Len(s)
         /\ DOMAIN Tail(s) = 1 .. Len(s) - 1 /\ Head(s) = s[1]
         /\ \A i \in 1 .. Len(s) - 1 : Tail(s)[i] = s[i + 1]
  <1> DEFINE S == {s[i] : i \in DOMAIN s}
  <1>1. s \in Seq(S) BY DEF IsSeq
  <1> HIDE DEF S
  <1>2. /\ Tail(s) \in Seq(S) /\ Len(s) \in Nat \ {0} /\ DOMAIN s = 1 .. Len(s)
        /\ DOMAIN Tail(s) = 1 .. Len(s) - 1 /\ Head(s) = s[1]
        /\ \A i \in 1 .. Len(s) - 1 : Tail(s)[i] = s[i + 1]
    BY <1>1
  <1>3. IsSeq(Tail(s))
    BY <1>2, SeqIs
  <1> QED BY <1>2, <1>3

\* A direction before and after, with the same frames of kind k in the same order.
Alike(s, t, k) ==
  IsSeq(t) /\ Of(t, k) = Of(s, k) /\ \A V : Order(s, k, V) => Order(t, k, V)

LEMMA AlikeSame ==
  ASSUME NEW s, IsSeq(s), NEW k
  PROVE  Alike(s, s, k)
  BY DEF Alike

LEMMA AlikeAppend ==
  ASSUME NEW s, IsSeq(s), NEW k, NEW e, e.k # k
  PROVE  Alike(s, Append(s, e), k)
  <1> DEFINE t == Append(s, e)
             n == Len(s) + 1
  <1>1. /\ IsSeq(t) /\ n \in Nat \ {0} /\ DOMAIN s = 1 .. n - 1 /\ DOMAIN t = 1 .. n
        /\ \A i \in 1 .. n - 1 : t[i] = s[i]
        /\ t[n] = e
    BY AppendIs
  <1> HIDE DEF t, n
  <1>2. DOMAIN t = DOMAIN s \cup {n} /\ n \notin DOMAIN s BY <1>1
  <1>3. Of(t, k) = Of(s, k) BY <1>1, <1>2 DEF Of
  <1>4. ASSUME NEW V, Order(s, k, V) PROVE Order(t, k, V)
    <2> SUFFICES ASSUME NEW i \in DOMAIN t, t[i].k = k, NEW r \in V[t[i].q]
                 PROVE  \E j \in DOMAIN t : j > i /\ t[j].k = k /\ t[j].q = r
      BY DEF Order
    <2>1. i \in DOMAIN s /\ t[i] = s[i] BY <1>1, <1>2
    <2>2. PICK j \in DOMAIN s : j > i /\ s[j].k = k /\ s[j].q = r
      BY <1>4, <2>1 DEF Order
    <2> QED BY <1>1, <1>2, <2>2
  <1> QED BY <1>1, <1>3, <1>4 DEF Alike, t

\* The head of a direction leaves it.
LEMMA OfTail ==
  ASSUME NEW s, IsSeq(s), s # <<>>, NEW k
  PROVE  /\ IsSeq(Tail(s)) /\ Of(Tail(s), k) \subseteq Of(s, k)
         /\ Of(s, k) \subseteq Of(Tail(s), k) \cup {Head(s).q}
         /\ Head(s).k = k => Head(s).q \in Of(s, k)
         /\ Head(s).k # k => Of(s, k) = Of(Tail(s), k)
         /\ \A V : Order(s, k, V) => Order(Tail(s), k, V)
         /\ \A V : Order(s, k, V) /\ Head(s).k = k => V[Head(s).q] \subseteq Of(Tail(s), k)
  <1> DEFINE t == Tail(s)
             n == Len(s)
  <1>1. /\ IsSeq(t) /\ n \in Nat \ {0} /\ DOMAIN s = 1 .. n
        /\ DOMAIN t = 1 .. n - 1 /\ Head(s) = s[1]
        /\ \A i \in 1 .. n - 1 : t[i] = s[i + 1]
    BY TailIs
  <1> HIDE DEF t, n
  <1>2. \A i \in DOMAIN t : i + 1 \in DOMAIN s /\ i + 1 # 1 /\ s[i + 1] = t[i]
    BY <1>1
  <1>3. \A i \in DOMAIN s : i # 1 => i - 1 \in DOMAIN t /\ t[i - 1] = s[i]
    BY <1>1
  <1>4. 1 \in DOMAIN s /\ Head(s) = s[1]
    BY <1>1
  <1>5. Of(t, k) \subseteq Of(s, k)
    BY <1>2 DEF Of
  <1>6. ASSUME NEW i \in DOMAIN s, s[i].k = k, i # 1 PROVE s[i].q \in Of(t, k)
    BY <1>3, <1>6 DEF Of
  <1>7. Of(s, k) \subseteq Of(t, k) \cup {Head(s).q}
    BY <1>4, <1>6 DEF Of
  <1>8. Head(s).k = k => Head(s).q \in Of(s, k)
    BY <1>4 DEF Of
  <1>9. Head(s).k # k => Of(s, k) \subseteq Of(t, k)
    BY <1>4, <1>6 DEF Of
  <1>10. ASSUME NEW V, Order(s, k, V) PROVE Order(t, k, V)
    <2> SUFFICES ASSUME NEW i \in DOMAIN t, t[i].k = k, NEW r \in V[t[i].q]
                 PROVE  \E j \in DOMAIN t : j > i /\ t[j].k = k /\ t[j].q = r
      BY DEF Order
    <2>1. PICK j \in DOMAIN s : j > i + 1 /\ s[j].k = k /\ s[j].q = r
      BY <1>2, <1>10 DEF Order
    <2>2. j \in Nat /\ i \in Nat BY <1>1
    <2>3. j # 1 /\ j - 1 > i BY <1>1, <2>1, <2>2
    <2> QED BY <1>3, <2>1, <2>3
  <1>11. ASSUME NEW V, Order(s, k, V), Head(s).k = k, NEW r \in V[Head(s).q] PROVE r \in Of(t, k)
    <2>1. PICK j \in DOMAIN s : j > 1 /\ s[j].k = k /\ s[j].q = r
      BY <1>4, <1>11 DEF Order
    <2>2. j # 1 BY <1>1, <2>1
    <2> QED BY <1>6, <2>1, <2>2
  <1> QED BY <1>1, <1>5, <1>7, <1>8, <1>9, <1>10, <1>11 DEF t

LEMMA AlikeTail ==
  ASSUME NEW s, IsSeq(s), s # <<>>, NEW k, Head(s).k # k
  PROVE  Alike(s, Tail(s), k)
  BY OfTail DEF Alike

\* A frame of kind k joins the others.
LEMMA OfAppend ==
  ASSUME NEW s, IsSeq(s), NEW k, NEW e, e.k = k
  PROVE  Of(Append(s, e), k) = Of(s, k) \cup {e.q}
  <1> DEFINE t == Append(s, e)
             n == Len(s) + 1
  <1>1. /\ IsSeq(t) /\ n \in Nat \ {0} /\ DOMAIN s = 1 .. n - 1 /\ DOMAIN t = 1 .. n
        /\ \A i \in 1 .. n - 1 : t[i] = s[i]
        /\ t[n] = e
    BY AppendIs
  <1> HIDE DEF t, n
  <1>2. DOMAIN t = DOMAIN s \cup {n} /\ n \notin DOMAIN s BY <1>1
  <1>3. Of(t, k) = Of(s, k) \cup {e.q}
    BY <1>1, <1>2 DEF Of
  <1> QED BY <1>1, <1>3 DEF t

\* It is behind all of them, and none is behind it.
LEMMA OrderAppend ==
  ASSUME NEW s, IsSeq(s), NEW k, NEW q, NEW e, e.k = k, e.q = q, NEW V, NEW W,
         Order(s, k, V), W[q] = {}, \A x \in Of(s, k) : W[x] \subseteq V[x] \cup {q}
  PROVE  Order(Append(s, e), k, W)
  <1> DEFINE t == Append(s, e)
             n == Len(s) + 1
  <1>1. /\ IsSeq(t) /\ n \in Nat \ {0} /\ DOMAIN s = 1 .. n - 1 /\ DOMAIN t = 1 .. n
        /\ \A i \in 1 .. n - 1 : t[i] = s[i]
        /\ t[n] = e
    BY AppendIs
  <1> HIDE DEF t, n
  <1>2. DOMAIN t = DOMAIN s \cup {n} /\ n \notin DOMAIN s BY <1>1
  <1> SUFFICES ASSUME NEW i \in DOMAIN t, t[i].k = k, NEW r \in W[t[i].q]
               PROVE  \E j \in DOMAIN t : j > i /\ t[j].k = k /\ t[j].q = r
    BY DEF Order, t
  <1>3. i # n BY <1>1
  <1>4. i \in DOMAIN s /\ t[i] = s[i] /\ n > i BY <1>1, <1>3
  <1>5. s[i].q \in Of(s, k) BY <1>4 DEF Of
  <1>6. CASE r = q BY <1>1, <1>4, <1>6
  <1>7. CASE r \in V[s[i].q]
    <2>1. PICK j \in DOMAIN s : j > i /\ s[j].k = k /\ s[j].q = r
      BY <1>4, <1>7 DEF Order
    <2> QED BY <1>1, <1>2, <2>1
  <1> QED BY <1>4, <1>5, <1>6, <1>7

\* Fewer have to be behind.
LEMMA OrderLess ==
  ASSUME NEW s, NEW k, NEW V, NEW W, Order(s, k, V), \A q \in Of(s, k) : W[q] \subseteq V[q]
  PROVE  Order(s, k, W)
  <1> SUFFICES ASSUME NEW i \in DOMAIN s, s[i].k = k, NEW r \in W[s[i].q]
               PROVE  \E j \in DOMAIN s : j > i /\ s[j].k = k /\ s[j].q = r
    BY DEF Order
  <1>1. s[i].q \in Of(s, k) BY DEF Of
  <1> QED BY <1>1 DEF Order

-----------------------------------------------------------------------------
(* Steps that are about no question. *)

LEMMA StillKeeps ==
  ASSUME QInv, UNCHANGED <<asks, slot, passed>>, sink => sink',
         Alike(toPage, toPage', "ask"), Alike(toAgent, toAgent', "reply")
  PROVE  QInv'
  <1>1. AsksTyped' BY DEF QInv, AsksTyped
  <1>2. Frames'
    <2>1. Rivals' = Rivals BY DEF Rivals
    <2> QED BY <2>1 DEF QInv, Frames, Alike
  <1>3. NobodyWaits' BY DEF QInv, NobodyWaits
  <1>4. NoneLost' BY DEF QInv, NoneLost, Alike
  <1> QED BY <1>1, <1>2, <1>3, <1>4 DEF QInv

\* What the page and the registry put on the line is no question and no reply.
LEMMA CallAgentAlike ==
  ASSUME IsSeq(toAgent), NEW C, NEW op, NEW s, NEW then, CallAgent(C, op, s, then)
  PROVE  Alike(toAgent, toAgent', "reply")
  <1>1. PICK e : e = [k |-> "call", c |-> CHOOSE x \in Calls : C[x].op = "none"]
    OBVIOUS
  <1>2. toAgent' = Append(toAgent, e) BY <1>1 DEF CallAgent
  <1>3. e.k # "reply" BY <1>1
  <1> QED BY <1>2, <1>3, AlikeAppend

LEMMA UserCallKeeps ==
  ASSUME QInv, NEW op, NEW s, NEW then, UserCall(op, s, then)
  PROVE  QInv'
  <1>1. CallAgent(call, op, s, then) /\ UNCHANGED <<asks, slot, passed, sink, toPage>>
    BY DEF UserCall, agent
  <1>2. IsSeq(toPage) /\ IsSeq(toAgent) BY DEF QInv, Frames
  <1>3. Alike(toAgent, toAgent', "reply") BY <1>1, <1>2, CallAgentAlike
  <1>4. Alike(toPage, toPage', "ask") BY <1>1, <1>2, AlikeSame
  <1> QED BY <1>1, <1>3, <1>4, StillKeeps

LEMMA RespondAlike ==
  ASSUME IsSeq(toPage), NEW c, NEW e, e.k # "ask", Respond(c, e)
  PROVE  Alike(toPage, toPage', "ask")
  BY AlikeSame, AlikeAppend DEF Respond

\* Steps of the turns and handlers that ask nothing.
LEMMA AgentKeeps ==
  ASSUME QInv,
         \/ Begins \/ Delta \/ MessageEnds \/ AgentEnds \/ TurnEnds \/ DisconnectTail \/ Attach
         \/ \E s \in Sessions : Activate(s) \/ Flush(s)
         \/ \E c \in Calls : Opened(c) \/ Created(c) \/ CallFails(c) \/ Aborted(c) \/ Released(c)
  PROVE  QInv'
  <1>0. IsSeq(toPage) /\ IsSeq(toAgent) BY DEF QInv, Frames
  <1>1. ASSUME UNCHANGED <<asks, slot, passed, toAgent>>, sink => sink', Alike(toPage, toPage', "ask")
        PROVE  QInv'
    BY <1>0, <1>1, AlikeSame, StillKeeps
  <1>2. ASSUME UNCHANGED <<asks, slot, passed, toAgent, toPage>>, sink => sink'
        PROVE  QInv'
    BY <1>0, <1>1, <1>2, AlikeSame
  <1>3. CASE Begins BY <1>2, <1>3 DEF Begins, link, ui
  <1>4. CASE Delta BY <1>2, <1>4 DEF Delta, link, ui
  <1>5. CASE MessageEnds BY <1>2, <1>5 DEF MessageEnds, link, ui
  <1>6. CASE TurnEnds BY <1>2, <1>6 DEF TurnEnds, link, ui, aux
  <1>16. CASE AgentEnds BY <1>2, <1>16 DEF AgentEnds, link, ui, aux
  <1>7. CASE DisconnectTail BY <1>2, <1>7 DEF DisconnectTail, ui
  <1>8. CASE Attach BY <1>2, <1>8 DEF Attach, agent, aux
  <1>9. ASSUME NEW s \in Sessions, Activate(s) PROVE QInv'
    BY <1>2, <1>9 DEF Activate, agent, link, aux
  <1>10. ASSUME NEW s \in Sessions, Flush(s) PROVE QInv'
    <2>1. PICK e : e = [k |-> "batch", s |-> s, events |-> feed[s]]
      OBVIOUS
    <2>2. toPage' = toPage \/ toPage' = Append(toPage, e)
      BY <1>10, <2>1 DEF Flush
    <2>3. e.k # "ask" BY <2>1
    <2>4. Alike(toPage, toPage', "ask") BY <1>0, <2>2, <2>3, AlikeSame, AlikeAppend
    <2> QED BY <1>1, <1>10, <2>4 DEF Flush, ui
  <1>11. ASSUME NEW c \in Calls, NEW e, e.k # "ask", Respond(c, e),
                UNCHANGED <<asks, slot, passed, toAgent, sink>>
         PROVE  QInv'
    BY <1>0, <1>1, <1>11, RespondAlike
  <1>12. ASSUME NEW c \in Calls, Opened(c) PROVE QInv'
    <2>1. PICK R : Respond(c, [k |-> "ok", c |-> c, tab |-> Snapshot(R, call[c].s)])
      BY <1>12 DEF Opened
    <2>2. [k |-> "ok", c |-> c, tab |-> Snapshot(R, call[c].s)].k # "ask"
      OBVIOUS
    <2>3. UNCHANGED <<asks, slot, passed, toAgent, sink>> BY <1>12 DEF Opened, ui
    <2> QED BY <1>11, <2>1, <2>2, <2>3
  <1>13. ASSUME NEW c \in Calls, Created(c) PROVE QInv'
    <2>1. PICK R, s : Respond(c, [k |-> "ok", c |-> c, tab |-> Snapshot(R, s)])
      BY <1>13 DEF Created
    <2>2. [k |-> "ok", c |-> c, tab |-> Snapshot(R, s)].k # "ask"
      OBVIOUS
    <2>3. UNCHANGED <<asks, slot, passed, toAgent, sink>> BY <1>13 DEF Created, ui, aux
    <2> QED BY <1>11, <2>1, <2>2, <2>3
  <1>14. ASSUME NEW c \in Calls, CallFails(c) PROVE QInv'
    <2>1. [k |-> "failed", c |-> c, tab |-> Nil].k # "ask"
      OBVIOUS
    <2> QED BY <1>11, <1>14, <2>1 DEF CallFails, agent, ui, aux
  <1>15. ASSUME NEW c \in Calls, Aborted(c) \/ Released(c) PROVE QInv'
    <2>1. [k |-> "ok", c |-> c, tab |-> Nil].k # "ask"
      OBVIOUS
    <2>2. /\ Respond(c, [k |-> "ok", c |-> c, tab |-> Nil])
          /\ UNCHANGED <<asks, slot, passed, toAgent, sink>>
      BY <1>15 DEF Aborted, Released, agent, ui, aux
    <2> QED BY <1>11, <2>1, <2>2
  <1> QED BY <1>3, <1>4, <1>5, <1>6, <1>7, <1>8, <1>9, <1>10, <1>12, <1>13, <1>14, <1>15, <1>16

LEMMA UserKeeps ==
  ASSUME QInv,
         \/ NewSession \/ SendMessage \/ StopOrCancel \/ RestoreNext
         \/ \E s \in Sessions : OpenRecent(s) \/ CloseSession(s)
  PROVE  QInv'
  <1>1. CASE NewSession BY <1>1, UserCallKeeps DEF NewSession
  <1>2. CASE SendMessage BY <1>2, UserCallKeeps DEF SendMessage
  <1>3. CASE StopOrCancel BY <1>3, UserCallKeeps DEF StopOrCancel
  <1>4. ASSUME NEW s \in Sessions, OpenRecent(s) PROVE QInv'
    BY <1>4, UserCallKeeps DEF OpenRecent
  <1>5. ASSUME NEW s \in Sessions, CloseSession(s) PROVE QInv'
    BY <1>5, UserCallKeeps DEF CloseSession
  <1>6. CASE RestoreNext
    <2>1. IsSeq(toPage) /\ IsSeq(toAgent) BY DEF QInv, Frames
    <2>2. UNCHANGED <<asks, slot, passed, sink, toPage>> BY <1>6 DEF RestoreNext, agent, aux
    <2>3. Alike(toAgent, toAgent', "reply")
      <3>1. CASE toAgent' = toAgent BY <2>1, <3>1, AlikeSame
      <3>2. ASSUME NEW op, NEW s, CallAgent(call, op, s, "restore")
            PROVE  Alike(toAgent, toAgent', "reply")
        BY <2>1, <3>2, CallAgentAlike
      <3> QED BY <1>6, <3>1, <3>2 DEF RestoreNext
    <2>4. Alike(toPage, toPage', "ask") BY <2>1, <2>2, AlikeSame
    <2> QED BY <2>2, <2>3, <2>4, StillKeeps
  <1> QED BY <1>1, <1>2, <1>3, <1>4, <1>5, <1>6

-----------------------------------------------------------------------------
(* Steps of a question. *)

LEMMA EmptyIs ==
  ASSUME NEW k
  PROVE  IsSeq(<<>>) /\ Of(<<>>, k) = {} /\ \A V : Order(<<>>, k, V)
  <1>1. <<>> \in Seq({}) /\ DOMAIN <<>> = {} OBVIOUS
  <1>2. IsSeq(<<>>) BY <1>1, SeqIs
  <1> QED BY <1>1, <1>2 DEF Of, Order

\* One question, or its end, at q: what becomes of its record.
LEMMA EndOfAsk ==
  ASSUME QInv, NEW q \in Questions, NEW at, asks' = [asks EXCEPT ![q].at = at]
  PROVE  /\ asks' = [r \in Questions |-> asks'[r]]
         /\ \A r \in Questions : AskIs(asks'[r]) /\ asks'[r].kind = asks[r].kind
         /\ \A r \in Questions \ {q} : asks'[r].at = asks[r].at
         /\ asks'[q].at = at
  <1>1. asks = [r \in Questions |-> asks[r]] /\ \A r \in Questions : AskIs(asks[r])
    BY DEF QInv, AsksTyped
  <1>2. /\ asks' = [r \in Questions |-> asks'[r]]
        /\ asks'[q] = [asks[q] EXCEPT !.at = at]
        /\ \A r \in Questions \ {q} : asks'[r] = asks[r]
    BY <1>1
  <1>3. asks'[q] = [of |-> asks[q].of, kind |-> asks[q].kind, at |-> at, prev |-> asks[q].prev]
    <2>1. asks[q] = [of |-> asks[q].of, kind |-> asks[q].kind, at |-> asks[q].at, prev |-> asks[q].prev]
      BY <1>1 DEF AskIs
    <2> QED BY <1>2, <2>1
  <1>4. AskIs(asks'[q]) /\ asks'[q].kind = asks[q].kind /\ asks'[q].at = at
    BY <1>1, <1>3 DEF AskIs
  <1> QED BY <1>1, <1>2, <1>4

\* The end of a question, however it comes.
LEMMA AskEndsKeeps ==
  ASSUME QInv, NEW q \in Questions, AskEnds(q),
         UNCHANGED <<slot, passed, sink, toPage>>,
         IsSeq(toAgent'), Of(toAgent', "reply") \subseteq Of(toAgent, "reply"),
         Of(toAgent, "reply") \subseteq Of(toAgent', "reply") \cup {q}
  PROVE  QInv'
  <1>1. asks' = [asks EXCEPT ![q].at = "done"] BY DEF AskEnds
  <1>2. /\ asks' = [r \in Questions |-> asks'[r]]
        /\ \A r \in Questions : AskIs(asks'[r]) /\ asks'[r].kind = asks[r].kind
        /\ \A r \in Questions \ {q} : asks'[r].at = asks[r].at
        /\ asks'[q].at = "done"
    BY <1>1, EndOfAsk
  <1>3. AsksTyped' BY <1>2 DEF QInv, AsksTyped
  <1>4. Frames'
    <2>1. \A x \in Of(toPage, "ask") : Rivals'[x] \subseteq Rivals[x]
      BY <1>2 DEF Rivals, QInv, Frames
    <2>2. Order(toPage, "ask", Rivals) BY DEF QInv, Frames
    <2>3. Order(toPage, "ask", Rivals') BY <2>1, <2>2, OrderLess
    <2> QED BY <1>2, <2>3 DEF QInv, Frames
  <1>5. NobodyWaits' BY <1>2 DEF QInv, NobodyWaits
  <1>6. NoneLost' BY <1>2 DEF QInv, NoneLost
  <1> QED BY <1>3, <1>4, <1>5, <1>6 DEF QInv

LEMMA AskFailsKeeps ==
  ASSUME QInv, NEW q \in Questions, AskFails(q)
  PROVE  QInv'
  <1>1. AskEnds(q) /\ UNCHANGED <<slot, passed, sink, toPage, toAgent>>
    BY DEF AskFails, link, ui, aux
  <1>2. IsSeq(toAgent') /\ Of(toAgent', "reply") = Of(toAgent, "reply")
    BY <1>1 DEF QInv, Frames
  <1> QED BY <1>1, <1>2, AskEndsKeeps

\* A question passes those of its kind that are open, and its frame is behind all others.
LEMMA AskKeeps ==
  ASSUME QInv, NEW q \in Questions, NEW kind \in Kinds, Ask(q, kind)
  PROVE  QInv'
  <1>1. PICK x : x = [of |-> turn.of, kind |-> kind, at |-> "open", prev |-> rec[turn.of].state]
    OBVIOUS
  <1>2. PICK e : e = [k |-> "ask", q |-> q]
    OBVIOUS
  <1>3. /\ asks[q].at = "none" /\ sink
        /\ asks' = [asks EXCEPT ![q] = x] /\ toPage' = Append(toPage, e)
        /\ passed' = passed \cup OpenAsks(kind)
        /\ UNCHANGED <<slot, sink, toAgent>>
    BY <1>1, <1>2 DEF Ask, ui
  <1>4. asks = [r \in Questions |-> asks[r]] BY DEF QInv, AsksTyped
  <1>5. /\ asks' = [r \in Questions |-> asks'[r]]
        /\ asks'[q] = x /\ \A r \in Questions \ {q} : asks'[r] = asks[r]
    BY <1>3, <1>4
  <1>6. AskIs(x) /\ x.at = "open" /\ x.kind = kind
    BY <1>1 DEF AskIs
  <1>7. AsksTyped' BY <1>3, <1>5, <1>6 DEF QInv, AsksTyped
  <1>8. q \notin Of(toPage, "ask") BY <1>3 DEF QInv, Frames
  <1>9. e.k = "ask" /\ e.q = q /\ IsSeq(toPage) BY <1>2 DEF QInv, Frames
  <1>10. IsSeq(toPage') /\ Of(toPage', "ask") = Of(toPage, "ask") \cup {q}
    <2>1. Of(Append(toPage, e), "ask") = Of(toPage, "ask") \cup {e.q} BY <1>9, OfAppend
    <2>2. IsSeq(Append(toPage, e)) BY <1>9, AppendIs
    <2> QED BY <1>3, <1>9, <2>1, <2>2
  <1>11. Frames'
    <2>1. Rivals'[q] = {}
      <3>1. ASSUME NEW r \in Questions \ ({q} \cup passed'), asks'[r].at = "open",
                   asks'[r].kind = asks'[q].kind
            PROVE  FALSE
        BY <1>3, <1>5, <1>6, <3>1 DEF OpenAsks
      <3> QED BY <3>1 DEF Rivals
    <2>2. \A y \in Of(toPage, "ask") : Rivals'[y] \subseteq Rivals[y] \cup {q}
      <3>1. Of(toPage, "ask") \subseteq Questions \ {q} BY <1>8 DEF QInv, Frames
      <3> QED BY <1>3, <1>5, <3>1 DEF Rivals
    <2>3. Order(toPage, "ask", Rivals) BY DEF QInv, Frames
    <2>4. Order(Append(toPage, e), "ask", Rivals')
      BY <1>9, <2>1, <2>2, <2>3, OrderAppend
    <2>5. Of(toPage', "ask") \subseteq {r \in Questions : asks'[r].at # "none"}
      BY <1>5, <1>6, <1>10 DEF QInv, Frames
    <2> QED BY <1>3, <1>10, <2>4, <2>5 DEF QInv, Frames
  <1>12. NobodyWaits' BY <1>3 DEF NobodyWaits
  <1>13. NoneLost'
    BY <1>3, <1>5, <1>10 DEF QInv, NoneLost
  <1> QED BY <1>7, <1>11, <1>12, <1>13 DEF QInv

LEMMA RespondKeeps ==
  ASSUME QInv, NEW kind \in Kinds, RespondToUser(kind)
  PROVE  QInv'
  <1>1. PICK e : e = [k |-> "reply", q |-> slot[kind]]
    OBVIOUS
  <1>2. /\ slot[kind] # Nil /\ slot' = [slot EXCEPT ![kind] = Nil]
        /\ toAgent' = IF sink THEN Append(toAgent, e) ELSE toAgent
        /\ UNCHANGED <<asks, passed, sink, toPage>>
    BY <1>1 DEF RespondToUser, agent, aux
  <1>3. slot[kind] \in Questions
    BY <1>2 DEF QInv, AsksTyped
  <1>4. slot = [x \in Kinds |-> slot[x]] BY DEF QInv, AsksTyped
  <1>5. /\ slot' = [x \in Kinds |-> slot'[x]]
        /\ slot'[kind] = Nil /\ \A x \in Kinds \ {kind} : slot'[x] = slot[x]
    BY <1>2, <1>4
  <1>6. AsksTyped' BY <1>2, <1>5 DEF QInv, AsksTyped
  <1>7. NobodyWaits' BY <1>2 DEF QInv, NobodyWaits
  <1>8. Rivals' = Rivals BY <1>2 DEF Rivals
  <1>9. CASE sink
    <2>1. IsSeq(toAgent') /\ Of(toAgent', "reply") = Of(toAgent, "reply") \cup {slot[kind]}
      <3>1. e.k = "reply" /\ e.q = slot[kind] /\ IsSeq(toAgent) BY <1>1 DEF QInv, Frames
      <3>2. toAgent' = Append(toAgent, e) BY <1>2, <1>9
      <3>3. Of(Append(toAgent, e), "reply") = Of(toAgent, "reply") \cup {e.q} BY <3>1, OfAppend
      <3>4. IsSeq(Append(toAgent, e)) BY <3>1, AppendIs
      <3> QED BY <3>1, <3>2, <3>3, <3>4
    <2>2. Frames' BY <1>2, <1>3, <1>8, <2>1 DEF QInv, Frames
    <2>3. ASSUME NEW q \in Questions \ passed, asks[q].at = "open"
          PROVE  q \in Of(toPage, "ask") \/ slot'[asks[q].kind] = q \/ q \in Of(toAgent', "reply")
      <3>1. asks[q].kind \in Kinds BY DEF QInv, AsksTyped, AskIs
      <3>2. q \in Of(toPage, "ask") \/ slot[asks[q].kind] = q \/ q \in Of(toAgent, "reply")
        BY <2>3 DEF QInv, NoneLost
      <3> QED BY <1>5, <2>1, <3>1, <3>2
    <2>4. NoneLost' BY <1>2, <2>3 DEF NoneLost
    <2> QED BY <1>6, <1>7, <2>2, <2>4 DEF QInv
  <1>10. CASE ~sink
    <2>1. \A q \in Questions : asks[q].at # "open" BY <1>10 DEF QInv, NobodyWaits
    <2>2. Frames' BY <1>2, <1>8, <1>10 DEF QInv, Frames
    <2>3. NoneLost' BY <1>2, <2>1 DEF NoneLost
    <2> QED BY <1>6, <1>7, <2>2, <2>3 DEF QInv
  <1> QED BY <1>9, <1>10

LEMMA VoidKeeps ==
  ASSUME QInv, Disconnect, slot' \in {slot, NoSlots}
  PROVE  QInv'
  <1>1. asks' = Void(asks) /\ toPage' = <<>> /\ toAgent' = <<>> /\ sink' = FALSE
    BY DEF Disconnect
  <1>2. /\ asks' = [q \in Questions |-> asks'[q]]
        /\ \A q \in Questions :
             asks'[q] = IF asks[q].at = "open" THEN [asks[q] EXCEPT !.at = "void"] ELSE asks[q]
    BY <1>1 DEF Void
  <1>3. ASSUME NEW q \in Questions
        PROVE  AskIs(asks'[q]) /\ asks'[q].at # "open"
    <2>1. AskIs(asks[q])
      BY DEF QInv, AsksTyped
    <2>2. CASE asks[q].at = "open"
      <3>1. asks'[q] = [of |-> asks[q].of, kind |-> asks[q].kind, at |-> "void", prev |-> asks[q].prev]
        <4>1. asks[q] = [of |-> asks[q].of, kind |-> asks[q].kind, at |-> asks[q].at, prev |-> asks[q].prev]
          BY <2>1 DEF AskIs
        <4> QED BY <1>2, <2>2, <4>1
      <3> QED BY <2>1, <3>1 DEF AskIs
    <2>3. CASE asks[q].at # "open"
      BY <1>2, <2>1, <2>3
    <2> QED BY <2>2, <2>3
  <1>4. AsksTyped'
    <2>1. NoSlots = [kind \in Kinds |-> NoSlots[kind]] /\ \A kind \in Kinds : NoSlots[kind] = Nil
      BY DEF NoSlots
    <2> QED BY <1>2, <1>3, <2>1 DEF QInv, AsksTyped
  <1>5. Frames' BY <1>1, EmptyIs DEF Frames
  <1>6. NobodyWaits' BY <1>3 DEF NobodyWaits
  <1>7. NoneLost' BY <1>3 DEF NoneLost
  <1> QED BY <1>4, <1>5, <1>6, <1>7 DEF QInv

-----------------------------------------------------------------------------
(* What arrives. *)

LEMMA ReceiveKeeps ==
  ASSUME QInv, Receive
  PROVE  QInv'
  <1> DEFINE f == Head(toAgent)
             c == f.c
  <1>1. /\ toAgent # <<>> /\ toAgent' = Tail(toAgent) /\ UNCHANGED <<slot, passed, sink>>
        /\ IsSeq(toAgent) /\ IsSeq(toPage)
    BY DEF Receive, ui, QInv, Frames
  <1>2. CASE f.k = "call" /\ UNCHANGED asks
             /\ \E op, s : \/ SendChatMessage(c, s) \/ CancelQueuedTurn(c, s) \/ AbortChatTurn(c, s)
                           \/ ReleaseChatSession(c, s) \/ Waits(c)
    <2>1. PICK a, r : a = [k |-> "ok", c |-> c, tab |-> Nil] /\ r = [k |-> "failed", c |-> c, tab |-> Nil]
      OBVIOUS
    <2>2. a.k # "ask" /\ r.k # "ask" BY <2>1
    <2>3. Answer(c, toPage) = Append(toPage, a) /\ (Refuse(c) => toPage' = Append(toPage, r))
      BY <2>1 DEF Answer, Refuse
    <2> HIDE DEF f, c
    <2>4. toPage' = toPage \/ toPage' = Append(toPage, a) \/ toPage' = Append(toPage, r)
      BY <1>2, <2>3 DEF SendChatMessage, CancelQueuedTurn, AbortChatTurn, ReleaseChatSession, Waits
    <2>5. Alike(toPage, toPage', "ask") BY <1>1, <2>2, <2>4, AlikeSame, AlikeAppend
    <2>6. Alike(toAgent, toAgent', "reply") BY <1>1, <1>2, AlikeTail DEF f
    <2> QED BY <1>1, <1>2, <2>5, <2>6, StillKeeps
  <1>3. CASE /\ f.k = "reply" /\ UNCHANGED toPage
             /\ IF asks[f.q].at = "open" THEN AskEnds(f.q) ELSE UNCHANGED asks
    <2>1. /\ IsSeq(toAgent') /\ Of(toAgent', "reply") \subseteq Of(toAgent, "reply")
          /\ Of(toAgent, "reply") \subseteq Of(toAgent', "reply") \cup {f.q}
          /\ f.q \in Of(toAgent, "reply")
      BY <1>1, <1>3, OfTail
    <2>2. f.q \in Questions BY <2>1 DEF QInv, Frames
    <2> HIDE DEF f
    <2>3. CASE asks[f.q].at = "open"
      BY <1>1, <1>3, <2>1, <2>2, <2>3, AskEndsKeeps
    <2>4. CASE asks[f.q].at # "open"
      <3>1. UNCHANGED <<asks, slot, passed, sink, toPage>> BY <1>1, <1>3, <2>4
      <3>2. AsksTyped' BY <3>1 DEF QInv, AsksTyped
      <3>3. Frames'
        <4>1. Rivals' = Rivals BY <3>1 DEF Rivals
        <4> QED BY <2>1, <3>1, <4>1 DEF QInv, Frames
      <3>4. NobodyWaits' BY <3>1 DEF QInv, NobodyWaits
      <3>5. NoneLost' BY <2>1, <2>4, <3>1 DEF QInv, NoneLost
      <3> QED BY <3>2, <3>3, <3>4, <3>5 DEF QInv
    <2> QED BY <2>3, <2>4
  <1>4. \/ f.k = "call" /\ UNCHANGED asks
           /\ \E op, s : \/ SendChatMessage(c, s) \/ CancelQueuedTurn(c, s) \/ AbortChatTurn(c, s)
                         \/ ReleaseChatSession(c, s) \/ Waits(c)
        \/ /\ f.k = "reply" /\ UNCHANGED toPage
           /\ IF asks[f.q].at = "open" THEN AskEnds(f.q) ELSE UNCHANGED asks
    BY DEF Receive
  <1> QED BY <1>2, <1>3, <1>4

LEMMA PageReceivesKeeps ==
  ASSUME QInv, PageReceives
  PROVE  QInv'
  <1> DEFINE f == Head(toPage)
  <1>1. /\ toPage # <<>> /\ toPage' = Tail(toPage) /\ UNCHANGED <<asks, passed, sink>>
        /\ IsSeq(toPage) /\ IsSeq(toAgent)
        /\ \/ f.k = "batch" /\ BatchArrives(f)
           \/ f.k = "ask" /\ QuestionArrives(f)
           \/ f.k \in {"ok", "failed"} /\ AnswerArrives(f)
    BY DEF PageReceives, agent, QInv, Frames
  <1>2. CASE f.k = "batch" /\ BatchArrives(f)
    <2>1. UNCHANGED <<slot, toAgent>> BY <1>2 DEF BatchArrives, ApplyBatch
    <2>2. Alike(toPage, toPage', "ask") BY <1>1, <1>2, AlikeTail
    <2>3. Alike(toAgent, toAgent', "reply") BY <1>1, <2>1, AlikeSame
    <2> QED BY <1>1, <2>1, <2>2, <2>3, StillKeeps
  <1>3. CASE f.k = "ask" /\ QuestionArrives(f)
    <2>1. slot' = [slot EXCEPT ![asks[f.q].kind] = f.q] /\ UNCHANGED toAgent
      BY <1>3 DEF QuestionArrives
    <2>2. /\ IsSeq(toPage') /\ Of(toPage', "ask") \subseteq Of(toPage, "ask")
          /\ Of(toPage, "ask") \subseteq Of(toPage', "ask") \cup {f.q}
          /\ f.q \in Of(toPage, "ask")
          /\ \A V : Order(toPage, "ask", V) => Order(toPage', "ask", V)
      BY <1>1, <1>3, OfTail
    <2>3. Rivals[f.q] \subseteq Of(toPage', "ask")
      BY <1>1, <1>3, OfTail DEF QInv, Frames
    <2> HIDE DEF f
    <2>4. f.q \in Questions /\ asks[f.q].kind \in Kinds
      BY <2>2 DEF QInv, Frames, AsksTyped, AskIs
    <2>5. slot = [kind \in Kinds |-> slot[kind]] BY DEF QInv, AsksTyped
    <2>6. /\ slot' = [kind \in Kinds |-> slot'[kind]]
          /\ slot'[asks[f.q].kind] = f.q
          /\ \A kind \in Kinds \ {asks[f.q].kind} : slot'[kind] = slot[kind]
      BY <2>1, <2>4, <2>5
    <2>7. AsksTyped' BY <1>1, <2>4, <2>6 DEF QInv, AsksTyped
    <2>8. Frames'
      <3>1. Rivals' = Rivals BY <1>1 DEF Rivals
      <3> QED BY <1>1, <2>1, <2>2, <3>1 DEF QInv, Frames
    <2>9. NobodyWaits' BY <1>1 DEF QInv, NobodyWaits
    <2>10. ASSUME NEW q \in Questions \ passed, asks[q].at = "open"
           PROVE  q \in Of(toPage', "ask") \/ slot'[asks[q].kind] = q \/ q \in Of(toAgent, "reply")
      <3>1. CASE q = f.q BY <2>6, <3>1
      <3>2. CASE q # f.q /\ asks[q].kind = asks[f.q].kind
        <4>1. q \in Rivals[f.q] BY <2>4, <2>10, <3>2 DEF Rivals
        <4> QED BY <2>3, <4>1
      <3>3. CASE q # f.q /\ asks[q].kind # asks[f.q].kind
        <4>1. asks[q].kind \in Kinds BY DEF QInv, AsksTyped, AskIs
        <4>2. q \in Of(toPage, "ask") \/ slot[asks[q].kind] = q \/ q \in Of(toAgent, "reply")
          BY <2>10 DEF QInv, NoneLost
        <4> QED BY <2>2, <2>6, <3>3, <4>1, <4>2
      <3> QED BY <3>1, <3>2, <3>3
    <2>11. NoneLost' BY <1>1, <2>1, <2>10 DEF NoneLost
    <2> QED BY <2>7, <2>8, <2>9, <2>11 DEF QInv
  <1>4. CASE f.k \in {"ok", "failed"} /\ AnswerArrives(f)
    <2>1. UNCHANGED slot BY <1>4 DEF AnswerArrives
    <2>2. Alike(toPage, toPage', "ask") BY <1>1, <1>4, AlikeTail
    <2> HIDE DEF f
    <2>3. \/ toAgent' = toAgent
          \/ \E C, op, s, then : CallAgent(C, op, s, then)
      BY <1>4 DEF AnswerArrives, Removed
    <2>4. Alike(toAgent, toAgent', "reply") BY <1>1, <2>3, AlikeSame, CallAgentAlike
    <2> QED BY <1>1, <2>1, <2>2, <2>4, StillKeeps
  <1> QED BY <1>1, <1>2, <1>3, <1>4

-----------------------------------------------------------------------------
LEMMA InitQInv ==
  Init => QInv
  <1> SUFFICES ASSUME Init PROVE QInv
    OBVIOUS
  <1>1. /\ asks = [q \in Questions |-> NoAsk] /\ toPage = <<>> /\ toAgent = <<>> /\ slot = NoSlots
    BY DEF Init
  <1>2. \A q \in Questions : asks[q] = NoAsk /\ NoAsk.at = "none" /\ AskIs(NoAsk)
    BY <1>1 DEF NoAsk, AskIs, Kinds
  <1>3. AsksTyped BY <1>1, <1>2 DEF AsksTyped, NoSlots
  <1>4. Frames BY <1>1, EmptyIs DEF Frames
  <1>5. NobodyWaits BY <1>2 DEF NobodyWaits
  <1>6. NoneLost BY <1>2 DEF NoneLost
  <1> QED BY <1>3, <1>4, <1>5, <1>6 DEF QInv

LEMMA NextQInv ==
  QInv /\ [Next]_vars => QInv'
  <1> SUFFICES ASSUME QInv, [Next]_vars PROVE QInv'
    OBVIOUS
  <1>1. CASE UNCHANGED vars
    <2>1. UNCHANGED <<asks, slot, passed, sink, toPage, toAgent>> BY <1>1 DEF vars, agent, link, ui, aux
    <2>2. IsSeq(toPage) /\ IsSeq(toAgent) BY DEF QInv, Frames
    <2> QED BY <2>1, <2>2, AlikeSame, StillKeeps
  <1>2. CASE Turns
    BY <1>2, AgentKeeps, AskKeeps, AskFailsKeeps DEF Turns
  <1>3. CASE Handlers
    BY <1>3, AgentKeeps, ReceiveKeeps DEF Handlers
  <1>4. CASE User
    BY <1>4, AgentKeeps, UserKeeps, RespondKeeps DEF User
  <1>5. CASE Link
    <2>1. Drop => Disconnect /\ slot' \in {slot, NoSlots} BY DEF Drop
    <2>2. Reload => Disconnect /\ slot' \in {slot, NoSlots} BY DEF Reload
    <2> QED BY <1>5, <2>1, <2>2, AgentKeeps, VoidKeeps DEF Link
  <1>6. CASE PageReceives BY <1>6, PageReceivesKeeps
  <1>7. CASE RestoreNext BY <1>7, UserKeeps
  <1>8. CASE \E s \in Sessions : Flush(s) BY <1>8, AgentKeeps
  <1> QED BY <1>1, <1>2, <1>3, <1>4, <1>5, <1>6, <1>7, <1>8 DEF Next

(* Where the questions of the turns can be, however many are open at once: *)
(* behind a question's frame there is that of every open one of its kind   *)
(* it has not passed, the slot of a kind is taken by that kind only, and   *)
(* nobody waits without a connection (chatSessionRegistry.ts:921-1051, and *)
(* disconnect; App.tsx:369-378).                                           *)
THEOREM QuestionsInvariant == Spec => []QInv
  <1> QED BY InitQInv, NextQInv, PTL DEF Spec

(* A question the agent waits for is on its way to the page, shown there,  *)
(* or its answer is on its way back, whatever batches, answers, drops,     *)
(* reloads and questions of the other kind come between, unless a later    *)
(* one of its kind was asked while it was open (App.tsx:369-378, 853-873). *)
THEOREM NoQuestionLostHolds == Spec => []NoQuestionLost
  <1>1. ASSUME QInv PROVE NoQuestionLost
    <2>1. \A q : q \in Of(toPage, "ask") => Asked(q)
      BY DEF Of, Asked
    <2>2. \A q : q \in Of(toAgent, "reply") => Replied(q)
      BY DEF Of, Replied
    <2> QED BY <1>1, <2>1, <2>2 DEF QInv, NoneLost, NoQuestionLost
  <1> QED BY <1>1, QuestionsInvariant, PTL
=============================================================================
