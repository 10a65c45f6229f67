------------------------- MODULE ChatSessionsProofs -------------------------
(***************************************************************************)
(* For every number of sessions, messages, calls and questions:            *)
(* ChatSessions keeps its types, runs its turns one at a time, keeps its   *)
(* line consistent and implements TurnQueue; the runtime of a prompted     *)
(* turn is live, and the records hold as few as RuntimeBound says.         *)
(*                                                                         *)
(* IInv is the inductive invariant: TypeOK, SerialTurns and QueueInv say   *)
(* nothing of a session or record that a waiting or running turn, a        *)
(* suspended call or an open question holds, and the actions look records  *)
(* up through them.  PInv adds which record has which runtime, BInv who is *)
(* busy and how many sessions have a runtime.                              *)
(***************************************************************************)
EXTENDS ChatSessions, FiniteSetTheorems, TLAPS

Waiting == {"queued"} \cup InFlight

LineOf(q) == {q[i] : i \in DOMAIN q}

(* The line q and the turns T agree.                                       *)
Consistent(q, T) ==
    /\ q \in Seq(Messages)
    /\ T \in [Messages -> TurnType]
    /\ \A m \in Messages : T[m].phase = "queued" <=> m \in LineOf(q)
    /\ \A i, j \in DOMAIN q : q[i] = q[j] => i = j
    /\ \A m, n \in LineOf(q) : T[m].session = T[n].session => m = n
    /\ \A m \in Messages : T[m].phase \in Waiting => T[m].session \in Sessions
    /\ \A m \in Messages : T[m].phase \in InFlight => T[m].record \in Records

(* The slot holds the only turn in flight, it is not refused a turn, and   *)
(* its session has nothing in the line q.                                  *)
Slot(act, q, T) ==
    /\ act \in Messages \cup {Nil}
    /\ \A m \in Messages : T[m].phase \in InFlight <=> m = act
    /\ act = Nil => q = <<>>
    /\ act # Nil => \A n \in LineOf(q) : T[n].session # T[act].session

(* A suspended call x knows its session and its record.                    *)
GoodCall(x) ==
    /\ x.phase \in {"creating", "evicting", "applying", "disposing"}
          => x.session \in Sessions /\ x.record \in Records
    /\ x.phase = "lookup" /\ x.op = "open" => x.session \in Sessions

CallsHold == \A c \in Calls : GoodCall(calls[c])

QuestionsHold ==
    \A a \in Questions : asks[a].kind # "none" => asks[a].record \in Records

(* The inductive invariant.                                                *)
IInv ==
    /\ TypeOK
    /\ Consistent(queue, turn)
    /\ Slot(active, queue, turn)
    /\ CallsHold
    /\ QuestionsHold

-----------------------------------------------------------------------------
(* Taking the element at i out of a sequence.                              *)
LEMMA RemoveElement ==
    ASSUME NEW S, NEW q \in Seq(S), NEW i \in DOMAIN q
    PROVE  LET rest == SubSeq(q, 1, i - 1) \o SubSeq(q, i + 1, Len(q))
           IN /\ rest \in Seq(S)
              /\ DOMAIN rest = 1..(Len(q) - 1)
              /\ \A k \in DOMAIN rest : rest[k] = IF k < i THEN q[k] ELSE q[k + 1]
  <1> DEFINE before == SubSeq(q, 1, i - 1)
             behind == SubSeq(q, i + 1, Len(q))
  <1>1. i \in 1..Len(q)
    OBVIOUS
  <1>2. /\ before \in Seq(S)
        /\ Len(before) = i - 1
        /\ \A k \in 1..(i - 1) : before[k] = q[k]
    BY <1>1
  <1>3. /\ behind \in Seq(S)
        /\ Len(behind) = Len(q) - i
        /\ \A k \in 1..(Len(q) - i) : behind[k] = q[i + k]
    BY <1>1
  <1> HIDE DEF before, behind
  <1>4. /\ before \o behind \in Seq(S)
        /\ Len(before \o behind) = Len(q) - 1
        /\ DOMAIN (before \o behind) = 1..(Len(q) - 1)
    BY <1>1, <1>2, <1>3
  <1>5. ASSUME NEW k \in 1..(Len(q) - 1)
        PROVE  (before \o behind)[k] = IF k < i THEN q[k] ELSE q[k + 1]
    BY <1>1, <1>2, <1>3, SMTT(60)
  <1>6. QED
    BY <1>4, <1>5 DEF before, behind

(* The part of a sequence behind the position i.                           *)
LEMMA Behind ==
    ASSUME NEW S, NEW q \in Seq(S), NEW i \in DOMAIN q
    PROVE  LET rest == SubSeq(q, i + 1, Len(q))
           IN /\ rest \in Seq(S)
              /\ DOMAIN rest = 1..(Len(q) - i)
              /\ \A k \in DOMAIN rest : rest[k] = q[i + k]
  OBVIOUS

(* The records after #updateQueuePositions have the type of records.       *)
LEMMA MarkQueuedType ==
    ASSUME NEW R \in [Records -> RecordType], NEW q, NEW T
    PROVE  MarkQueued(R, q, T) \in [Records -> RecordType]
  BY DEF MarkQueued, RecordType, SessionStates


-----------------------------------------------------------------------------
(* A turn that ended is neither waiting nor in flight.                     *)
LEMMA EndedType ==
    ASSUME NEW t \in TurnType, NEW phase \in {"done", "dropped"}
    PROVE  Ended(t, phase) \in TurnType /\ Ended(t, phase).phase = phase
  BY DEF Ended, TurnType, TurnPhases

(* drainQueue with a free slot leaves a consistent line and at most one    *)
(* turn in flight.                                                         *)
LEMMA DrainFreeKeeps ==
    ASSUME ChatAssumption, TypeOK,
           NEW q, NEW T, NEW R \in [Records -> RecordType],
           Consistent(q, T),
           \A m \in Messages : T[m].phase \notin InFlight,
           DrainFree(q, R, T)
    PROVE  /\ rec' \in [Records -> RecordType]
           /\ Consistent(queue', turn')
           /\ Slot(active', queue', turn')
  <1> DEFINE startable == {i \in DOMAIN q : records[T[q[i]].session] # Nil}
  <1>1. CASE /\ startable = {}
             /\ queue' = <<>>
             /\ active' = Nil
             /\ rec' = R
             /\ turn' = [m \in Messages |->
                    IF \E i \in DOMAIN q : q[i] = m THEN Ended(T[m], "dropped") ELSE T[m]]
    <2>1. turn' \in [Messages -> TurnType]
      BY <1>1, EndedType DEF Consistent
    <2>2. \A m \in Messages : turn'[m].phase \notin Waiting
      BY <1>1, EndedType DEF Consistent, Waiting, InFlight, LineOf
    <2>3. LineOf(queue') = {} /\ queue' \in Seq(Messages) /\ DOMAIN queue' = {}
      BY <1>1 DEF LineOf
    <2>4. QED
      BY <1>1, <2>1, <2>2, <2>3 DEF Consistent, Slot, Waiting, ChatAssumption
  <1>2. CASE \E i \in startable :
            LET m == q[i]
                r == records[T[m].session]
                rest == SubSeq(q, i + 1, Len(q))
            IN /\ IsFirst(i, startable)
               /\ queue' = rest
               /\ active' = m
               /\ rec' = MarkQueued([R EXCEPT ![r].state = "running"], rest, T)
               /\ turn' = [x \in Messages |->
                    IF x = m
                      THEN IF R[r].runtime = Nil
                             THEN [T[m] EXCEPT !.phase = "ensuring", !.record = r]
                             ELSE Captured([T[m] EXCEPT !.record = r], R[r].runtime)
                      ELSE IF \E j \in 1..(i - 1) : q[j] = x
                             THEN Ended(T[x], "dropped")
                             ELSE T[x]]
    <2>0. PICK i \in startable :
            LET m == q[i]
                r == records[T[m].session]
                rest == SubSeq(q, i + 1, Len(q))
            IN /\ IsFirst(i, startable)
               /\ queue' = rest
               /\ active' = m
               /\ rec' = MarkQueued([R EXCEPT ![r].state = "running"], rest, T)
               /\ turn' = [x \in Messages |->
                    IF x = m
                      THEN IF R[r].runtime = Nil
                             THEN [T[m] EXCEPT !.phase = "ensuring", !.record = r]
                             ELSE Captured([T[m] EXCEPT !.record = r], R[r].runtime)
                      ELSE IF \E j \in 1..(i - 1) : q[j] = x
                             THEN Ended(T[x], "dropped")
                             ELSE T[x]]
      BY <1>2
    <2> DEFINE m == q[i]
               r == records[T[m].session]
               rest == SubSeq(q, i + 1, Len(q))
    <2>1. /\ i \in DOMAIN q /\ i \in 1..Len(q) /\ m \in Messages /\ q \in Seq(Messages)
          /\ T \in [Messages -> TurnType] /\ Len(q) \in Nat /\ DOMAIN q = 1..Len(q)
      BY DEF Consistent
    <2>2. /\ m \in LineOf(q) /\ T[m].phase = "queued"
          /\ T[m].session \in Sessions /\ r \in Records
      BY <2>1 DEF Consistent, LineOf, Waiting, TypeOK
    <2>3. /\ rest \in Seq(Messages)
          /\ DOMAIN rest = 1..(Len(q) - i)
          /\ \A k \in DOMAIN rest : rest[k] = q[i + k] /\ i + k \in DOMAIN q
      <3> HIDE DEF startable
      <3>1. /\ rest \in Seq(Messages)
            /\ DOMAIN rest = 1..(Len(q) - i)
            /\ \A k \in DOMAIN rest : rest[k] = q[i + k]
        BY <2>1, Behind, SMTT(60)
      <3> HIDE DEF rest
      <3>2. \A k \in 1..(Len(q) - i) : i + k \in 1..Len(q)
        BY <2>1
      <3>3. QED
        BY <2>1, <3>1, <3>2, Zenon
    <2>4. rec' \in [Records -> RecordType]
      <3>1. [R EXCEPT ![r].state = "running"] \in [Records -> RecordType]
        BY ZenonT(60) DEF RecordType, SessionStates
      <3>2. QED
        BY <2>0, <3>1, MarkQueuedType
    <2>5. /\ turn' \in [Messages -> TurnType]
          /\ turn'[m].phase \in InFlight /\ turn'[m].record = r
          /\ turn'[m].session = T[m].session
      <3>1. R[r].runtime \in Runtimes \cup {Nil}
        BY <2>2 DEF RecordType
      <3>2. turn'[m] = IF R[r].runtime = Nil
                         THEN [T[m] EXCEPT !.phase = "ensuring", !.record = r]
                         ELSE Captured([T[m] EXCEPT !.record = r], R[r].runtime)
        BY <2>0, <2>1
      <3> DEFINE u == turn'[m]
      <3>3. T[m] \in TurnType
        BY <2>1
      <3>4. u \in {[T[m] EXCEPT !.phase = "ensuring", !.record = r],
                   Captured([T[m] EXCEPT !.record = r], R[r].runtime)}
        BY <3>2
      <3>5. u \in TurnType /\ u.phase \in InFlight /\ u.record = r /\ u.session = T[m].session
        <4> DEFINE t == T[m]
                   rt == R[r].runtime
        <4>1. /\ t \in TurnType /\ r \in Records /\ rt \in Runtimes \cup {Nil}
              /\ u \in {[t EXCEPT !.phase = "ensuring", !.record = r],
                        Captured([t EXCEPT !.record = r], rt)}
          BY <3>1, <3>3, <3>4, <2>2
        <4> HIDE DEF u, t, rt, r
        <4>2. u \in TurnType /\ u.phase \in InFlight /\ u.record = r /\ u.session = t.session
          BY <4>1, ZenonT(60) DEF TurnType, TurnPhases, Captured, InFlight
        <4>3. QED
          BY <4>2 DEF t
      <3>6. \A x \in Messages : x # m => turn'[x] \in {Ended(T[x], "dropped"), T[x]}
        BY <2>0, <2>1
      <3>7. \A x \in Messages : T[x] \in TurnType /\ Ended(T[x], "dropped") \in TurnType
        BY <2>1, EndedType
      <3>8. \A x \in Messages : turn'[x] \in TurnType
        BY <3>5, <3>6, <3>7
      <3>9. turn' = [x \in Messages |-> turn'[x]]
        BY <2>0
      <3>10. QED
        BY <3>5, <3>8, <3>9
    <2>6. \A x \in LineOf(rest) : /\ x \in Messages /\ x # m /\ turn'[x] = T[x]
                                  /\ x \in LineOf(q)
      <3>0. SUFFICES ASSUME NEW k \in DOMAIN rest
                     PROVE  LET x == rest[k]
                            IN /\ x \in Messages /\ x # m
                               /\ turn'[x] = T[x] /\ x \in LineOf(q)
        BY DEF LineOf
      <3>1. /\ rest[k] = q[i + k] /\ i + k \in DOMAIN q /\ k \in 1..(Len(q) - i)
            /\ i + k # i /\ rest[k] \in Messages
        BY <2>3, <2>1
      <3>2. rest[k] # m
        BY <3>1, <2>1 DEF Consistent
      <3>3. ASSUME NEW j \in 1..(i - 1), q[j] = rest[k]
            PROVE  FALSE
        <4>1. j \in DOMAIN q /\ j # i + k
          BY <2>1, <3>1
        <4>2. QED
          BY <4>1, <3>1, <3>3 DEF Consistent
      <3>4. turn'[rest[k]] = T[rest[k]]
        BY <2>0, <3>1, <3>2, <3>3
      <3>5. rest[k] \in LineOf(q)
        BY <3>1 DEF LineOf
      <3>6. QED
        BY <3>1, <3>2, <3>4, <3>5
    <2>7. \A x \in Messages : x # m /\ x \notin LineOf(rest) => turn'[x].phase \notin Waiting
      <3>0. SUFFICES ASSUME NEW x \in Messages, x # m, x \notin LineOf(rest)
                   PROVE  turn'[x].phase \notin Waiting
        OBVIOUS
      <3>1. CASE \E j \in 1..(i - 1) : q[j] = x
        <4>1. turn'[x] = Ended(T[x], "dropped") /\ T[x] \in TurnType
          BY <2>0, <2>1, <3>0, <3>1
        <4>2. QED
          BY <4>1, EndedType DEF Waiting, InFlight
      <3>2. CASE ~ \E j \in 1..(i - 1) : q[j] = x
        <4>1. turn'[x] = T[x]
          BY <2>0, <3>0, <3>2
        <4>2. x \notin LineOf(q)
          <5>0. SUFFICES ASSUME NEW j \in DOMAIN q, q[j] = x
                       PROVE FALSE
            BY DEF LineOf
          <5>1. j \in 1..Len(q) /\ j > i
            BY <3>0, <3>2, <5>0, <2>1
          <5>2. /\ j - i \in 1..(Len(q) - i) /\ i + (j - i) = j
                /\ j - i \in DOMAIN rest
            BY <5>1, <2>1, <2>3
          <5>4. rest[j - i] = x
            BY <5>0, <5>2, <2>3
          <5>3. QED
            BY <3>0, <5>2, <5>4 DEF LineOf
        <4>3. QED
          BY <4>1, <4>2 DEF Consistent, Waiting
      <3>3. QED
        BY <3>1, <3>2
    <2> HIDE DEF m, r, rest
    <2>8. queue' = rest /\ active' = m
      BY <2>0 DEF m, rest
    <2>9. \A k, l \in DOMAIN rest : rest[k] = rest[l] => k = l
      BY <2>3, <2>1 DEF Consistent
    <2>10. Consistent(rest, turn')
      <3>1. \A x \in Messages : turn'[x].phase = "queued" <=> x \in LineOf(rest)
        BY <2>5, <2>6, <2>7 DEF Consistent, Waiting, InFlight
      <3>2. \A x, y \in LineOf(rest) : turn'[x].session = turn'[y].session => x = y
        BY <2>6 DEF Consistent
      <3>3. \A x \in Messages : turn'[x].phase \in Waiting
                                  => x = m \/ x \in LineOf(rest)
        BY <2>7
      <3>4. \A x \in Messages : turn'[x].phase \in Waiting => turn'[x].session \in Sessions
        BY <3>3, <2>2, <2>5, <2>6 DEF Consistent, Waiting
      <3>5. \A x \in Messages : turn'[x].phase \in InFlight => turn'[x].record \in Records
        BY <3>3, <2>2, <2>5, <2>6 DEF Consistent, Waiting
      <3>6. QED
        BY <3>1, <3>2, <3>4, <3>5, <2>3, <2>5, <2>9 DEF Consistent
    <2>11. Slot(m, rest, turn')
      <3>1. \A x \in Messages : turn'[x].phase \in InFlight <=> x = m
        BY <2>5, <2>6, <2>7 DEF Waiting
      <3>2. \A x \in LineOf(rest) : turn'[x].session # turn'[m].session
        BY <2>2, <2>5, <2>6 DEF Consistent
      <3>3. QED
        BY <3>1, <3>2, <2>1, ChatAssumption DEF Slot, ChatAssumption
    <2>12. QED
      BY <2>4, <2>8, <2>10, <2>11
  <1>3. QED
    BY <1>1, <1>2 DEF DrainFree


(* Taking the turn at i out of the line and dropping it.                   *)
LEMMA WithdrawKeeps ==
    ASSUME ChatAssumption,
           NEW q, NEW T, NEW act, Consistent(q, T), Slot(act, q, T),
           NEW i \in DOMAIN q,
           NEW rest, rest = SubSeq(q, 1, i - 1) \o SubSeq(q, i + 1, Len(q)),
           NEW U, U = [T EXCEPT ![q[i]] = Ended(T[q[i]], "dropped")]
    PROVE  Consistent(rest, U) /\ Slot(act, rest, U)
  <1>1. /\ q \in Seq(Messages) /\ T \in [Messages -> TurnType]
        /\ Len(q) \in Nat /\ DOMAIN q = 1..Len(q) /\ q[i] \in Messages
      BY DEF Consistent
  <1>2. /\ rest \in Seq(Messages)
        /\ DOMAIN rest = 1..(Len(q) - 1)
        /\ \A k \in DOMAIN rest : rest[k] = IF k < i THEN q[k] ELSE q[k + 1]
    BY <1>1, RemoveElement, ZenonT(60)
  <1>3. U \in [Messages -> TurnType] /\ U[q[i]].phase = "dropped"
    <2>1. T[q[i]] \in TurnType
      BY <1>1
    <2>2. QED
      BY <2>1, <1>1, EndedType
  <1>4. \A m \in Messages : m # q[i] => U[m] = T[m]
    BY <1>1
  <1>5. ASSUME NEW k \in DOMAIN rest
        PROVE  LET j == IF k < i THEN k ELSE k + 1
               IN j \in DOMAIN q /\ j # i /\ rest[k] = q[j]
    <2>1. k \in 1..(Len(q) - 1) /\ i \in 1..Len(q)
      BY <1>1, <1>2
    <2>2. CASE k < i
      <3>1. k \in DOMAIN q /\ k # i
        <4>1. k \in Nat /\ i \in Nat /\ Len(q) \in Nat /\ 1 <= k /\ k <= Len(q)
          BY <2>1, <1>1
        <4>2. k # i
          BY <4>1, <2>2
        <4>3. QED
          BY <4>1, <4>2, <1>1
      <3>2. rest[k] = q[k]
        BY <2>2, <1>2
      <3>3. QED
        BY <2>2, <3>1, <3>2
    <2>3. CASE ~(k < i)
      <3>1. k + 1 \in DOMAIN q /\ k + 1 # i
        BY <2>1, <2>3, <1>1
      <3>2. rest[k] = q[k + 1]
        BY <2>3, <1>2
      <3>3. QED
        BY <2>3, <3>1, <3>2
    <2>4. QED
      BY <2>2, <2>3
  <1>inj. \A j, k \in DOMAIN q : q[j] = q[k] => j = k
    BY DEF Consistent
  <1>6. \A k, l \in DOMAIN rest : rest[k] = rest[l] => k = l
    <2>1. SUFFICES ASSUME NEW k \in DOMAIN rest, NEW l \in DOMAIN rest, rest[k] = rest[l]
                   PROVE  k = l
      OBVIOUS
    <2>2. k \in Nat /\ l \in Nat /\ i \in Nat
      BY <1>1, <1>2
    <2>3. (IF k < i THEN k ELSE k + 1) = (IF l < i THEN l ELSE l + 1)
      BY <2>1, <1>5, <1>inj
    <2>4. QED
      BY <2>2, <2>3
  <1>7. \A x \in LineOf(rest) : x \in LineOf(q) /\ x \in Messages /\ x # q[i]
    <2>1. SUFFICES ASSUME NEW k \in DOMAIN rest
                   PROVE  /\ rest[k] \in LineOf(q) /\ rest[k] \in Messages
                          /\ rest[k] # q[i]
      BY DEF LineOf
    <2>2. PICK j \in DOMAIN q : j # i /\ rest[k] = q[j]
      BY <1>5
    <2>3. q[j] # q[i]
      BY <2>2, <1>inj
    <2>4. q[j] \in LineOf(q) /\ q[j] \in Messages
      BY <1>1 DEF LineOf
    <2>5. QED
      BY <2>2, <2>3, <2>4
  <1>8. \A x \in LineOf(q) : x # q[i] => x \in LineOf(rest)
    <2>1. SUFFICES ASSUME NEW j \in DOMAIN q, q[j] # q[i]
                   PROVE  \E k \in DOMAIN rest : rest[k] = q[j]
      BY DEF LineOf
    <2>2. j \in 1..Len(q) /\ i \in 1..Len(q) /\ j # i
      BY <2>1, <1>1
    <2>3. CASE j < i
      BY <2>2, <2>3, <1>1, <1>2, SMTT(60)
    <2>4. CASE j > i
      <3>1. j - 1 \in DOMAIN rest /\ ~(j - 1 < i) /\ (j - 1) + 1 = j
        BY <2>2, <2>4, <1>1, <1>2
      <3>2. QED
        BY <3>1, <1>2
    <2>5. j < i \/ j > i
      BY <2>2, <1>1
    <2>6. QED
      BY <2>3, <2>4, <2>5
  <1>9. \A m \in Messages : U[m].phase = "queued" <=> m \in LineOf(rest)
    BY <1>1, <1>3, <1>4, <1>7, <1>8 DEF Consistent
  <1>10. Consistent(rest, U)
    <2>1. \A x, y \in LineOf(rest) : U[x].session = U[y].session => x = y
      BY <1>4, <1>7 DEF Consistent
    <2>2. \A m \in Messages : U[m].phase \in Waiting
                                => T[m].phase \in Waiting /\ U[m] = T[m]
      BY <1>3, <1>4 DEF Waiting, InFlight
    <2>3. \A m \in Messages : U[m].phase \in InFlight
                                => T[m].phase \in InFlight /\ U[m] = T[m]
      BY <1>3, <1>4 DEF InFlight
    <2>4. QED
      BY <1>2, <1>3, <1>6, <1>9, <2>1, <2>2, <2>3, ZenonT(60) DEF Consistent
  <1>11. act \in Messages => act # q[i] /\ U[act] = T[act]
    <2>1. T[q[i]].phase = "queued"
      BY <1>1 DEF Consistent, LineOf
    <2>2. QED
      BY <2>1, <1>1, <1>4 DEF Slot, InFlight
  <1>12. Slot(act, rest, U)
    <2>1. act # Nil
      BY <1>1 DEF Slot
    <2>2. \A m \in Messages : U[m].phase \in InFlight <=> m = act
      BY <1>1, <1>3, <1>4, <1>11 DEF Slot, InFlight
    <2>3. \A x \in LineOf(rest) : U[x].session # U[act].session
      BY <2>1, <1>4, <1>7, <1>11 DEF Slot
    <2>4. QED
      BY <2>1, <2>2, <2>3 DEF Slot
  <1>13. QED
    BY <1>10, <1>12

(* Steps that leave the line, the slot and the turns alone need only look  *)
(* at types, calls and questions.                                          *)
LEMMA LineUntouched ==
    ASSUME IInv, UNCHANGED <<queue, active, turn>>, TypeOK', CallsHold', QuestionsHold'
    PROVE  IInv'
  BY DEF IInv, Consistent, Slot, LineOf

LEMMA InitHolds == ChatAssumption /\ Init => IInv
  <1> SUFFICES ASSUME ChatAssumption, Init PROVE IInv
    OBVIOUS
  <1>1. TypeOK
    <2>1. records \in [Sessions -> Records \cup {Nil}]
      BY DEF Init
    <2>2. rec \in [Records -> RecordType]
      BY DEF Init, NewRecord, RecordType, SessionStates
    <2>3. turn \in [Messages -> TurnType]
      BY DEF Init, NoTurn, TurnType, TurnPhases
    <2>4. calls \in [Calls -> CallType]
      BY DEF Init, NoCall, CallType, CallOps, CallPhases
    <2>5. asks \in [Questions -> QuestionType]
      BY DEF Init, NoQuestion, QuestionType, SessionStates
    <2>6. live \subseteq Runtimes /\ fresh \subseteq Sessions /\ queue \in Seq(Messages)
      BY DEF Init, ChatAssumption
    <2>7. active \in Messages \cup {Nil}
      BY DEF Init
    <2>8. sink \in BOOLEAN
      BY DEF Init
    <2>9. tails \in 0..MaxTails
      BY DEF Init, ChatAssumption
    <2>10. QED
      BY <2>1, <2>2, <2>3, <2>4, <2>5, <2>6, <2>7, <2>8, <2>9 DEF TypeOK
  <1>2. LineOf(queue) = {} /\ queue \in Seq(Messages) /\ DOMAIN queue = {}
    BY DEF Init, LineOf
  <1>3. \A m \in Messages : turn[m].phase \notin Waiting
    BY DEF Init, NoTurn, Waiting, InFlight
  <1>4. turn \in [Messages -> TurnType]
    BY DEF Init, NoTurn, TurnType, TurnPhases
  <1>5. Consistent(queue, turn) /\ Slot(active, queue, turn)
    BY <1>2, <1>3, <1>4 DEF Consistent, Slot, Waiting, Init, ChatAssumption
  <1>6. CallsHold /\ QuestionsHold
    BY DEF CallsHold, GoodCall, QuestionsHold, Init, NoCall, NoQuestion
  <1>7. QED
    BY <1>1, <1>5, <1>6 DEF IInv

-----------------------------------------------------------------------------
(* An open session's record is a record.                                   *)
LEMMA OpenRecord ==
    ASSUME TypeOK, NEW s \in Sessions, IsOpen(s)
    PROVE  records[s] \in Records
  BY DEF TypeOK, IsOpen

LEMMA StateChanges ==
    ASSUME NEW R \in [Records -> RecordType], NEW r \in Records,
           NEW state \in SessionStates
    PROVE  [R EXCEPT ![r].state = state] \in [Records -> RecordType]
  BY DEF RecordType

LEMMA RuntimeChanges ==
    ASSUME NEW R \in [Records -> RecordType], NEW r \in Records,
           NEW rt \in Runtimes \cup {Nil}
    PROVE  [R EXCEPT ![r].runtime = rt] \in [Records -> RecordType]
  BY DEF RecordType

LEMMA QueuedToIdleType ==
    ASSUME NEW R \in [Records -> RecordType]
    PROVE  QueuedToIdle(R) \in [Records -> RecordType]
  <1> DEFINE u(r) == [R[r] EXCEPT !.state = "idle"]
  <1>1. \A r \in Records : u(r) \in RecordType
    BY DEF RecordType, SessionStates
  <1> HIDE DEF u
  <1>2. QueuedToIdle(R) = [r \in Records |->
            IF r \in {records[s] : s \in Sessions} /\ R[r].state = "queued"
              THEN u(r) ELSE R[r]]
    BY DEF QueuedToIdle, u
  <1>3. QED
    BY <1>1, <1>2

(* What #evictRuntime may take is the runtime of a record.                 *)
LEMMA EvictableRecord ==
    ASSUME TypeOK, NEW R, NEW keep, NEW running, NEW v \in Evictable(R, keep, running)
    PROVE  v \in Sessions /\ records[v] \in Records
  BY DEF Evictable, TypeOK

LEMMA RuntimeCreatedType ==
    ASSUME ChatAssumption, TypeOK, NEW r \in Records, NEW keep, NEW waits \in BOOLEAN,
           RuntimeCreated(r, keep, waits)
    PROVE  /\ NewRuntimeId \in Runtimes
           /\ rec' \in [Records -> RecordType]
           /\ live' \subseteq Runtimes
  <1>1. NewRuntimeId \in Runtimes
    BY DEF RuntimeCreated, NewRuntimeId, TypeOK
  <1> DEFINE R == [rec EXCEPT ![r].runtime = NewRuntimeId]
  <1>2. R \in [Records -> RecordType]
    BY <1>1, RuntimeChanges DEF TypeOK
  <1> HIDE DEF R
  <1>3. CASE rec' = R /\ live' = live \cup {NewRuntimeId}
    BY <1>1, <1>2, <1>3 DEF TypeOK
  <1>4. CASE \E v \in Evictable(R, keep, ActiveSession) :
               /\ rec' = Dropped(R, records[v])
               /\ live' = (live \cup {NewRuntimeId}) \ {R[records[v]].runtime}
    <2>1. PICK v \in Evictable(R, keep, ActiveSession) :
               /\ rec' = Dropped(R, records[v])
               /\ live' = (live \cup {NewRuntimeId}) \ {R[records[v]].runtime}
      BY <1>4
    <2>2. records[v] \in Records
      BY EvictableRecord
    <2>3. Dropped(R, records[v]) \in [Records -> RecordType]
      BY <1>2, <2>2, RuntimeChanges DEF Dropped
    <2>4. QED
      BY <1>1, <2>1, <2>3 DEF TypeOK
  <1>5. QED
    BY <1>1, <1>3, <1>4 DEF RuntimeCreated, R

(* One call changes to x.                                                  *)
LEMMA CallChanges ==
    ASSUME TypeOK, CallsHold, NEW c \in Calls, NEW x \in CallType, GoodCall(x),
           calls' = [calls EXCEPT ![c] = x]
    PROVE  calls' \in [Calls -> CallType] /\ CallsHold'
  <1>1. calls' \in [Calls -> CallType] /\ \A d \in Calls : calls'[d] \in {x, calls[d]}
    BY DEF TypeOK
  <1>2. QED
    BY <1>1 DEF CallsHold, GoodCall

LEMMA NoCallGood == NoCall \in CallType /\ GoodCall(NoCall)
  BY DEF NoCall, CallType, CallOps, CallPhases, GoodCall

LEMMA EnsureKeeps ==
    ASSUME TypeOK, CallsHold, NEW c \in Calls, NEW op \in CallOps,
           NEW s \in Sessions, NEW r \in Records, Ensure(c, op, s, r)
    PROVE  calls' \in [Calls -> CallType] /\ CallsHold'
  <1> DEFINE x(phase) == [op |-> op, phase |-> phase, session |-> s, record |-> r]
  <1>1. /\ x("applying") \in CallType /\ GoodCall(x("applying"))
        /\ x("creating") \in CallType /\ GoodCall(x("creating"))
    BY DEF CallType, CallPhases, GoodCall
  <1>2. \E y \in {NoCall, x("applying"), x("creating")} : calls' = [calls EXCEPT ![c] = y]
    BY DEF Ensure
  <1> HIDE DEF x
  <1>3. QED
    BY <1>1, <1>2, CallChanges, NoCallGood

-----------------------------------------------------------------------------
(* The steps that leave the line alone.                                    *)
LEMMA AttachKeeps == ASSUME IInv, Attach PROVE IInv'
  <1>1. TypeOK'
    BY DEF Attach, IInv, TypeOK
  <1>2. CallsHold' /\ QuestionsHold'
    BY DEF Attach, IInv, CallsHold, QuestionsHold
  <1>3. QED
    BY <1>1, <1>2, LineUntouched DEF Attach

LEMMA DisconnectTailKeeps == ASSUME ChatAssumption, IInv, DisconnectTail PROVE IInv'
  <1>1. rec' \in [Records -> RecordType]
    BY QueuedToIdleType DEF DisconnectTail, IInv, TypeOK
  <1>2. tails' \in 0..MaxTails
    BY DEF DisconnectTail, IInv, TypeOK, ChatAssumption
  <1>3. TypeOK'
    BY <1>1, <1>2 DEF DisconnectTail, IInv, TypeOK
  <1>4. CallsHold' /\ QuestionsHold'
    BY DEF DisconnectTail, IInv, CallsHold, QuestionsHold
  <1>5. QED
    BY <1>3, <1>4, LineUntouched DEF DisconnectTail

LEMMA AskUserKeeps ==
    ASSUME IInv, NEW m \in Messages, NEW a \in Questions, NEW kind \in QuestionKinds,
           AskUser(m, a, kind)
    PROVE  IInv'
  <1> DEFINE r == turn[m].record
             x == [kind |-> kind, turn |-> m, record |-> r, previous |-> rec[r].state]
  <1>1. r \in Records
    BY DEF AskUser, IInv, Consistent, InFlight
  <1>2. kind \in SessionStates /\ rec[r].state \in SessionStates
    BY <1>1 DEF QuestionKinds, SessionStates, IInv, TypeOK, RecordType
  <1>3. rec' \in [Records -> RecordType]
    BY <1>1, <1>2, StateChanges DEF AskUser, IInv, TypeOK
  <1>4. x \in QuestionType /\ x.kind # "none" /\ x.record \in Records
    BY <1>1, <1>2 DEF QuestionType, QuestionKinds
  <1>5. asks' = [asks EXCEPT ![a] = x]
    BY DEF AskUser
  <1> HIDE DEF x
  <1>6. asks' \in [Questions -> QuestionType] /\ QuestionsHold'
    BY <1>4, <1>5 DEF IInv, TypeOK, QuestionsHold
  <1>7. TypeOK'
    BY <1>3, <1>6 DEF AskUser, IInv, TypeOK
  <1>8. CallsHold'
    BY DEF AskUser, IInv, CallsHold
  <1>9. QED
    BY <1>6, <1>7, <1>8, LineUntouched DEF AskUser

LEMMA QuestionEndsKeeps ==
    ASSUME IInv, NEW a \in Questions, QuestionEnds(a)
    PROVE  IInv'
  <1> DEFINE state == IF asks[a].previous = asks[a].kind THEN "running" ELSE asks[a].previous
  <1>1. asks[a].record \in Records
    BY DEF QuestionEnds, IInv, QuestionsHold
  <1>2. asks[a].previous \in SessionStates
    BY DEF IInv, TypeOK, QuestionType
  <1>3. state \in SessionStates
    BY <1>2 DEF SessionStates
  <1>4. rec' = [rec EXCEPT ![asks[a].record].state = state]
    BY DEF QuestionEnds
  <1> HIDE DEF state
  <1>5. rec' \in [Records -> RecordType]
    BY <1>1, <1>3, <1>4, StateChanges DEF IInv, TypeOK
  <1>6. NoQuestion \in QuestionType /\ NoQuestion.kind = "none"
    BY DEF NoQuestion, QuestionType, SessionStates
  <1>7. asks' \in [Questions -> QuestionType] /\ QuestionsHold'
    BY <1>6 DEF QuestionEnds, IInv, TypeOK, QuestionsHold
  <1>8. TypeOK'
    BY <1>5, <1>7 DEF QuestionEnds, IInv, TypeOK
  <1>9. CallsHold'
    BY DEF QuestionEnds, IInv, CallsHold
  <1>10. QED
    BY <1>7, <1>8, <1>9, LineUntouched DEF QuestionEnds

LEMMA UseSessionKeeps ==
    ASSUME IInv, NEW c \in Calls, NEW s \in Sessions, NEW op \in {"open", "models"},
           UseSession(c, s, op)
    PROVE  IInv'
  <1>1. op \in CallOps /\ records[s] \in Records
    BY OpenRecord DEF UseSession, IInv, CallOps
  <1>2. calls' \in [Calls -> CallType] /\ CallsHold'
    BY <1>1, EnsureKeeps DEF UseSession, IInv
  <1>3. TypeOK'
    BY <1>2 DEF UseSession, IInv, TypeOK
  <1>4. QuestionsHold'
    BY DEF UseSession, IInv, QuestionsHold
  <1>5. QED
    BY <1>2, <1>3, <1>4, LineUntouched DEF UseSession

LEMMA SetModelKeeps ==
    ASSUME IInv, NEW c \in Calls, NEW s \in Sessions, SetModel(c, s)
    PROVE  IInv'
  <1>1. "setModel" \in CallOps /\ records[s] \in Records
    BY OpenRecord DEF SetModel, IInv, CallOps
  <1>2. calls' \in [Calls -> CallType] /\ CallsHold'
    BY <1>1, EnsureKeeps DEF SetModel, IInv
  <1>3. TypeOK'
    BY <1>2 DEF SetModel, IInv, TypeOK
  <1>4. QuestionsHold'
    BY DEF SetModel, IInv, QuestionsHold
  <1>5. QED
    BY <1>2, <1>3, <1>4, LineUntouched DEF SetModel

LEMMA ModelAppliedKeeps ==
    ASSUME IInv, NEW c \in Calls, ModelApplied(c)
    PROVE  IInv'
  <1>1. calls' \in [Calls -> CallType] /\ CallsHold'
    BY CallChanges, NoCallGood DEF ModelApplied, IInv
  <1>2. TypeOK'
    BY <1>1 DEF ModelApplied, IInv, TypeOK
  <1>3. QuestionsHold'
    BY DEF ModelApplied, IInv, QuestionsHold
  <1>4. QED
    BY <1>1, <1>2, <1>3, LineUntouched DEF ModelApplied

LEMMA CallFailsKeeps ==
    ASSUME IInv, NEW c \in Calls, CallFails(c)
    PROVE  IInv'
  <1>1. calls' \in [Calls -> CallType] /\ CallsHold'
    BY CallChanges, NoCallGood DEF CallFails, IInv
  <1>2. TypeOK'
    BY <1>1 DEF CallFails, IInv, TypeOK
  <1>3. QuestionsHold'
    BY DEF CallFails, IInv, QuestionsHold
  <1>4. QED
    BY <1>1, <1>2, <1>3, LineUntouched DEF CallFails

LEMMA OpenClosedKeeps ==
    ASSUME IInv, NEW c \in Calls, NEW s \in Sessions, OpenClosed(c, s)
    PROVE  IInv'
  <1> DEFINE x == [op |-> "open", phase |-> "lookup", session |-> s, record |-> Nil]
  <1>1. x \in CallType /\ GoodCall(x)
    BY DEF CallType, CallOps, CallPhases, GoodCall
  <1>2. calls' = [calls EXCEPT ![c] = x]
    BY DEF OpenClosed
  <1> HIDE DEF x
  <1>3. calls' \in [Calls -> CallType] /\ CallsHold'
    BY <1>1, <1>2, CallChanges DEF IInv
  <1>4. TypeOK'
    BY <1>3 DEF OpenClosed, IInv, TypeOK
  <1>5. QuestionsHold'
    BY DEF OpenClosed, IInv, QuestionsHold
  <1>6. QED
    BY <1>3, <1>4, <1>5, LineUntouched DEF OpenClosed

LEMMA CreateKeeps ==
    ASSUME IInv, NEW c \in Calls, Create(c)
    PROVE  IInv'
  <1> DEFINE x == [op |-> "create", phase |-> "lookup", session |-> Nil, record |-> Nil]
  <1>1. x \in CallType /\ GoodCall(x)
    BY DEF CallType, CallOps, CallPhases, GoodCall
  <1>2. calls' = [calls EXCEPT ![c] = x]
    BY DEF Create
  <1> HIDE DEF x
  <1>3. calls' \in [Calls -> CallType] /\ CallsHold'
    BY <1>1, <1>2, CallChanges DEF IInv
  <1>4. TypeOK'
    BY <1>3 DEF Create, IInv, TypeOK
  <1>5. QuestionsHold'
    BY DEF Create, IInv, QuestionsHold
  <1>6. QED
    BY <1>3, <1>4, <1>5, LineUntouched DEF Create

(* A new record enters the map; its call knows it.                         *)
LEMMA RegisterKeeps ==
    ASSUME TypeOK, CallsHold, NEW c \in Calls, NEW op \in CallOps, NEW s \in Sessions,
           Register(c, op, s)
    PROVE  /\ records' \in [Sessions -> Records \cup {Nil}]
           /\ rec' \in [Records -> RecordType]
           /\ calls' \in [Calls -> CallType]
           /\ CallsHold'
  <1>1. NewRecordId \in Records
    BY DEF Register, NewRecordId
  <1>2. NewRecord \in RecordType
    BY DEF NewRecord, RecordType, SessionStates
  <1> DEFINE x == [op |-> op, phase |-> "creating", session |-> s, record |-> NewRecordId]
  <1>3. x \in CallType /\ GoodCall(x)
    BY <1>1 DEF CallType, CallPhases, GoodCall
  <1>4. calls' = [calls EXCEPT ![c] = x]
    BY DEF Register
  <1> HIDE DEF x
  <1>5. calls' \in [Calls -> CallType] /\ CallsHold'
    BY <1>3, <1>4, CallChanges
  <1>6. records' \in [Sessions -> Records \cup {Nil}] /\ rec' \in [Records -> RecordType]
    BY <1>1, <1>2 DEF Register, TypeOK
  <1>7. QED
    BY <1>5, <1>6

LEMMA LookedUpKeeps ==
    ASSUME IInv, NEW c \in Calls, LookedUp(c)
    PROVE  IInv'
  <1> DEFINE s == calls[c].session
  <1>0. /\ TypeOK /\ CallsHold
        /\ "open" \in CallOps /\ "create" \in CallOps
        /\ calls[c].op = "open" => s \in Sessions
    BY DEF IInv, CallsHold, GoodCall, LookedUp, CallOps
  <1>1. /\ records' \in [Sessions -> Records \cup {Nil}]
        /\ rec' \in [Records -> RecordType]
        /\ fresh' \subseteq Sessions
        /\ calls' \in [Calls -> CallType]
        /\ CallsHold'
    <2>1. CASE /\ calls[c].op = "open"
               /\ IsOpen(s)
               /\ Ensure(c, "open", s, records[s])
               /\ UNCHANGED <<records, rec, fresh>>
      <3>1. records[s] \in Records
        BY <1>0, <2>1, OpenRecord
      <3>2. calls' \in [Calls -> CallType] /\ CallsHold'
        BY <1>0, <2>1, <3>1, EnsureKeeps
      <3>3. QED
        BY <1>0, <2>1, <3>2 DEF TypeOK
    <2>2. CASE /\ calls[c].op = "open"
               /\ Register(c, "open", s)
               /\ UNCHANGED fresh
      BY <1>0, <2>2, RegisterKeeps DEF TypeOK
    <2>3. CASE \E f \in fresh : Register(c, "create", f) /\ fresh' = fresh \ {f}
      <3>1. PICK f \in fresh : Register(c, "create", f) /\ fresh' = fresh \ {f}
        BY <2>3
      <3>2. f \in Sessions /\ fresh' \subseteq Sessions
        BY <1>0, <3>1 DEF TypeOK
      <3>3. QED
        BY <1>0, <3>1, <3>2, RegisterKeeps
    <2>4. QED
      BY <2>1, <2>2, <2>3 DEF LookedUp
  <1>2. TypeOK'
    BY <1>0, <1>1 DEF LookedUp, TypeOK
  <1>3. QuestionsHold'
    BY DEF LookedUp, IInv, QuestionsHold
  <1>4. QED
    BY <1>1, <1>2, <1>3, LineUntouched DEF LookedUp

(* A call moves on to a phase that needs what it already has.              *)
LEMMA CallMovesOn ==
    ASSUME IInv, NEW c \in Calls, calls[c].phase \in {"creating", "evicting"},
           NEW phase \in {"evicting", "applying"},
           NEW x, x = [calls[c] EXCEPT !.phase = phase]
    PROVE  x \in CallType /\ GoodCall(x)
  <1> DEFINE y == calls[c]
  <1>1. y \in CallType /\ y.session \in Sessions /\ y.record \in Records
    BY DEF IInv, TypeOK, CallsHold, GoodCall
  <1>2. x = [y EXCEPT !.phase = phase]
    OBVIOUS
  <1> HIDE DEF y
  <1>3. QED
    BY <1>1, <1>2 DEF CallType, CallPhases, GoodCall

LEMMA CallRuntimeCreatedKeeps ==
    ASSUME ChatAssumption, IInv, NEW c \in Calls, CallRuntimeCreated(c)
    PROVE  IInv'
  <1>0. TypeOK /\ CallsHold /\ calls[c].phase = "creating" /\ calls[c].record \in Records
    BY DEF IInv, CallsHold, GoodCall, CallRuntimeCreated
  <1>1. PICK waits \in BOOLEAN :
           /\ RuntimeCreated(calls[c].record, calls[c].session, waits)
           /\ calls' = [calls EXCEPT ![c] =
                          IF waits THEN [calls[c] EXCEPT !.phase = "evicting"]
                          ELSE IF Equipped(calls[c].op, NewRuntimeId)
                                 THEN [calls[c] EXCEPT !.phase = "applying"]
                                 ELSE NoCall]
    BY DEF CallRuntimeCreated
  <1>2. rec' \in [Records -> RecordType] /\ live' \subseteq Runtimes
    BY <1>0, <1>1, RuntimeCreatedType
  <1> DEFINE next(phase) == [calls[c] EXCEPT !.phase = phase]
  <1>3. /\ next("evicting") \in CallType /\ GoodCall(next("evicting"))
        /\ next("applying") \in CallType /\ GoodCall(next("applying"))
    BY <1>0, CallMovesOn
  <1>4. \E y \in {NoCall, next("evicting"), next("applying")} :
           calls' = [calls EXCEPT ![c] = y]
    BY <1>1
  <1> HIDE DEF next
  <1>5. calls' \in [Calls -> CallType] /\ CallsHold'
    BY <1>0, <1>3, <1>4, CallChanges, NoCallGood
  <1>6. TypeOK'
    BY <1>0, <1>2, <1>5 DEF CallRuntimeCreated, TypeOK
  <1>7. QuestionsHold'
    BY DEF CallRuntimeCreated, IInv, QuestionsHold
  <1>8. QED
    BY <1>5, <1>6, <1>7, LineUntouched DEF CallRuntimeCreated

LEMMA CallEvictedKeeps ==
    ASSUME IInv, NEW c \in Calls, CallEvicted(c)
    PROVE  IInv'
  <1> DEFINE next == [calls[c] EXCEPT !.phase = "applying"]
  <1>0. TypeOK /\ CallsHold /\ calls[c].phase = "evicting"
    BY DEF IInv, CallEvicted
  <1>1. next \in CallType /\ GoodCall(next)
    BY <1>0, CallMovesOn
  <1>2. \E y \in {NoCall, next} : calls' = [calls EXCEPT ![c] = y]
    BY DEF CallEvicted
  <1> HIDE DEF next
  <1>3. calls' \in [Calls -> CallType] /\ CallsHold'
    BY <1>0, <1>1, <1>2, CallChanges, NoCallGood
  <1>4. TypeOK'
    BY <1>0, <1>3 DEF CallEvicted, TypeOK
  <1>5. QuestionsHold'
    BY DEF CallEvicted, IInv, QuestionsHold
  <1>6. QED
    BY <1>3, <1>4, <1>5, LineUntouched DEF CallEvicted

LEMMA ReleasedKeeps ==
    ASSUME IInv, NEW c \in Calls, Released(c)
    PROVE  IInv'
  <1>1. calls' \in [Calls -> CallType] /\ CallsHold'
    BY CallChanges, NoCallGood DEF Released, IInv
  <1>2. records' \in [Sessions -> Records \cup {Nil}]
    BY DEF Released, IInv, TypeOK
  <1>3. TypeOK'
    BY <1>1, <1>2 DEF Released, IInv, TypeOK
  <1>4. QuestionsHold'
    BY DEF Released, IInv, QuestionsHold
  <1>5. QED
    BY <1>1, <1>3, <1>4, LineUntouched DEF Released

-----------------------------------------------------------------------------
(* The steps that change the line or a turn.                               *)

(* What is left of IInv' when the line and the slot are dealt with.        *)
LEMMA LineChanged ==
    ASSUME IInv, Consistent(queue', turn'), Slot(active', queue', turn'),
           rec' \in [Records -> RecordType], live' \subseteq Runtimes, sink' \in BOOLEAN,
           tails' \in 0..MaxTails, UNCHANGED <<records, fresh, calls, asks>>
    PROVE  IInv'
  <1>1. TypeOK'
    BY DEF IInv, TypeOK, Consistent, Slot
  <1>2. CallsHold' /\ QuestionsHold'
    BY DEF IInv, CallsHold, QuestionsHold
  <1>3. Consistent(queue, turn)' /\ Slot(active, queue, turn)'
    BY DEF Consistent, Slot, LineOf
  <1>4. QED
    BY <1>1, <1>2, <1>3 DEF IInv

(* The turn in flight moves on and keeps its session and its record.       *)
LEMMA FlightKeeps ==
    ASSUME NEW q, NEW T, NEW act, Consistent(q, T), Slot(act, q, T),
           NEW m \in Messages, T[m].phase \in InFlight,
           NEW x \in TurnType, x.phase \in InFlight,
           x.session = T[m].session, x.record = T[m].record,
           NEW U, U = [T EXCEPT ![m] = x]
    PROVE  Consistent(q, U) /\ Slot(act, q, U)
  <1>1. /\ U \in [Messages -> TurnType] /\ U[m] = x
        /\ \A n \in Messages : n # m => U[n] = T[n]
    BY DEF Consistent
  <1>2. \A n \in Messages : /\ U[n].session = T[n].session
                            /\ U[n].record = T[n].record
                            /\ U[n].phase \in InFlight <=> T[n].phase \in InFlight
                            /\ U[n].phase = "queued" <=> T[n].phase = "queued"
    BY <1>1 DEF InFlight
  <1>3. LineOf(q) \subseteq Messages
    BY DEF Consistent, LineOf
  <1>4. Consistent(q, U)
    BY <1>1, <1>2, <1>3 DEF Consistent, Waiting
  <1>5. Slot(act, q, U)
    BY <1>2, <1>3 DEF Slot
  <1>6. QED
    BY <1>4, <1>5

(* A runtime is captured for a turn.                                       *)
LEMMA CapturedType ==
    ASSUME NEW t \in TurnType, NEW rt \in Runtimes \cup {Nil}
    PROVE  /\ Captured(t, rt) \in TurnType
           /\ Captured(t, rt).phase \in InFlight
           /\ Captured(t, rt).session = t.session
           /\ Captured(t, rt).record = t.record
  BY DEF Captured, TurnType, TurnPhases, InFlight

LEMMA TurnRuntimeCreatedKeeps ==
    ASSUME ChatAssumption, IInv, NEW m \in Messages, TurnRuntimeCreated(m)
    PROVE  IInv'
  <1>0. /\ TypeOK /\ turn[m].phase \in InFlight /\ turn[m].record \in Records
        /\ turn[m] \in TurnType
    BY DEF IInv, Consistent, TurnRuntimeCreated, InFlight
  <1>1. PICK waits \in BOOLEAN :
           /\ RuntimeCreated(turn[m].record, turn[m].session, waits)
           /\ turn' = IF waits THEN [turn EXCEPT ![m].phase = "evicting"]
                      ELSE [turn EXCEPT ![m] = Captured(turn[m], NewRuntimeId)]
    BY DEF TurnRuntimeCreated
  <1>2. /\ NewRuntimeId \in Runtimes
        /\ rec' \in [Records -> RecordType] /\ live' \subseteq Runtimes
    BY <1>0, <1>1, RuntimeCreatedType
  <1> DEFINE t == turn[m]
             next == [t EXCEPT !.phase = "evicting"]
             ready == Captured(t, NewRuntimeId)
  <1>3. /\ next \in TurnType /\ next.phase \in InFlight
        /\ next.session = t.session /\ next.record = t.record
    <2>1. t \in TurnType
      BY <1>0
    <2> HIDE DEF t
    <2>2. QED
      BY <2>1 DEF TurnType, TurnPhases, InFlight
  <1>4. /\ ready \in TurnType /\ ready.phase \in InFlight
        /\ ready.session = t.session /\ ready.record = t.record
    BY <1>0, <1>2, CapturedType
  <1>5. turn' = [turn EXCEPT ![m] = next] \/ turn' = [turn EXCEPT ![m] = ready]
    BY <1>1
  <1> HIDE DEF next, ready
  <1>6. Consistent(queue, turn') /\ Slot(active, queue, turn')
    BY <1>0, <1>3, <1>4, <1>5, FlightKeeps DEF IInv
  <1>7. UNCHANGED <<queue, active, sink, tails, records, fresh, calls, asks>>
    BY DEF TurnRuntimeCreated
  <1>8. Consistent(queue', turn') /\ Slot(active', queue', turn')
    BY <1>6, <1>7
  <1>9. QED
    BY <1>0, <1>2, <1>7, <1>8, LineChanged DEF TypeOK

LEMMA TurnEvictedKeeps ==
    ASSUME IInv, NEW m \in Messages, TurnEvicted(m)
    PROVE  IInv'
  <1>0. /\ TypeOK /\ turn[m].phase \in InFlight /\ turn[m].record \in Records
        /\ turn[m] \in TurnType
    BY DEF IInv, Consistent, TurnEvicted, InFlight
  <1> DEFINE rt == rec[turn[m].record].runtime
             ready == Captured(turn[m], rt)
  <1>1. rt \in Runtimes \cup {Nil}
    BY <1>0 DEF TypeOK, RecordType
  <1>2. /\ ready \in TurnType /\ ready.phase \in InFlight
        /\ ready.session = turn[m].session /\ ready.record = turn[m].record
    BY <1>0, <1>1, CapturedType
  <1>3. turn' = [turn EXCEPT ![m] = ready]
    BY DEF TurnEvicted
  <1> HIDE DEF ready
  <1>4. Consistent(queue, turn') /\ Slot(active, queue, turn')
    BY <1>0, <1>2, <1>3, FlightKeeps DEF IInv
  <1>5. UNCHANGED <<rec, live, queue, active, sink, tails, records, fresh, calls, asks>>
    BY DEF TurnEvicted
  <1>6. Consistent(queue', turn') /\ Slot(active', queue', turn')
    BY <1>4, <1>5
  <1>7. QED
    BY <1>0, <1>5, <1>6, LineChanged DEF TypeOK

(* The turn in flight ends; nothing is in flight then.                     *)
LEMMA EndKeeps ==
    ASSUME NEW q, NEW T, NEW act, Consistent(q, T), Slot(act, q, T),
           NEW m \in Messages, T[m].phase \in InFlight,
           NEW U, U = [T EXCEPT ![m] = Ended(T[m], "done")]
    PROVE  /\ Consistent(q, U)
           /\ \A n \in Messages : U[n].phase \notin InFlight
  <1>1. T[m] \in TurnType
    BY DEF Consistent
  <1>2. /\ U \in [Messages -> TurnType] /\ U[m].phase = "done"
        /\ \A n \in Messages : n # m => U[n] = T[n]
    BY <1>1, EndedType DEF Consistent
  <1>3. \A n \in Messages : U[n].phase \notin InFlight
    BY <1>2 DEF Slot, InFlight
  <1>4. \A n \in LineOf(q) : n \in Messages /\ n # m
    BY DEF Consistent, LineOf, InFlight
  <1>5. \A n \in Messages : U[n].phase = "queued" <=> T[n].phase = "queued"
    BY <1>2 DEF InFlight
  <1>6. \A n \in Messages : U[n].phase \in Waiting => T[n].phase \in Waiting /\ U[n] = T[n]
    BY <1>2 DEF Waiting, InFlight
  <1>7. \A j, k \in LineOf(q) : U[j].session = U[k].session => j = k
    BY <1>2, <1>4 DEF Consistent
  <1>8. Consistent(q, U)
    BY <1>2, <1>3, <1>5, <1>6, <1>7 DEF Consistent
  <1>9. QED
    BY <1>3, <1>8

LEMMA TurnEndsKeeps ==
    ASSUME ChatAssumption, IInv, NEW m \in Messages, TurnEnds(m)
    PROVE  IInv'
  <1>0. /\ TypeOK /\ turn[m].phase \in InFlight /\ turn[m].record \in Records
    BY DEF IInv, Consistent, TurnEnds
  <1> DEFINE T == [turn EXCEPT ![m] = Ended(turn[m], "done")]
             R(outcome) == [rec EXCEPT ![turn[m].record].state = outcome]
  <1>1. Consistent(queue, T) /\ \A n \in Messages : T[n].phase \notin InFlight
    BY <1>0, EndKeeps DEF IInv
  <1>2. PICK outcome \in Outcomes :
          LET victims == Evictable(R(outcome), turn[m].session, Nil)
          IN \/ /\ victims = {}
                /\ FreeSlot(R(outcome), T)
                /\ UNCHANGED live
             \/ \E v \in victims :
                  /\ FreeSlot(Dropped(R(outcome), records[v]), T)
                  /\ live' = live \ {R(outcome)[records[v]].runtime}
    BY DEF TurnEnds
  <1>3. outcome \in SessionStates
    BY DEF ChatAssumption, SessionStates
  <1>4. R(outcome) \in [Records -> RecordType]
    BY <1>0, <1>3, StateChanges DEF TypeOK
  <1> HIDE DEF T, R
  <1>5. \E S \in [Records -> RecordType] : FreeSlot(S, T) /\ live' \subseteq live
    <2>1. CASE FreeSlot(R(outcome), T) /\ UNCHANGED live
      BY <1>4, <2>1
    <2>2. CASE \E v \in Evictable(R(outcome), turn[m].session, Nil) :
                 /\ FreeSlot(Dropped(R(outcome), records[v]), T)
                 /\ live' = live \ {R(outcome)[records[v]].runtime}
      <3>1. PICK v \in Evictable(R(outcome), turn[m].session, Nil) :
                 /\ FreeSlot(Dropped(R(outcome), records[v]), T)
                 /\ live' = live \ {R(outcome)[records[v]].runtime}
        BY <2>2
      <3>2. records[v] \in Records
        BY <1>0, EvictableRecord
      <3>3. Dropped(R(outcome), records[v]) \in [Records -> RecordType]
        BY <1>4, <3>2, RuntimeChanges DEF Dropped
      <3>4. QED
        BY <3>1, <3>3
    <2>3. QED
      BY <1>2, <2>1, <2>2
  <1>6. PICK S \in [Records -> RecordType] : FreeSlot(S, T) /\ live' \subseteq live
    BY <1>5
  <1>7. DrainFree(queue, S, T)
    BY <1>6 DEF FreeSlot
  <1>8. /\ rec' \in [Records -> RecordType]
        /\ Consistent(queue', turn') /\ Slot(active', queue', turn')
    BY <1>0, <1>1, <1>7, DrainFreeKeeps
  <1>9. UNCHANGED <<records, fresh, calls, asks, sink, tails>>
    BY DEF TurnEnds
  <1>10. QED
    BY <1>0, <1>6, <1>8, <1>9, LineChanged DEF TypeOK

(* The whole line is dropped.                                              *)
LEMMA ClearKeeps ==
    ASSUME ChatAssumption, NEW q, NEW T, NEW act, Consistent(q, T), Slot(act, q, T),
           NEW U, U = [m \in Messages |->
                         IF m \in LineOf(q) THEN Ended(T[m], "dropped") ELSE T[m]]
    PROVE  Consistent(<<>>, U) /\ Slot(act, <<>>, U)
  <1>1. \A m \in Messages : T[m] \in TurnType
    BY DEF Consistent
  <1>2. /\ U \in [Messages -> TurnType]
        /\ \A m \in Messages : IF m \in LineOf(q) THEN U[m].phase = "dropped"
                                                  ELSE U[m] = T[m]
    BY <1>1, EndedType
  <1>3. <<>> \in Seq(Messages) /\ LineOf(<<>>) = {} /\ DOMAIN <<>> = {}
    BY DEF LineOf
  <1>4. \A m \in Messages : U[m].phase \in Waiting => T[m].phase \in InFlight /\ U[m] = T[m]
    BY <1>2 DEF Consistent, Waiting, InFlight
  <1>5. \A m \in Messages : U[m].phase # "queued"
    BY <1>2 DEF Consistent
  <1>6. \A m \in Messages : T[m].phase \in InFlight => m \notin LineOf(q)
    BY DEF Consistent, InFlight
  <1>7. \A m \in Messages : U[m].phase \in InFlight <=> m = act
    BY <1>2, <1>6 DEF Slot, InFlight
  <1>8. Consistent(<<>>, U)
    BY <1>2, <1>3, <1>4, <1>5 DEF Consistent, Waiting
  <1>9. Slot(act, <<>>, U)
    BY <1>3, <1>7 DEF Slot
  <1>10. QED
    BY <1>8, <1>9

LEMMA DisconnectKeeps == ASSUME ChatAssumption, IInv, Disconnect PROVE IInv'
  <1>1. turn' = [m \in Messages |->
                   IF m \in LineOf(queue) THEN Ended(turn[m], "dropped") ELSE turn[m]]
    BY DEF Disconnect, Line, LineOf
  <1>2. Consistent(<<>>, turn') /\ Slot(active, <<>>, turn')
    BY <1>1, ClearKeeps DEF IInv
  <1>3. queue' = <<>> /\ UNCHANGED active
    BY DEF Disconnect
  <1>4. rec' \in [Records -> RecordType]
    BY QueuedToIdleType DEF Disconnect, IInv, TypeOK
  <1>5. tails' \in 0..MaxTails
    BY DEF Disconnect, IInv, TypeOK, ChatAssumption
  <1>6. sink' \in BOOLEAN /\ live' \subseteq Runtimes
        /\ UNCHANGED <<records, fresh, calls, asks>>
    BY DEF Disconnect, IInv, TypeOK
  <1>7. Consistent(queue', turn') /\ Slot(active', queue', turn')
    BY <1>2, <1>3
  <1>8. QED
    BY <1>4, <1>5, <1>6, <1>7, LineChanged

LEMMA SubmittedType ==
    ASSUME NEW t \in TurnType, NEW s \in Sessions
    PROVE  /\ Submitted(t, s) \in TurnType
           /\ Submitted(t, s).phase = "queued"
           /\ Submitted(t, s).session = s
  BY DEF Submitted, TurnType, TurnPhases

(* A new turn of a session that has none joins the line.                   *)
LEMMA AppendKeeps ==
    ASSUME NEW q, NEW T, Consistent(q, T), NEW m \in Messages, T[m].phase = "none",
           NEW s \in Sessions, \A n \in LineOf(q) : T[n].session # s
    PROVE  LET U == [T EXCEPT ![m] = Submitted(T[m], s)]
           IN /\ Consistent(Append(q, m), U)
              /\ LineOf(Append(q, m)) = LineOf(q) \cup {m}
              /\ \A n \in Messages : n # m => U[n] = T[n]
              /\ U[m].phase = "queued" /\ U[m].session = s
              /\ m \notin LineOf(q)
  <1> DEFINE p == Append(q, m)
             U == [T EXCEPT ![m] = Submitted(T[m], s)]
             u == Submitted(T[m], s)
  <1>1. q \in Seq(Messages) /\ T \in [Messages -> TurnType]
    BY DEF Consistent
  <1>2. /\ p \in Seq(Messages) /\ DOMAIN p = 1..(Len(q) + 1) /\ Len(q) \in Nat
        /\ DOMAIN q = 1..Len(q)
        /\ p[Len(q) + 1] = m /\ \A k \in 1..Len(q) : p[k] = q[k]
    BY <1>1
  <1>3. m \notin LineOf(q)
    BY DEF Consistent
  <1>4. u \in TurnType /\ u.phase = "queued" /\ u.session = s
    <2>1. T[m] \in TurnType
      BY <1>1
    <2>2. QED
      BY <2>1, SubmittedType
  <1>5. U = [T EXCEPT ![m] = u]
    OBVIOUS
  <1> HIDE DEF u, p, U
  <1>6. /\ U \in [Messages -> TurnType] /\ U[m] = u
        /\ \A n \in Messages : n # m => U[n] = T[n]
    BY <1>1, <1>4, <1>5
  <1>7. LineOf(p) = LineOf(q) \cup {m}
    <2>1. \A k \in DOMAIN p : p[k] \in LineOf(q) \cup {m}
      <3>1. SUFFICES ASSUME NEW k \in DOMAIN p PROVE p[k] \in LineOf(q) \cup {m}
        OBVIOUS
      <3>2. k \in 1..Len(q) \/ k = Len(q) + 1
        BY <1>2
      <3>3. QED
        BY <1>2, <3>2 DEF LineOf
    <2>2. \A k \in DOMAIN q : k \in DOMAIN p /\ p[k] = q[k]
      BY <1>2
    <2>3. Len(q) + 1 \in DOMAIN p
      BY <1>2
    <2>4. QED
      BY <1>2, <2>1, <2>2, <2>3 DEF LineOf
  <1>8. LineOf(q) \subseteq Messages
    BY <1>1 DEF LineOf
  <1>9. \A j, k \in DOMAIN p : p[j] = p[k] => j = k
    <2>1. SUFFICES ASSUME NEW j \in DOMAIN p, NEW k \in DOMAIN p, p[j] = p[k]
                   PROVE  j = k
      OBVIOUS
    <2>2. CASE j \in DOMAIN q /\ k \in DOMAIN q
      BY <1>2, <2>1, <2>2 DEF Consistent
    <2>3. CASE j \in DOMAIN q /\ k = Len(q) + 1
      BY <1>2, <1>3, <2>1, <2>3 DEF LineOf
    <2>4. CASE k \in DOMAIN q /\ j = Len(q) + 1
      BY <1>2, <1>3, <2>1, <2>4 DEF LineOf
    <2>5. CASE j = Len(q) + 1 /\ k = Len(q) + 1
      BY <2>5
    <2>6. QED
      BY <1>2, <2>2, <2>3, <2>4, <2>5
  <1>10. \A n \in Messages : U[n].phase = "queued" <=> n \in LineOf(p)
    BY <1>4, <1>6, <1>7 DEF Consistent
  <1>11. \A j, k \in LineOf(p) : U[j].session = U[k].session => j = k
    BY <1>3, <1>4, <1>6, <1>7, <1>8 DEF Consistent
  <1>12. \A n \in Messages : U[n].phase \in Waiting => U[n].session \in Sessions
    BY <1>4, <1>6 DEF Consistent
  <1>13. \A n \in Messages : U[n].phase \in InFlight => U[n].record \in Records
    BY <1>4, <1>6 DEF Consistent, InFlight
  <1>14. Consistent(p, U)
    BY <1>2, <1>6, <1>9, <1>10, <1>11, <1>12, <1>13 DEF Consistent
  <1>15. QED
    BY <1>3, <1>4, <1>6, <1>7, <1>14 DEF p, U

LEMMA SendKeeps ==
    ASSUME ChatAssumption, IInv, NEW s \in Sessions, NEW m \in Messages, Send(s, m)
    PROVE  IInv'
  <1> DEFINE q == Append(queue, m)
             T == [turn EXCEPT ![m] = Submitted(turn[m], s)]
             R == [rec EXCEPT ![records[s]].state =
                     IF active = Nil /\ queue = <<>> THEN "running" ELSE "queued"]
  <1>0. /\ TypeOK /\ Consistent(queue, turn) /\ Slot(active, queue, turn)
        /\ records[s] \in Records /\ turn[m].phase = "none"
    BY OpenRecord DEF IInv, Send
  <1>1. R \in [Records -> RecordType]
    <2>1. (IF active = Nil /\ queue = <<>> THEN "running" ELSE "queued") \in SessionStates
      BY DEF SessionStates
    <2>2. QED
      BY <1>0, <2>1, StateChanges DEF TypeOK
  <1>2. \A n \in LineOf(queue) : turn[n].session # s
    BY DEF Send, HasQueuedTurn, Line, LineOf
  <1>3. /\ Consistent(q, T)
        /\ LineOf(q) = LineOf(queue) \cup {m}
        /\ \A n \in Messages : n # m => T[n] = turn[n]
        /\ T[m].phase = "queued" /\ T[m].session = s
        /\ m \notin LineOf(queue)
    BY <1>0, <1>2, AppendKeeps
  <1>4. /\ UNCHANGED <<records, live, fresh, calls, asks, sink, tails>>
        /\ \/ active = Nil /\ DrainFree(q, R, T)
           \/ active # Nil /\ queue' = q /\ rec' = R /\ turn' = T /\ UNCHANGED active
    BY DEF Send
  <1>5. active # Nil => active \in Messages /\ active # m /\ turn[active].session # s
    BY <1>0 DEF Slot, Send, ActiveSession, InFlight
  <1> HIDE DEF q, T, R
  <1>6. CASE active = Nil /\ DrainFree(q, R, T)
    <2>1. \A n \in Messages : T[n].phase \notin InFlight
      BY <1>0, <1>3, <1>6 DEF Slot, InFlight, ChatAssumption
    <2>2. /\ rec' \in [Records -> RecordType]
          /\ Consistent(queue', turn') /\ Slot(active', queue', turn')
      BY <1>0, <1>1, <1>3, <1>6, <2>1, DrainFreeKeeps
    <2>3. QED
      BY <1>0, <1>4, <2>2, LineChanged DEF TypeOK
  <1>7. CASE active # Nil /\ queue' = q /\ rec' = R /\ turn' = T /\ UNCHANGED active
    <2>1. \A n \in Messages : T[n].phase \in InFlight <=> n = active
      BY <1>0, <1>3, <1>5, <1>7 DEF Slot, InFlight
    <2>2. \A n \in LineOf(q) : T[n].session # T[active].session
      <3>1. T[active].session = turn[active].session
        BY <1>3, <1>5, <1>7
      <3>2. \A n \in LineOf(queue) : n \in Messages /\ n # m
        BY <1>0, <1>3 DEF Consistent, LineOf
      <3>3. \A n \in LineOf(queue) : T[n].session # T[active].session
        BY <1>0, <1>3, <1>7, <3>1, <3>2 DEF Slot
      <3>4. QED
        BY <1>3, <1>5, <1>7, <3>1, <3>3
    <2>3. Slot(active, q, T)
      BY <1>0, <1>7, <2>1, <2>2 DEF Slot
    <2>4. Consistent(queue', turn') /\ Slot(active', queue', turn')
      BY <1>3, <1>7, <2>3
    <2>5. QED
      BY <1>0, <1>1, <1>4, <1>7, <2>4, LineChanged DEF TypeOK
  <1>8. QED
    BY <1>4, <1>6, <1>7

LEMMA CancelQueuedTurnKeeps ==
    ASSUME ChatAssumption, IInv, NEW s \in Sessions, CancelQueuedTurn(s)
    PROVE  IInv'
  <1> DEFINE rest(i) == SubSeq(queue, 1, i - 1) \o SubSeq(queue, i + 1, Len(queue))
             idle == IF IsOpen(s) THEN [rec EXCEPT ![records[s]].state = "idle"] ELSE rec
  <1>0. TypeOK /\ Consistent(queue, turn) /\ Slot(active, queue, turn)
    BY DEF IInv
  <1>1. idle \in [Records -> RecordType]
    <2>1. "idle" \in SessionStates /\ rec \in [Records -> RecordType]
      BY <1>0 DEF SessionStates, TypeOK
    <2>2. CASE IsOpen(s)
      BY <1>0, <2>1, <2>2, OpenRecord, StateChanges
    <2>3. CASE ~IsOpen(s)
      BY <2>1, <2>3
    <2>4. QED
      BY <2>2, <2>3
  <1>2. PICK i \in DOMAIN queue :
          /\ queue' = rest(i)
          /\ turn' = [turn EXCEPT ![queue[i]] = Ended(turn[queue[i]], "dropped")]
          /\ rec' = MarkQueued(idle, rest(i), turn)
    BY DEF CancelQueuedTurn, Cancelled
  <1> HIDE DEF idle
  <1>3. Consistent(queue', turn') /\ Slot(active, queue', turn')
    BY <1>0, <1>2, WithdrawKeeps
  <1>4. rec' \in [Records -> RecordType]
    BY <1>1, <1>2, MarkQueuedType
  <1>5. UNCHANGED <<records, live, fresh, active, calls, asks, sink, tails>>
    BY DEF CancelQueuedTurn
  <1>6. Consistent(queue', turn') /\ Slot(active', queue', turn')
    BY <1>3, <1>5
  <1>7. QED
    BY <1>0, <1>4, <1>5, <1>6, LineChanged DEF TypeOK

LEMMA ReleaseKeeps ==
    ASSUME ChatAssumption, IInv, NEW c \in Calls, NEW s \in Sessions, Release(c, s)
    PROVE  IInv'
  <1> DEFINE r == records[s]
             rest(i) == SubSeq(queue, 1, i - 1) \o SubSeq(queue, i + 1, Len(queue))
             x == [op |-> "release", phase |-> "disposing", session |-> s, record |-> r]
  <1>0. /\ TypeOK /\ CallsHold /\ Consistent(queue, turn) /\ Slot(active, queue, turn)
        /\ r \in Records /\ rec \in [Records -> RecordType]
    BY OpenRecord DEF IInv, Release, TypeOK
  <1>1. UNCHANGED <<fresh, active, asks, sink, tails>>
    BY DEF Release
  <1>2. PICK i \in (DOMAIN queue) \cup {0} :
           LET q == IF i = 0 THEN queue ELSE rest(i)
               R == IF i = 0 THEN rec
                    ELSE MarkQueued([rec EXCEPT ![r].state = "idle"], q, turn)
           IN /\ queue' = q
              /\ turn' = IF i = 0 THEN turn
                         ELSE [turn EXCEPT ![queue[i]] = Ended(turn[queue[i]], "dropped")]
              /\ rec' = Dropped(R, r)
              /\ \/ /\ live' = live \ {rec[r].runtime}
                    /\ calls' = [calls EXCEPT ![c] = x]
                    /\ UNCHANGED records
                 \/ /\ records' = [records EXCEPT ![s] = Nil]
                    /\ UNCHANGED <<live, calls>>
    BY DEF Release
  <1>3. live' \subseteq Runtimes /\ records' \in [Sessions -> Records \cup {Nil}]
    BY <1>0, <1>2 DEF TypeOK
  <1>4. calls' \in [Calls -> CallType] /\ CallsHold'
    <2>1. x \in CallType /\ GoodCall(x)
      BY <1>0 DEF CallType, CallOps, CallPhases, GoodCall
    <2>2. calls' = [calls EXCEPT ![c] = x] \/ UNCHANGED calls
      BY <1>2
    <2> HIDE DEF x
    <2>3. CASE calls' = [calls EXCEPT ![c] = x]
      BY <1>0, <2>1, <2>3, CallChanges
    <2>4. CASE UNCHANGED calls
      BY <1>0, <2>4 DEF TypeOK, CallsHold
    <2>5. QED
      BY <2>2, <2>3, <2>4
  <1>5. /\ rec' \in [Records -> RecordType]
        /\ Consistent(queue', turn') /\ Slot(active, queue', turn')
    <2>0. Nil \in Runtimes \cup {Nil} /\ "idle" \in SessionStates
      BY DEF SessionStates
    <2>1. CASE i = 0
      <3>1. queue' = queue /\ turn' = turn /\ rec' = Dropped(rec, r)
        BY <1>2, <2>1
      <3>2. Dropped(rec, r) \in [Records -> RecordType]
        BY <1>0, <2>0, RuntimeChanges DEF Dropped
      <3>3. QED
        BY <1>0, <3>1, <3>2
    <2>2. CASE i # 0
      <3>1. /\ queue' = rest(i) /\ i \in DOMAIN queue
            /\ turn' = [turn EXCEPT ![queue[i]] = Ended(turn[queue[i]], "dropped")]
            /\ rec' = Dropped(MarkQueued([rec EXCEPT ![r].state = "idle"], rest(i), turn), r)
        BY <1>2, <2>2
      <3>2. [rec EXCEPT ![r].state = "idle"] \in [Records -> RecordType]
        BY <1>0, <2>0, StateChanges
      <3>3. MarkQueued([rec EXCEPT ![r].state = "idle"], rest(i), turn)
               \in [Records -> RecordType]
        BY <3>2, MarkQueuedType
      <3>4. rec' \in [Records -> RecordType]
        BY <1>0, <2>0, <3>1, <3>3, RuntimeChanges DEF Dropped
      <3>5. Consistent(queue', turn') /\ Slot(active, queue', turn')
        BY <1>0, <3>1, WithdrawKeeps
      <3>6. QED
        BY <3>4, <3>5
    <2>3. QED
      BY <2>1, <2>2
  <1> HIDE DEF r, x, rest
  <1>6. Consistent(queue', turn') /\ Slot(active', queue', turn')
    BY <1>1, <1>5
  <1>7. TypeOK'
    BY <1>0, <1>1, <1>3, <1>4, <1>5, <1>6 DEF TypeOK, Consistent, Slot
  <1>8. QuestionsHold'
    BY <1>1 DEF IInv, QuestionsHold
  <1>9. Consistent(queue, turn)' /\ Slot(active, queue, turn)'
    BY <1>6 DEF Consistent, Slot, LineOf
  <1>10. QED
    BY <1>4, <1>7, <1>8, <1>9 DEF IInv

-----------------------------------------------------------------------------
(* Every step keeps the invariant: one step of the proof per action.       *)
LEMMA NextKeeps == ASSUME ChatAssumption, IInv, [Next]_vars PROVE IInv'
  <1>1. CASE Attach
    BY <1>1, AttachKeeps
  <1>2. CASE Disconnect
    BY <1>2, DisconnectKeeps
  <1>3. CASE DisconnectTail
    BY <1>3, DisconnectTailKeeps
  <1>4. ASSUME NEW s \in Sessions, NEW m \in Messages, Send(s, m) PROVE IInv'
    BY <1>4, SendKeeps
  <1>5. ASSUME NEW s \in Sessions, CancelQueuedTurn(s) PROVE IInv'
    BY <1>5, CancelQueuedTurnKeeps
  <1>6. ASSUME NEW m \in Messages, TurnStep(m) PROVE IInv'
    <2>1. CASE TurnRuntimeCreated(m)
      BY <2>1, TurnRuntimeCreatedKeeps
    <2>2. CASE TurnEvicted(m)
      BY <2>2, TurnEvictedKeeps
    <2>3. CASE TurnEnds(m)
      BY <2>3, TurnEndsKeeps
    <2>4. QED
      BY <1>6, <2>1, <2>2, <2>3 DEF TurnStep
  <1>7. ASSUME NEW m \in Messages, NEW a \in Questions, NEW k \in QuestionKinds,
               AskUser(m, a, k)
        PROVE  IInv'
    BY <1>7, AskUserKeeps
  <1>8. ASSUME NEW a \in Questions, QuestionEnds(a) PROVE IInv'
    BY <1>8, QuestionEndsKeeps
  <1>9. ASSUME NEW c \in Calls, NEW s \in Sessions, NEW op \in {"open", "models"},
               UseSession(c, s, op)
        PROVE  IInv'
    BY <1>9, UseSessionKeeps
  <1>10. ASSUME NEW c \in Calls, NEW s \in Sessions, SetModel(c, s) PROVE IInv'
    BY <1>10, SetModelKeeps
  <1>11. ASSUME NEW c \in Calls, NEW s \in Sessions, OpenClosed(c, s) PROVE IInv'
    BY <1>11, OpenClosedKeeps
  <1>12. ASSUME NEW c \in Calls, NEW s \in Sessions, Release(c, s) PROVE IInv'
    BY <1>12, ReleaseKeeps
  <1>13. ASSUME NEW c \in Calls, Create(c) PROVE IInv'
    BY <1>13, CreateKeeps
  <1>14. ASSUME NEW c \in Calls, CallStep(c) PROVE IInv'
    <2>1. CASE LookedUp(c)
      BY <2>1, LookedUpKeeps
    <2>2. CASE CallRuntimeCreated(c)
      BY <2>2, CallRuntimeCreatedKeeps
    <2>3. CASE CallEvicted(c)
      BY <2>3, CallEvictedKeeps
    <2>4. CASE ModelApplied(c)
      BY <2>4, ModelAppliedKeeps
    <2>5. CASE CallFails(c)
      BY <2>5, CallFailsKeeps
    <2>6. CASE Released(c)
      BY <2>6, ReleasedKeeps
    <2>7. QED
      BY <1>14, <2>1, <2>2, <2>3, <2>4, <2>5, <2>6 DEF CallStep
  <1>15. CASE UNCHANGED vars
    <2>1. TypeOK' /\ CallsHold' /\ QuestionsHold'
      BY <1>15 DEF vars, IInv, TypeOK, CallsHold, QuestionsHold
    <2>2. QED
      BY <1>15, <2>1, LineUntouched DEF vars
  <1>16. QED
    BY <1>1, <1>2, <1>3, <1>4, <1>5, <1>6, <1>7, <1>8, <1>9, <1>10, <1>11, <1>12,
       <1>13, <1>14, <1>15 DEF Next

(* The invariant holds in every reachable state.                           *)
THEOREM Invariance == Spec => []IInv
  <1>1. Init => IInv
    BY InitHolds, ChatAssumption
  <1>2. IInv /\ [Next]_vars => IInv'
    BY NextKeeps, ChatAssumption
  <1>3. QED
    BY <1>1, <1>2, PTL DEF Spec

(* Whatever the numbers of sessions, turns, calls, questions and runtimes: *)
(* every variable keeps its type.                                          *)
THEOREM TypeCorrect == Spec => []TypeOK
  <1>1. IInv => TypeOK
    BY DEF IInv
  <1>2. QED
    BY <1>1, Invariance, PTL

(* drainQueue runs at most one turn at a time, the active one, whatever    *)
(* disconnects, releases, evictions and late answers come in between.      *)
THEOREM Serial == Spec => []SerialTurns
  <1>1. IInv => SerialTurns
    BY DEF IInv, Slot, SerialTurns
  <1>2. QED
    BY <1>1, Invariance, PTL

(* The scheduler's line holds the queued turns, each once, one per         *)
(* session, and is empty when the slot is free.                            *)
THEOREM LineConsistent == Spec => []QueueInv
  <1>1. ASSUME IInv PROVE QueueInv
    <2>1. /\ Line = LineOf(queue)
          /\ Consistent(queue, turn) /\ Slot(active, queue, turn)
      BY <1>1 DEF IInv, Line, LineOf
    <2>2. active # Nil => \A n \in Line : turn[n].session # turn[active].session
      BY <2>1 DEF Slot
    <2>3. \A m, n \in Line : turn[m].session = turn[n].session => m = n
      BY <2>1 DEF Consistent
    <2>4. \A m, n \in Line \cup ({active} \ {Nil}) :
             turn[m].session = turn[n].session => m = n
      BY <2>2, <2>3
    <2>5. \A m \in Messages : turn[m].phase = "queued" <=> m \in Line
      BY <2>1 DEF Consistent
    <2>6. \A i, j \in DOMAIN queue : queue[i] = queue[j] => i = j
      BY <2>1 DEF Consistent
    <2>7. active = Nil => queue = <<>>
      BY <2>1 DEF Slot
    <2>8. QED
      BY <2>4, <2>5, <2>6, <2>7 DEF QueueInv
  <1>2. QED
    BY <1>1, Invariance, PTL

-----------------------------------------------------------------------------
(* InOrder: the registry as an implementation of TurnQueue.                *)

LEMMA GoneTurns == ASSUME IInv' PROVE Gone' \in SUBSET Messages
  BY DEF IInv, Gone, Line, Consistent

(* The line, the slot and the turns that are over stay as they are.        *)
LEMMA LineStays ==
    ASSUME IInv', UNCHANGED <<queue, active>>,
           \A m \in Messages : turn'[m].phase \in {"done", "dropped"}
                                 <=> turn[m].phase \in {"done", "dropped"}
    PROVE  TQ!Next
  <1>1. Gone' \in SUBSET Messages
    BY GoneTurns
  <1>2. Over' = Over
    BY DEF Over
  <1>3. TQ!SessionsChange
    BY <1>2 DEF TQ!SessionsChange
  <1> QED
    BY <1>1, <1>3 DEF TQ!Next

(* A turn leaves the middle of the line.                                   *)
LEMMA LineShortens ==
    ASSUME IInv, IInv', UNCHANGED active, NEW i \in DOMAIN queue,
           queue' = SubSeq(queue, 1, i - 1) \o SubSeq(queue, i + 1, Len(queue)),
           turn' = [turn EXCEPT ![queue[i]] = Ended(turn[queue[i]], "dropped")]
    PROVE  TQ!Next
  <1>1. Gone' \in SUBSET Messages
    BY GoneTurns
  <1>2. queue[i] \in Messages /\ turn \in [Messages -> TurnType]
    BY DEF IInv, Consistent
  <1>3. turn'[queue[i]].phase = "dropped" /\ \A m \in Messages : m # queue[i] => turn'[m] = turn[m]
    BY <1>2, EndedType
  <1>4. Over' = Over \cup {queue[i]}
    BY <1>2, <1>3 DEF Over
  <1>5. TQ!Withdraw(i)
    BY <1>4 DEF TQ!Withdraw
  <1> QED
    BY <1>1, <1>5 DEF TQ!Next

LEMMA DisconnectInOrder == ASSUME IInv, IInv', Disconnect PROVE TQ!Next
  <1>1. /\ queue' = <<>> /\ UNCHANGED active
        /\ turn' = [m \in Messages |-> IF m \in Line THEN Ended(turn[m], "dropped") ELSE turn[m]]
    BY DEF Disconnect
  <1>2. Gone' \in SUBSET Messages
    BY GoneTurns
  <1>3. turn \in [Messages -> TurnType] /\ Line \subseteq Messages /\ queue \in Seq(Messages)
    BY DEF IInv, Consistent, Line
  <1>4. Over' = Over \cup Line
    <2>1. \A m \in Messages : turn'[m].phase = IF m \in Line THEN "dropped" ELSE turn[m].phase
      BY <1>1, <1>3, EndedType
    <2> QED
      BY <2>1, <1>3 DEF Over
  <1>5. CASE queue = <<>>
    <2>1. Line = {}
      BY <1>5 DEF Line
    <2>2. TQ!SessionsChange
      BY <1>1, <1>4, <1>5, <2>1 DEF TQ!SessionsChange
    <2> QED
      BY <1>2, <2>2 DEF TQ!Next
  <1>6. CASE queue # <<>>
    <2>1. TQ!Clear
      BY <1>1, <1>4, <1>6 DEF TQ!Clear, TQ!Line, Line
    <2> QED
      BY <1>2, <2>1 DEF TQ!Next
  <1> QED
    BY <1>5, <1>6

(* A turn is submitted and starts at once, or goes behind the others.      *)
LEMMA SendInOrder ==
    ASSUME ChatAssumption, IInv, IInv', NEW s \in Sessions, NEW m \in Messages, Send(s, m)
    PROVE  TQ!Next
  <1> DEFINE T == [turn EXCEPT ![m] = Submitted(turn[m], s)]
             R == [rec EXCEPT ![records[s]].state =
                     IF active = Nil /\ queue = <<>> THEN "running" ELSE "queued"]
  <1>1. /\ turn \in [Messages -> TurnType] /\ turn[m].phase = "none"
        /\ records[s] # Nil /\ queue \in Seq(Messages)
    BY DEF IInv, Consistent, Send, IsOpen
  <1>2. Gone' \in SUBSET Messages
    BY GoneTurns
  <1>3. /\ T[m].phase = "queued" /\ T[m].session = s
        /\ \A n \in Messages : n # m => T[n] = turn[n]
    BY <1>1, SubmittedType
  <1>4. m \notin TQ!Seen
    <2>1. m \notin TQ!Line
      BY <1>1 DEF IInv, Consistent, LineOf, TQ!Line
    <2>2. m \notin Over
      BY <1>1 DEF Over
    <2>3. m # active
      BY <1>1 DEF IInv, Slot, InFlight
    <2> QED
      BY <2>1, <2>2, <2>3 DEF TQ!Seen
  <1>5. \/ active = Nil /\ DrainFree(Append(queue, m), R, T)
        \/ active # Nil /\ queue' = Append(queue, m) /\ turn' = T /\ UNCHANGED active
    BY DEF Send
  <1> HIDE DEF T, R
  <1>6. CASE active = Nil /\ DrainFree(Append(queue, m), R, T)
    <2> DEFINE q == Append(queue, m)
               startable == {i \in DOMAIN q : records[T[q[i]].session] # Nil}
    <2>1. queue = <<>>
      BY <1>6 DEF IInv, Slot
    <2>2. q = <<m>> /\ DOMAIN q = {1} /\ q[1] = m /\ Len(q) = 1
      BY <2>1
    <2> HIDE DEF q
    <2>3. startable = {1}
      BY <2>2, <1>1, <1>3
    <2> HIDE DEF startable
    <2>4. /\ queue' = SubSeq(q, 2, 1) /\ active' = m
          /\ \A x \in Messages : turn'[x] = IF x = m
                      THEN IF R[records[T[m].session]].runtime = Nil
                             THEN [T[m] EXCEPT !.phase = "ensuring", !.record = records[T[m].session]]
                             ELSE Captured([T[m] EXCEPT !.record = records[T[m].session]], R[records[T[m].session]].runtime)
                      ELSE T[x]
      <3>1. DrainFree(q, R, T)
        BY <1>6 DEF q
      <3>2. \A j \in 1 .. (1 - 1) : FALSE
        OBVIOUS
      <3> DEFINE r == records[T[m].session]
                 started == IF R[r].runtime = Nil
                              THEN [T[m] EXCEPT !.phase = "ensuring", !.record = r]
                              ELSE Captured([T[m] EXCEPT !.record = r], R[r].runtime)
      <3>3. PICK i \in startable :
              /\ queue' = SubSeq(q, i + 1, Len(q)) /\ active' = q[i]
              /\ turn' = [x \in Messages |->
                    IF x = q[i]
                      THEN IF R[records[T[q[i]].session]].runtime = Nil
                             THEN [T[q[i]] EXCEPT !.phase = "ensuring", !.record = records[T[q[i]].session]]
                             ELSE Captured([T[q[i]] EXCEPT !.record = records[T[q[i]].session]],
                                           R[records[T[q[i]].session]].runtime)
                      ELSE IF \E j \in 1..(i - 1) : q[j] = x
                             THEN Ended(T[x], "dropped")
                             ELSE T[x]]
        BY <3>1, <2>3 DEF DrainFree, startable
      <3>4. i = 1 /\ q[i] = m
        BY <3>3, <2>3, <2>2
      <3> QED
        BY <3>2, <3>3, <3>4, <2>2
    <2>5. queue' = <<>>
      BY <2>4, <2>2
    <2>6. turn'[m].phase \in InFlight
      BY <2>4 DEF IInv, Slot
    <2>7. Over' = Over
      BY <2>4, <2>6, <1>1, <1>3 DEF Over, InFlight
    <2>8. TQ!Submit(m)
      BY <1>4, <1>6, <2>1, <2>4, <2>5, <2>7 DEF TQ!Submit
    <2> QED
      BY <1>2, <2>8 DEF TQ!Next
  <1>7. CASE active # Nil /\ queue' = Append(queue, m) /\ turn' = T /\ UNCHANGED active
    <2>1. Over' = Over
      BY <1>1, <1>3, <1>7 DEF Over
    <2>2. TQ!Submit(m)
      BY <1>4, <1>7, <2>1 DEF TQ!Submit
    <2> QED
      BY <1>2, <2>2 DEF TQ!Next
  <1> QED
    BY <1>5, <1>6, <1>7

(* The turn that ran is over, and the first turn that can start does.      *)
LEMMA FinishInOrder ==
    ASSUME ChatAssumption, IInv, NEW m \in Messages, turn[m].phase \in InFlight,
           NEW T, T = [turn EXCEPT ![m] = Ended(turn[m], "done")],
           NEW R, UNCHANGED records, DrainFree(queue, R, T)
    PROVE  TQ!Finish
  <1> DEFINE startable == {i \in DOMAIN queue : records[T[queue[i]].session] # Nil}
  <1>1. /\ turn \in [Messages -> TurnType] /\ queue \in Seq(Messages)
        /\ active = m /\ m # Nil /\ Len(queue) \in Nat /\ DOMAIN queue = 1..Len(queue)
    BY DEF IInv, Consistent, Slot, ChatAssumption
  <1>2. T[m].phase = "done" /\ \A x \in Messages : x # m => T[x] = turn[x]
    BY <1>1, EndedType
  <1>3. \A i \in DOMAIN queue : queue[i] \in Messages /\ queue[i] # m /\ turn[queue[i]].phase = "queued"
    BY <1>1 DEF IInv, Consistent, LineOf, InFlight
  <1>4. \A i \in DOMAIN queue : i \in startable <=> queue[i] \notin Gone
    <2> SUFFICES ASSUME NEW i \in DOMAIN queue
                 PROVE  i \in startable <=> queue[i] \notin Gone
      OBVIOUS
    <2>1. queue[i] \in Line /\ queue[i] \in Messages /\ T[queue[i]] = turn[queue[i]]
      BY <1>2, <1>3 DEF Line
    <2> QED
      BY <2>1 DEF Gone, IsOpen
  <1>5. \A x \in Messages : x \in Over <=> turn[x].phase \in {"done", "dropped"}
    BY DEF Over
  <1>6. \A x \in Messages : x \in Over' <=> turn'[x].phase \in {"done", "dropped"}
    BY DEF Over
  <1>7. Over \subseteq Messages /\ Over' \subseteq Messages
    BY DEF Over
  <1>8. \A x \in Messages : T[x] \in TurnType
    BY <1>1, EndedType
  <1>9. CASE /\ startable = {}
             /\ queue' = <<>>
             /\ active' = Nil
             /\ turn' = [x \in Messages |->
                    IF \E i \in DOMAIN queue : queue[i] = x THEN Ended(T[x], "dropped") ELSE T[x]]
    <2>1. Line \subseteq Gone
      BY <1>4, <1>9 DEF Line
    <2>2. \A x \in Messages : turn'[x].phase = IF x \in Line THEN "dropped" ELSE T[x].phase
      BY <1>8, <1>9, EndedType DEF Line
    <2>3. \A x \in Messages : x \in Over' <=> x \in Over \cup {m} \cup Line
      BY <2>2, <1>2, <1>5, <1>6
    <2>4. Over' = Over \cup {active} \cup Line
      BY <2>3, <1>1, <1>3, <1>7 DEF Line
    <2> QED
      BY <2>1, <2>4, <1>1, <1>9 DEF TQ!Finish, TQ!Line, Line
  <1>10. ASSUME NEW i \in startable,
                /\ IsFirst(i, startable)
                /\ queue' = SubSeq(queue, i + 1, Len(queue))
                /\ active' = queue[i]
                /\ turn' = [x \in Messages |->
                     IF x = queue[i]
                       THEN IF R[records[T[queue[i]].session]].runtime = Nil
                              THEN [T[queue[i]] EXCEPT !.phase = "ensuring",
                                                       !.record = records[T[queue[i]].session]]
                              ELSE Captured([T[queue[i]] EXCEPT !.record = records[T[queue[i]].session]],
                                            R[records[T[queue[i]].session]].runtime)
                       ELSE IF \E j \in 1..(i - 1) : queue[j] = x
                              THEN Ended(T[x], "dropped")
                              ELSE T[x]]
         PROVE  TQ!Finish
    <2> DEFINE before == {queue[j] : j \in 1..(i - 1)}
               n == queue[i]
    <2>1. i \in DOMAIN queue /\ i \in 1..Len(queue) /\ n \in Messages /\ n \notin Gone
      BY <1>1, <1>3, <1>4
    <2>2. \A j \in 1..(i - 1) : j \in DOMAIN queue /\ j \notin startable /\ j # i
      <3>1. ASSUME NEW j \in 1..(i - 1) PROVE j \in DOMAIN queue /\ j < i
        BY <2>1
      <3>2. IsFirst(i, startable)
        BY <1>10
      <3> HIDE DEF startable
      <3>3. \A j \in startable : i <= j
        BY <3>2 DEF IsFirst
      <3> QED
        BY <3>1, <3>3, <2>1, <1>1
    <2> HIDE DEF startable
    <2>3. before \subseteq Gone /\ before \subseteq Messages
      BY <2>2, <1>3, <1>4
    <2>4. n \notin before
      BY <2>3, <2>1
    <2>5. turn'[n].phase \notin {"done", "dropped"} /\ n \notin Over
      <3>1. /\ n \in Messages /\ turn[n].phase = "queued" /\ n # m
            /\ T[n] = turn[n] /\ turn[n] \in TurnType
        BY <1>1, <1>2, <1>3, <2>1
      <3> DEFINE r == records[T[n].session]
                 t == T[n]
      <3>2. turn'[n] \in {[t EXCEPT !.phase = "ensuring", !.record = r],
                          Captured([t EXCEPT !.record = r], R[r].runtime)}
        BY <1>10, <3>1
      <3>3. t \in TurnType
        BY <3>1
      <3> HIDE DEF t, r, n
      <3>4. turn'[n].phase \in {"ensuring", "prompting"}
        BY <3>2, <3>3 DEF TurnType, Captured
      <3> QED
        BY <3>1, <3>4, <1>5
    <2>6. \A x \in Messages : x \in before => turn'[x].phase = "dropped"
      BY <1>8, <1>10, <2>4, EndedType
    <2>7. \A x \in Messages : x # n /\ x \notin before => turn'[x] = T[x]
      BY <1>10
    <2> HIDE DEF before, n
    <2>8. \A x \in Messages : x \in Over' <=> x \in Over \cup {m} \cup before
      <3>1. n # m
        BY <1>3, <2>1 DEF n
      <3>2. \A x \in Messages : x # n => (x \in Over' <=> x \in Over \cup {m} \cup before)
        BY <1>2, <1>5, <1>6, <2>6, <2>7
      <3>3. n \notin Over' /\ n \notin Over \cup {m} \cup before
        BY <1>6, <2>1, <2>4, <2>5, <3>1
      <3> QED
        BY <3>2, <3>3
    <2>9. Over' = Over \cup {active} \cup before
      BY <2>3, <2>8, <1>1, <1>7
    <2> QED
      BY <1>1, <1>10, <2>1, <2>3, <2>9 DEF TQ!Finish, before, n
  <1> QED
    BY <1>9, <1>10 DEF DrainFree

LEMMA TurnEndsInOrder ==
    ASSUME ChatAssumption, IInv, IInv', NEW m \in Messages, TurnEnds(m)
    PROVE  TQ!Next
  <1>1. PICK R : DrainFree(queue, R, [turn EXCEPT ![m] = Ended(turn[m], "done")])
    BY DEF TurnEnds, FreeSlot
  <1>2. turn[m].phase \in InFlight /\ UNCHANGED records
    BY DEF TurnEnds
  <1>3. TQ!Finish
    BY <1>1, <1>2, FinishInOrder
  <1> QED
    BY <1>3, GoneTurns DEF TQ!Next

LEMMA ReleaseInOrder ==
    ASSUME IInv, IInv', NEW c \in Calls, NEW s \in Sessions, Release(c, s)
    PROVE  TQ!Next
  <1>1. PICK i \in (DOMAIN queue) \cup {0} :
          /\ queue' = IF i = 0 THEN queue
                      ELSE SubSeq(queue, 1, i - 1) \o SubSeq(queue, i + 1, Len(queue))
          /\ turn' = IF i = 0 THEN turn
                     ELSE [turn EXCEPT ![queue[i]] = Ended(turn[queue[i]], "dropped")]
    BY DEF Release
  <1>2. UNCHANGED active
    BY DEF Release
  <1>3. CASE i = 0
    BY <1>1, <1>2, <1>3, LineStays
  <1>4. CASE i # 0
    BY <1>1, <1>2, <1>4, LineShortens
  <1> QED
    BY <1>3, <1>4

(* A turn in flight moves on.                                              *)
LEMMA FlightInOrder ==
    ASSUME IInv, IInv', NEW m \in Messages, TurnRuntimeCreated(m) \/ TurnEvicted(m)
    PROVE  TQ!Next
  <1>1. UNCHANGED <<queue, active>>
    BY DEF TurnRuntimeCreated, TurnEvicted
  <1>2. turn \in [Messages -> TurnType] /\ turn[m].phase \in InFlight
    BY DEF IInv, Consistent, TurnRuntimeCreated, TurnEvicted, InFlight
  <1>3. \A n \in Messages : n # m => turn'[n] = turn[n]
    BY <1>2 DEF TurnRuntimeCreated, TurnEvicted
  <1>4. turn'[m].phase \in InFlight
    <2>1. turn[m] \in TurnType
      BY <1>2
    <2>2. \/ turn' = [turn EXCEPT ![m].phase = "evicting"]
          \/ \E rt : turn' = [turn EXCEPT ![m] = Captured(turn[m], rt)]
      BY DEF TurnRuntimeCreated, TurnEvicted
    <2>3. CASE turn' = [turn EXCEPT ![m].phase = "evicting"]
      BY <1>2, <2>1, <2>3 DEF InFlight, TurnType
    <2>4. ASSUME NEW rt, turn' = [turn EXCEPT ![m] = Captured(turn[m], rt)]
          PROVE  turn'[m].phase \in InFlight
      BY <1>2, <2>1, <2>4 DEF Captured, InFlight, TurnType
    <2> QED
      BY <2>2, <2>3, <2>4
  <1> QED
    BY <1>1, <1>2, <1>3, <1>4, LineStays DEF InFlight

(* Every step of the registry is a step of TurnQueue.                      *)
LEMMA StepInOrder ==
    ASSUME ChatAssumption, IInv, IInv', [Next]_vars
    PROVE  [TQ!Next]_TQ!tvars
  <1>1. CASE UNCHANGED <<queue, active, turn>>
    <2>1. \A m \in Messages : turn'[m].phase = turn[m].phase
      BY <1>1
    <2> QED
      BY <1>1, <2>1, LineStays
  <1>2. CASE Disconnect
    BY <1>2, DisconnectInOrder
  <1>3. ASSUME NEW s \in Sessions, NEW m \in Messages, Send(s, m) PROVE TQ!Next
    BY <1>3, SendInOrder
  <1>4. ASSUME NEW s \in Sessions, CancelQueuedTurn(s) PROVE TQ!Next
    BY <1>4, LineShortens DEF CancelQueuedTurn, Cancelled
  <1>5. ASSUME NEW m \in Messages, TurnStep(m) PROVE TQ!Next
    BY <1>5, FlightInOrder, TurnEndsInOrder DEF TurnStep
  <1>6. ASSUME NEW c \in Calls, NEW s \in Sessions, Release(c, s) PROVE TQ!Next
    BY <1>6, ReleaseInOrder
  <1>7. ASSUME \/ Attach \/ DisconnectTail \/ UNCHANGED vars
               \/ \E m \in Messages, a \in Questions, k \in QuestionKinds : AskUser(m, a, k)
               \/ \E a \in Questions : QuestionEnds(a)
               \/ \E c \in Calls, s \in Sessions, op \in {"open", "models"} : UseSession(c, s, op)
               \/ \E c \in Calls, s \in Sessions : SetModel(c, s) \/ OpenClosed(c, s)
               \/ \E c \in Calls : Create(c) \/ CallStep(c)
        PROVE  UNCHANGED <<queue, active, turn>>
    BY <1>7 DEF Attach, DisconnectTail, vars, AskUser, QuestionEnds, UseSession, SetModel,
                OpenClosed, Create, CallStep, LookedUp, CallRuntimeCreated, CallEvicted,
                ModelApplied, CallFails, Released
  <1> QED
    BY <1>1, <1>2, <1>3, <1>4, <1>5, <1>6, <1>7 DEF Next

(* The registry implements TurnQueue: whatever opens, releases, evictions, *)
(* questions and disconnects come between, turns run in the order in which *)
(* they were submitted, one at a time, a turn leaves the line only by      *)
(* running or by being dropped, and the slot is never free while an open   *)
(* session has a turn waiting (chatScheduler.ts, #drainQueue).             *)
THEOREM OrderKept == Spec => InOrder
  <1>1. Init => TQ!Init
    BY DEF Init, TQ!Init, Over, Gone, Line, NoTurn
  <1>2. IInv /\ IInv' /\ [Next]_vars => [TQ!Next]_TQ!tvars
    BY StepInOrder, ChatAssumption
  <1> QED
    BY <1>1, <1>2, Invariance, PTL DEF Spec, InOrder, TQ!Spec

-----------------------------------------------------------------------------
(* PromptedRuntimeLives.  The runtime a turn captured may be replaced in   *)
(* its record, but no other record ever has it, and only through a record  *)
(* that is another session's is a runtime disposed.                        *)
RecordsApart(M) ==
    \A s, t \in Sessions : M[s] = M[t] /\ M[s] # Nil => s = t

(* The runtimes that records have live, and each has one of its own.       *)
Owned(R, L) ==
    /\ \A r \in Records : R[r].runtime # Nil => R[r].runtime \in L
    /\ \A r, x \in Records : R[r].runtime = R[x].runtime /\ R[r].runtime # Nil => r = x

(* A turn t in flight: its record is its own session's, if any's.          *)
Mapped(t, M) ==
    t.phase \in InFlight => \A s \in Sessions : M[s] = t.record => s = t.session

AtWork(t, R, L) ==
    /\ t.phase = "evicting" => R[t.record].runtime # Nil
    /\ t.phase = "prompting" =>
          /\ t.runtime \in L
          /\ \A r \in Records : R[r].runtime = t.runtime => r = t.record

TurnsAtWork(M, R, L, T) == \A m \in Messages : Mapped(T[m], M) /\ AtWork(T[m], R, L)

PInv ==
    /\ RecordsApart(records)
    /\ Owned(rec, live)
    /\ TurnsAtWork(records, rec, live, turn)

SameRuntimes(R, S) == \A r \in Records : S[r].runtime = R[r].runtime

(* No turn enters the flight.                                              *)
NoneStarts(T, U) == \A m \in Messages : U[m] = T[m] \/ U[m].phase \notin InFlight

LEMMA StatesChange ==
    ASSUME NEW R, NEW S, SameRuntimes(R, S), NEW L, NEW M, NEW T, NEW U, NoneStarts(T, U),
           \A m \in Messages : T[m].phase \in InFlight => T[m].record \in Records,
           Owned(R, L), TurnsAtWork(M, R, L, T)
    PROVE  Owned(S, L) /\ TurnsAtWork(M, S, L, U)
  <1>1. Owned(S, L)
    BY DEF SameRuntimes, Owned
  <1>2. ASSUME NEW m \in Messages PROVE Mapped(U[m], M) /\ AtWork(U[m], S, L)
    <2>1. CASE U[m] = T[m]
      BY <2>1 DEF SameRuntimes, TurnsAtWork, Mapped, AtWork, InFlight
    <2>2. CASE U[m].phase \notin InFlight
      BY <2>2 DEF Mapped, AtWork, InFlight
    <2> QED
      BY <2>1, <2>2 DEF NoneStarts
  <1> QED
    BY <1>1, <1>2 DEF TurnsAtWork

(* Record r gets a new runtime.                                            *)
LEMMA RuntimeGained ==
    ASSUME NEW R \in [Records -> RecordType], NEW r \in Records, NEW L, NEW rt, rt \notin L, rt # Nil,
           NEW S, S = [R EXCEPT ![r].runtime = rt], NEW M, NEW T, 
           \A m \in Messages : T[m].phase \in InFlight => T[m].record \in Records,
           Owned(R, L), TurnsAtWork(M, R, L, T)
    PROVE  Owned(S, L \cup {rt}) /\ TurnsAtWork(M, S, L \cup {rt}, T)
  <1>1. S[r].runtime = rt /\ \A x \in Records : x # r => S[x] = R[x]
    OBVIOUS
  <1>2. \A x \in Records : R[x].runtime # rt
    BY DEF Owned
  <1>3. Owned(S, L \cup {rt})
    BY <1>1, <1>2 DEF Owned
  <1>4. ASSUME NEW m \in Messages PROVE Mapped(T[m], M) /\ AtWork(T[m], S, L \cup {rt})
    <2>1. Mapped(T[m], M) /\ AtWork(T[m], R, L)
      BY DEF TurnsAtWork
    <2>2. T[m].phase = "evicting" => S[T[m].record].runtime # Nil
      BY <1>1, <2>1 DEF AtWork, InFlight
    <2>3. T[m].phase = "prompting" => \A x \in Records : S[x].runtime = T[m].runtime => x = T[m].record
      BY <1>1, <2>1 DEF AtWork
    <2> QED
      BY <2>1, <2>2, <2>3 DEF AtWork
  <1> QED
    BY <1>3, <1>4 DEF TurnsAtWork

(* Record v loses its runtime, which is disposed.                          *)
LEMMA RuntimeLost ==
    ASSUME NEW R \in [Records -> RecordType], NEW v \in Records, NEW L, Nil \notin L,
           NEW S, S = Dropped(R, v), NEW M, NEW T,
           \A m \in Messages : T[m].phase \in InFlight => T[m].record \in Records /\ T[m].record # v,
           Owned(R, L), TurnsAtWork(M, R, L, T)
    PROVE  Owned(S, L \ {R[v].runtime}) /\ TurnsAtWork(M, S, L \ {R[v].runtime}, T)
  <1>1. S[v].runtime = Nil /\ \A x \in Records : x # v => S[x] = R[x]
    BY DEF Dropped
  <1>2. Owned(S, L \ {R[v].runtime})
    BY <1>1 DEF Owned
  <1>3. ASSUME NEW m \in Messages PROVE Mapped(T[m], M) /\ AtWork(T[m], S, L \ {R[v].runtime})
    <2>1. Mapped(T[m], M) /\ AtWork(T[m], R, L)
      BY DEF TurnsAtWork
    <2>2. T[m].phase = "evicting" => S[T[m].record].runtime # Nil
      BY <1>1, <2>1 DEF AtWork, InFlight
    <2>3. T[m].phase = "prompting" => 
             /\ T[m].runtime # R[v].runtime
             /\ \A x \in Records : S[x].runtime = T[m].runtime => x = T[m].record
      <3>1. HAVE T[m].phase = "prompting"
      <3>2. /\ T[m].runtime \in L /\ T[m].runtime # Nil /\ T[m].record # v
            /\ \A x \in Records : R[x].runtime = T[m].runtime => x = T[m].record
        BY <2>1, <3>1 DEF AtWork, InFlight
      <3> QED
        BY <1>1, <3>2
    <2> QED
      BY <2>1, <2>2, <2>3 DEF AtWork
  <1> QED
    BY <1>2, <1>3 DEF TurnsAtWork

-----------------------------------------------------------------------------
LEMMA MarkedRuntimes ==
    ASSUME NEW R \in [Records -> RecordType], NEW q, NEW T
    PROVE  SameRuntimes(R, MarkQueued(R, q, T))
  BY DEF SameRuntimes, MarkQueued

LEMMA StateRuntimes ==
    ASSUME NEW R \in [Records -> RecordType], NEW r, NEW state
    PROVE  SameRuntimes(R, [R EXCEPT ![r].state = state])
  BY DEF SameRuntimes

LEMMA IdleRuntimes ==
    ASSUME NEW R \in [Records -> RecordType]
    PROVE  SameRuntimes(R, QueuedToIdle(R))
  BY DEF SameRuntimes, QueuedToIdle

LEMMA RuntimesAgain ==
    ASSUME NEW Q, NEW R, NEW S, SameRuntimes(Q, R), SameRuntimes(R, S)
    PROVE  SameRuntimes(Q, S)
  BY DEF SameRuntimes

(* drainQueue with the slot free starts its turn with the runtime that its *)
(* record has, if any.                                                     *)
LEMMA DrainWorks ==
    ASSUME ChatAssumption, TypeOK, RecordsApart(records),
           NEW q, NEW T, NEW R \in [Records -> RecordType], NEW L,
           Consistent(q, T),
           \A m \in Messages : T[m].phase \notin InFlight,
           Owned(R, L),
           DrainFree(q, R, T)
    PROVE  Owned(rec', L) /\ TurnsAtWork(records, rec', L, turn')
  <1> DEFINE startable == {i \in DOMAIN q : records[T[q[i]].session] # Nil}
  <1>a. \A x \in Messages : T[x] \in TurnType /\ Ended(T[x], "dropped").phase = "dropped"
    BY EndedType DEF Consistent
  <1>1. CASE /\ rec' = R
             /\ turn' = [m \in Messages |->
                    IF \E i \in DOMAIN q : q[i] = m THEN Ended(T[m], "dropped") ELSE T[m]]
    <2>1. \A m \in Messages : turn'[m].phase \notin InFlight
      BY <1>1, <1>a DEF InFlight
    <2> QED
      BY <1>1, <2>1 DEF TurnsAtWork, Mapped, AtWork, InFlight
  <1>2. ASSUME NEW i \in startable,
               rec' = MarkQueued([R EXCEPT ![records[T[q[i]].session]].state = "running"],
                                 SubSeq(q, i + 1, Len(q)), T),
               turn' = [x \in Messages |->
                    IF x = q[i]
                      THEN IF R[records[T[q[i]].session]].runtime = Nil
                             THEN [T[q[i]] EXCEPT !.phase = "ensuring", !.record = records[T[q[i]].session]]
                             ELSE Captured([T[q[i]] EXCEPT !.record = records[T[q[i]].session]],
                                           R[records[T[q[i]].session]].runtime)
                      ELSE IF \E j \in 1..(i - 1) : q[j] = x
                             THEN Ended(T[x], "dropped")
                             ELSE T[x]]
        PROVE  Owned(rec', L) /\ TurnsAtWork(records, rec', L, turn')
    <2> DEFINE m == q[i]
               t == T[m]
               s == t.session
               r == records[s]
               run == [R EXCEPT ![r].state = "running"]
    <2>1. m \in Messages /\ m \in LineOf(q) /\ t \in TurnType /\ s \in Sessions /\ r \in Records
      BY <1>a DEF Consistent, LineOf, Waiting, TypeOK
    <2>2. run \in [Records -> RecordType]
      BY <2>1, StateChanges DEF SessionStates
    <2>3. SameRuntimes(R, rec')
      BY <2>1, <2>2, <1>2, StateRuntimes, MarkedRuntimes, RuntimesAgain
    <2>4. Owned(rec', L)
      BY <2>3 DEF SameRuntimes, Owned
    <2>5. \A x \in Messages : x # m => turn'[x].phase \notin InFlight
      BY <1>2, <1>a DEF InFlight
    <2>6. turn'[m] = IF R[r].runtime = Nil
                       THEN [t EXCEPT !.phase = "ensuring", !.record = r]
                       ELSE Captured([t EXCEPT !.record = r], R[r].runtime)
      BY <1>2, <2>1
    <2> DEFINE u == turn'[m]
    <2>7. /\ u.record = r /\ u.session = s
          /\ \/ u.phase = "ensuring"
             \/ u.phase = "prompting" /\ u.runtime = R[r].runtime /\ R[r].runtime # Nil
      <3> HIDE DEF t, r
      <3>1. t \in TurnType
        BY <2>1
      <3> QED
        BY <2>6, <3>1 DEF Captured, TurnType
    <2> HIDE DEF u, t
    <2>8. Mapped(u, records)
      BY <2>1, <2>7 DEF Mapped, RecordsApart, TypeOK
    <2>9. AtWork(u, rec', L)
      BY <2>1, <2>3, <2>7 DEF AtWork, SameRuntimes, Owned
    <2>10. \A x \in Messages : Mapped(turn'[x], records) /\ AtWork(turn'[x], rec', L)
      BY <2>5, <2>8, <2>9 DEF u, Mapped, AtWork, InFlight
    <2> QED
      BY <2>4, <2>10 DEF TurnsAtWork
  <1> QED
    BY <1>1, <1>2 DEF DrainFree

-----------------------------------------------------------------------------
(* A runtime is created for the record r of a session keep, and perhaps    *)
(* another one evicted; no runtime that is prompted is lost.               *)
LEMMA CreatedWorks ==
    ASSUME ChatAssumption, IInv, PInv, NEW r \in Records, NEW keep, NEW waits \in BOOLEAN,
           RuntimeCreated(r, keep, waits)
    PROVE  /\ Owned(rec', live')
           /\ TurnsAtWork(records, rec', live', turn)
           /\ (\A s \in Sessions : records[s] = r => s = keep)
                => rec'[r].runtime = NewRuntimeId /\ NewRuntimeId # Nil
  <1> DEFINE rt == NewRuntimeId
             R == [rec EXCEPT ![r].runtime = rt]
             victims == Evictable(R, keep, ActiveSession)
  <1>1. rt \in Runtimes /\ rt \notin live /\ rt # Nil
    BY DEF NewRuntimeId, RuntimeCreated, ChatAssumption, IInv, TypeOK
  <1>2. rec \in [Records -> RecordType] /\ R \in [Records -> RecordType]
    BY <1>1, RuntimeChanges DEF IInv, TypeOK
  <1>3. \A m \in Messages : turn[m].phase \in InFlight
                                => turn[m].record \in Records /\ turn[m].session = ActiveSession
    BY DEF IInv, Consistent, Slot, ActiveSession, ChatAssumption
  <1>a. Owned(rec, live) /\ TurnsAtWork(records, rec, live, turn)
    BY DEF PInv
  <1>4. /\ Owned(R, live \cup {rt}) /\ TurnsAtWork(records, R, live \cup {rt}, turn)
        /\ R[r].runtime = rt
    <2>1. R[r].runtime = rt
      BY <1>2
    <2> QED
      BY <1>a, <1>1, <1>2, <1>3, <2>1, RuntimeGained
  <1>5. \/ rec' = R /\ live' = live \cup {rt}
        \/ \E v \in victims : /\ rec' = Dropped(R, records[v])
                              /\ live' = (live \cup {rt}) \ {R[records[v]].runtime}
    BY DEF RuntimeCreated
  <1> HIDE DEF rt, R
  <1>6. CASE rec' = R /\ live' = live \cup {rt}
    BY <1>1, <1>4, <1>6 DEF rt
  <1>7. CASE \E v \in victims : /\ rec' = Dropped(R, records[v])
                              /\ live' = (live \cup {rt}) \ {R[records[v]].runtime}
    <2>1. PICK v \in victims : /\ rec' = Dropped(R, records[v])
                              /\ live' = (live \cup {rt}) \ {R[records[v]].runtime}
      BY <1>7
    <2>2. v \in Sessions /\ records[v] \in Records /\ v \notin {keep, ActiveSession}
      BY EvictableRecord DEF Evictable, IInv
    <2>3. \A m \in Messages : turn[m].phase \in InFlight => turn[m].record # records[v]
      BY <1>3, <2>2 DEF PInv, TurnsAtWork, Mapped
    <2>4. Nil \notin live \cup {rt}
      BY <1>1 DEF IInv, TypeOK, ChatAssumption
    <2>5. /\ Owned(rec', (live \cup {rt}) \ {R[records[v]].runtime})
          /\ TurnsAtWork(records, rec', (live \cup {rt}) \ {R[records[v]].runtime}, turn)
      BY <1>2, <1>3, <1>4, <2>1, <2>2, <2>3, <2>4, RuntimeLost
    <2>6. (\A s \in Sessions : records[s] = r => s = keep) => rec'[r] = R[r]
      BY <1>2, <2>1, <2>2 DEF Dropped
    <2> QED
      BY <1>1, <1>4, <2>1, <2>5, <2>6 DEF rt
  <1> QED
    BY <1>5, <1>6, <1>7

(* What the steps that leave the map and the runtimes alone keep.          *)
LEMMA CalmKeeps ==
    ASSUME IInv, PInv, UNCHANGED <<records, live>>, SameRuntimes(rec, rec'), NoneStarts(turn, turn')
    PROVE  PInv'
  <1>1. Owned(rec', live) /\ TurnsAtWork(records, rec', live, turn')
    BY StatesChange DEF PInv, IInv, Consistent
  <1> QED
    BY <1>1 DEF PInv, RecordsApart, TurnsAtWork, Mapped, AtWork, Owned

LEMMA SessionsKeep ==
    ASSUME IInv, PInv,
           \/ Attach \/ Disconnect \/ DisconnectTail
           \/ \E s \in Sessions : CancelQueuedTurn(s)
    PROVE  PInv'
  <1>0. rec \in [Records -> RecordType] /\ \A m \in Messages : turn[m] \in TurnType
    BY DEF IInv, TypeOK
  <1>1. \A m \in Messages : Ended(turn[m], "dropped").phase \notin InFlight
    BY <1>0, EndedType DEF InFlight
  <1>2. UNCHANGED <<records, live>>
    BY DEF Attach, Disconnect, DisconnectTail, CancelQueuedTurn
  <1>3. CASE Attach \/ Disconnect \/ DisconnectTail
    <2>1. NoneStarts(turn, turn')
      BY <1>1, <1>3 DEF Attach, Disconnect, DisconnectTail, NoneStarts
    <2>2. SameRuntimes(rec, rec')
      BY <1>0, <1>3, IdleRuntimes DEF Attach, Disconnect, DisconnectTail, SameRuntimes
    <2> QED
      BY <1>2, <2>1, <2>2, CalmKeeps
  <1>4. ASSUME NEW s \in Sessions, CancelQueuedTurn(s) PROVE PInv'
    <2> DEFINE idle == IF IsOpen(s) THEN [rec EXCEPT ![records[s]].state = "idle"] ELSE rec
    <2>1. PICK i, rest :
             /\ i \in DOMAIN queue
             /\ turn' = [turn EXCEPT ![queue[i]] = Ended(turn[queue[i]], "dropped")]
             /\ rec' = MarkQueued(idle, rest, turn)
      BY <1>4 DEF CancelQueuedTurn, Cancelled
    <2>2. queue[i] \in Messages
      BY <2>1 DEF IInv, TypeOK
    <2>3. NoneStarts(turn, turn')
      BY <1>1, <2>1, <2>2 DEF NoneStarts, IInv, TypeOK
    <2>4. idle \in [Records -> RecordType] /\ SameRuntimes(rec, idle)
      <3>1. CASE IsOpen(s)
        BY <1>0, <3>1, OpenRecord, StateChanges, StateRuntimes DEF SessionStates, IInv
      <3>2. CASE ~IsOpen(s)
        BY <1>0, <3>2 DEF SameRuntimes
      <3> QED
        BY <3>1, <3>2
    <2> HIDE DEF idle
    <2>5. SameRuntimes(rec, rec')
      BY <2>1, <2>4, MarkedRuntimes, RuntimesAgain
    <2> QED
      BY <1>2, <2>3, <2>5, CalmKeeps
  <1> QED
    BY <1>3, <1>4

LEMMA QuestionsKeep ==
    ASSUME IInv, PInv,
           \/ \E m \in Messages, a \in Questions, k \in QuestionKinds : AskUser(m, a, k)
           \/ \E a \in Questions : QuestionEnds(a)
    PROVE  PInv'
  <1>1. UNCHANGED <<records, live, turn>>
    BY DEF AskUser, QuestionEnds
  <1>2. \E r, state : rec' = [rec EXCEPT ![r].state = state]
    BY DEF AskUser, QuestionEnds
  <1>3. rec \in [Records -> RecordType]
    BY DEF IInv, TypeOK
  <1>4. PICK r, state : rec' = [rec EXCEPT ![r].state = state]
    BY <1>2
  <1>5. SameRuntimes(rec, rec')
    BY <1>3, <1>4, StateRuntimes
  <1>6. NoneStarts(turn, turn')
    BY <1>1 DEF NoneStarts
  <1> QED
    BY <1>1, <1>5, <1>6, CalmKeeps

LEMMA CallsKeep ==
    ASSUME IInv, PInv, NEW c \in Calls,
           \/ \E s \in Sessions, op \in {"open", "models"} : UseSession(c, s, op)
           \/ \E s \in Sessions : SetModel(c, s) \/ OpenClosed(c, s)
           \/ Create(c) \/ CallEvicted(c) \/ ModelApplied(c) \/ CallFails(c)
    PROVE  PInv'
  <1>1. UNCHANGED <<records, rec, live, turn>>
    BY DEF UseSession, SetModel, OpenClosed, Create, CallEvicted, ModelApplied, CallFails
  <1> QED
    BY <1>1 DEF PInv, RecordsApart, TurnsAtWork, Mapped, AtWork, Owned

(* A new record is nobody's, and its session had none.                     *)
LEMMA RegisterKeepsWork ==
    ASSUME ChatAssumption, IInv, PInv, NEW c, NEW op, NEW s \in Sessions, Register(c, op, s),
           UNCHANGED <<live, turn>>
    PROVE  PInv'
  <1> DEFINE r == NewRecordId
  <1>1. r \in Records /\ r \notin HeldRecords
    BY DEF Register, NewRecordId
  <1>2. /\ records' = [records EXCEPT ![s] = r] /\ rec' = [rec EXCEPT ![r] = NewRecord]
        /\ records \in [Sessions -> Records \cup {Nil}] /\ rec \in [Records -> RecordType]
    BY DEF Register, IInv, TypeOK
  <1>3. /\ \A t \in Sessions : records[t] # r
        /\ \A m \in Messages : turn[m].record # r
    BY <1>1 DEF HeldRecords
  <1> HIDE DEF r
  <1>4. /\ records'[s] = r /\ \A t \in Sessions : t # s => records'[t] = records[t]
        /\ rec'[r].runtime = Nil /\ \A x \in Records : x # r => rec'[x] = rec[x]
    BY <1>1, <1>2 DEF NewRecord
  <1>5. RecordsApart(records')
    BY <1>3, <1>4 DEF PInv, RecordsApart
  <1>6. Owned(rec', live)
    BY <1>4 DEF PInv, Owned
  <1>7. ASSUME NEW m \in Messages PROVE Mapped(turn[m], records') /\ AtWork(turn[m], rec', live)
    <2>1. Mapped(turn[m], records) /\ AtWork(turn[m], rec, live)
      BY DEF PInv, TurnsAtWork
    <2>2. Mapped(turn[m], records')
      BY <1>3, <1>4, <2>1 DEF Mapped
    <2>3. turn[m].phase \in InFlight => turn[m].record \in Records /\ turn[m].record # r
      BY <1>3 DEF IInv, Consistent
    <2>4. turn[m].phase = "evicting" => rec'[turn[m].record].runtime # Nil
      BY <1>4, <2>1, <2>3 DEF AtWork, InFlight
    <2>5. turn[m].phase = "prompting" =>
             \A x \in Records : rec'[x].runtime = turn[m].runtime => x = turn[m].record
      BY <1>4, <2>1 DEF AtWork, IInv, TypeOK, ChatAssumption
    <2> QED
      BY <2>1, <2>2, <2>4, <2>5 DEF AtWork
  <1> QED
    BY <1>5, <1>6, <1>7 DEF PInv, TurnsAtWork, RecordsApart, Mapped, AtWork, Owned

LEMMA LookedUpKeepsWork ==
    ASSUME ChatAssumption, IInv, PInv, NEW c \in Calls, LookedUp(c)
    PROVE  PInv'
  <1>1. UNCHANGED <<live, turn>>
    BY DEF LookedUp
  <1>2. CASE UNCHANGED <<records, rec>>
    BY <1>1, <1>2 DEF PInv, RecordsApart, TurnsAtWork, Mapped, AtWork, Owned
  <1>3. CASE \E s \in Sessions : \E op : Register(c, op, s)
    BY <1>1, <1>3, RegisterKeepsWork
  <1>4. calls[c].op = "open" => calls[c].session \in Sessions
    BY DEF LookedUp, IInv, CallsHold, GoodCall
  <1>5. fresh \subseteq Sessions
    BY DEF IInv, TypeOK
  <1> QED
    BY <1>2, <1>3, <1>4, <1>5 DEF LookedUp

(* A record leaves the map.                                                *)
LEMMA UnmappedKeepsWork ==
    ASSUME NEW M, NEW R, NEW L, NEW T, NEW s, NEW N, N = [M EXCEPT ![s] = Nil],
           M \in [Sessions -> Records \cup {Nil}],
           \A m \in Messages : T[m].phase \in InFlight => T[m].record \in Records,
           Nil \notin Records,
           RecordsApart(M), TurnsAtWork(M, R, L, T)
    PROVE  RecordsApart(N) /\ TurnsAtWork(N, R, L, T)
  <1>1. \A t \in Sessions : N[t] = M[t] \/ N[t] = Nil
    OBVIOUS
  <1> QED
    BY <1>1 DEF RecordsApart, TurnsAtWork, Mapped

LEMMA ReleasedKeepsWork ==
    ASSUME ChatAssumption, IInv, PInv, NEW c \in Calls, Released(c)
    PROVE  PInv'
  <1>0. /\ records' = [records EXCEPT ![calls[c].session] = Nil]
        /\ records \in [Sessions -> Records \cup {Nil}] /\ Nil \notin Records
        /\ \A m \in Messages : turn[m].phase \in InFlight => turn[m].record \in Records
        /\ RecordsApart(records) /\ TurnsAtWork(records, rec, live, turn)
    BY DEF Released, PInv, IInv, TypeOK, Consistent, ChatAssumption
  <1>a. \A t \in Sessions : records'[t] \in {records[t], Nil}
    BY <1>0
  <1>1. RecordsApart(records') /\ TurnsAtWork(records', rec, live, turn)
    BY <1>0, <1>a DEF RecordsApart, TurnsAtWork, Mapped
  <1> QED
    BY <1>1 DEF Released, PInv, RecordsApart, TurnsAtWork, Mapped, AtWork, Owned

LEMMA ReleaseKeepsWork ==
    ASSUME ChatAssumption, IInv, PInv, NEW c \in Calls, NEW s \in Sessions, Release(c, s)
    PROVE  PInv'
  <1> DEFINE r == records[s]
  <1>0. /\ r \in Records /\ rec \in [Records -> RecordType] /\ ActiveSession # s
        /\ \A m \in Messages : turn[m] \in TurnType
        /\ Nil \notin live
    BY OpenRecord DEF IInv, Release, TypeOK, ChatAssumption
  <1>1. PICK i, q :
           LET R == IF i = 0 THEN rec
                    ELSE MarkQueued([rec EXCEPT ![r].state = "idle"], q, turn)
           IN /\ i \in (DOMAIN queue) \cup {0}
              /\ turn' = IF i = 0 THEN turn
                         ELSE [turn EXCEPT ![queue[i]] = Ended(turn[queue[i]], "dropped")]
              /\ rec' = Dropped(R, r)
              /\ \/ live' = live \ {rec[r].runtime} /\ UNCHANGED records
                 \/ rec[r].runtime = Nil /\ records' = [records EXCEPT ![s] = Nil] /\ UNCHANGED live
    BY DEF Release
  <1> DEFINE R == IF i = 0 THEN rec
                    ELSE MarkQueued([rec EXCEPT ![r].state = "idle"], q, turn)
  <1>2. R \in [Records -> RecordType] /\ SameRuntimes(rec, R)
    <2>1. CASE i = 0
      BY <1>0, <2>1 DEF SameRuntimes
    <2>2. CASE i # 0
      BY <1>0, <2>2, StateChanges, StateRuntimes, MarkQueuedType, MarkedRuntimes, RuntimesAgain
         DEF SessionStates
    <2> QED
      BY <2>1, <2>2
  <1>3. NoneStarts(turn, turn')
    <2>1. \A m \in Messages : Ended(turn[m], "dropped").phase \notin InFlight
      BY <1>0, EndedType DEF InFlight
    <2>2. i # 0 => queue[i] \in Messages
      BY <1>1 DEF IInv, TypeOK
    <2>3. turn \in [Messages -> TurnType]
      BY DEF IInv, TypeOK
    <2> QED
      BY <1>1, <2>1, <2>2, <2>3 DEF NoneStarts
  <1>4. \A m \in Messages : turn'[m].phase \in InFlight => turn[m] = turn'[m]
    BY <1>3 DEF NoneStarts
  <1>5. Owned(R, live) /\ TurnsAtWork(records, R, live, turn')
    BY <1>2, <1>3, StatesChange DEF PInv, IInv, Consistent
  <1>6. \A m \in Messages : turn'[m].phase \in InFlight =>
                /\ turn'[m].record \in Records /\ turn'[m].record # r
    <2>1. SUFFICES ASSUME NEW m \in Messages, turn[m].phase \in InFlight
                   PROVE  turn[m].record \in Records /\ turn[m].record # r
      BY <1>4
    <2>2. turn[m].session = ActiveSession /\ turn[m].record \in Records
      BY <2>1 DEF IInv, Consistent, Slot, ActiveSession, ChatAssumption
    <2> QED
      BY <1>0, <2>1, <2>2 DEF PInv, TurnsAtWork, Mapped
  <1> HIDE DEF R
  <1>7. rec' = Dropped(R, r) /\ R[r].runtime = rec[r].runtime
    BY <1>0, <1>1, <1>2 DEF R, SameRuntimes
  <1>8. /\ Owned(rec', live \ {rec[r].runtime})
        /\ TurnsAtWork(records, rec', live \ {rec[r].runtime}, turn')
    BY <1>0, <1>2, <1>5, <1>6, <1>7, RuntimeLost
  <1>9. RecordsApart(records)
    BY DEF PInv
  <1>10. CASE live' = live \ {rec[r].runtime} /\ UNCHANGED records
    BY <1>8, <1>9, <1>10 DEF PInv, RecordsApart, TurnsAtWork, Mapped, AtWork, Owned
  <1>11. CASE rec[r].runtime = Nil /\ records' = [records EXCEPT ![s] = Nil] /\ UNCHANGED live
    <2>1. live \ {rec[r].runtime} = live'
      BY <1>0, <1>11
    <2>2. Owned(rec', live') /\ TurnsAtWork(records, rec', live', turn')
      BY <1>8, <2>1
    <2>3. RecordsApart(records') /\ TurnsAtWork(records', rec', live', turn')
      BY <1>6, <1>9, <1>11, <2>2, UnmappedKeepsWork DEF IInv, TypeOK, ChatAssumption
    <2> QED
      BY <2>2, <2>3 DEF PInv, RecordsApart, TurnsAtWork, Mapped, AtWork, Owned
  <1> QED
    BY <1>1, <1>10, <1>11

LEMMA CallRuntimeCreatedKeepsWork ==
    ASSUME ChatAssumption, IInv, PInv, NEW c \in Calls, CallRuntimeCreated(c)
    PROVE  PInv'
  <1>1. calls[c].record \in Records
    BY DEF CallRuntimeCreated, IInv, CallsHold, GoodCall
  <1>2. Owned(rec', live') /\ TurnsAtWork(records, rec', live', turn)
    BY <1>1, CreatedWorks DEF CallRuntimeCreated
  <1> QED
    BY <1>2 DEF CallRuntimeCreated, PInv, RecordsApart, TurnsAtWork, Mapped, AtWork, Owned

(* The turn in flight moves on to x.                                       *)
LEMMA MovedOnWorks ==
    ASSUME NEW M, NEW R, NEW L, NEW T, T \in [Messages -> TurnType], NEW m \in Messages,
           TurnsAtWork(M, R, L, T), NEW x, Mapped(x, M), AtWork(x, R, L)
    PROVE  TurnsAtWork(M, R, L, [T EXCEPT ![m] = x])
  BY DEF TurnsAtWork

LEMMA TurnRuntimeCreatedKeepsWork ==
    ASSUME ChatAssumption, IInv, PInv, NEW m \in Messages, TurnRuntimeCreated(m)
    PROVE  PInv'
  <1> DEFINE t == turn[m]
             r == t.record
  <1>1. /\ t.phase \in InFlight /\ r \in Records /\ t \in TurnType
        /\ turn \in [Messages -> TurnType]
    BY DEF TurnRuntimeCreated, IInv, Consistent, InFlight, TypeOK
  <1>2. PICK waits \in BOOLEAN :
           /\ RuntimeCreated(r, t.session, waits)
           /\ turn' = IF waits THEN [turn EXCEPT ![m].phase = "evicting"]
                      ELSE [turn EXCEPT ![m] = Captured(t, NewRuntimeId)]
    BY DEF TurnRuntimeCreated
  <1>3. Mapped(t, records)
    BY DEF PInv, TurnsAtWork
  <1>4. /\ Owned(rec', live') /\ TurnsAtWork(records, rec', live', turn)
        /\ rec'[r].runtime = NewRuntimeId /\ NewRuntimeId # Nil
    BY <1>1, <1>2, <1>3, CreatedWorks DEF Mapped
  <1> DEFINE next == [t EXCEPT !.phase = "evicting"]
             ready == Captured(t, NewRuntimeId)
  <1>5. /\ next.phase = "evicting" /\ next.session = t.session /\ next.record = r
        /\ ready.phase = "prompting" /\ ready.session = t.session /\ ready.record = r
        /\ ready.runtime = NewRuntimeId
    <2> DEFINE u == turn[m]
    <2>1. u \in TurnType /\ t = u
      BY <1>1
    <2> HIDE DEF u
    <2> QED
      BY <2>1 DEF Captured, TurnType
  <1>6. turn' \in {[turn EXCEPT ![m] = next], [turn EXCEPT ![m] = ready]}
    BY <1>2
  <1> HIDE DEF next, ready
  <1>7. Mapped(next, records) /\ Mapped(ready, records)
    BY <1>1, <1>3, <1>5 DEF Mapped, InFlight
  <1>8. AtWork(next, rec', live') /\ AtWork(ready, rec', live')
    BY <1>1, <1>4, <1>5 DEF AtWork, Owned
  <1>9. TurnsAtWork(records, rec', live', turn')
    BY <1>1, <1>4, <1>6, <1>7, <1>8, MovedOnWorks
  <1>10. UNCHANGED records
    BY DEF TurnRuntimeCreated
  <1> QED
    BY <1>4, <1>9, <1>10 DEF PInv, RecordsApart, TurnsAtWork, Mapped, AtWork, Owned

LEMMA TurnEvictedKeepsWork ==
    ASSUME ChatAssumption, IInv, PInv, NEW m \in Messages, TurnEvicted(m)
    PROVE  PInv'
  <1> DEFINE t == turn[m]
             r == t.record
             ready == Captured(t, rec[r].runtime)
  <1>1. /\ t.phase = "evicting" /\ t.phase \in InFlight /\ r \in Records /\ t \in TurnType
        /\ turn \in [Messages -> TurnType] /\ turn' = [turn EXCEPT ![m] = ready]
        /\ UNCHANGED <<records, rec, live>>
    BY DEF TurnEvicted, IInv, Consistent, InFlight, TypeOK
  <1>2. Mapped(t, records) /\ AtWork(t, rec, live) /\ TurnsAtWork(records, rec, live, turn)
    BY DEF PInv, TurnsAtWork
  <1>3. /\ ready.phase = "prompting" /\ ready.session = t.session /\ ready.record = r
        /\ ready.runtime = rec[r].runtime
    <2> DEFINE u == turn[m]
    <2>1. u \in TurnType /\ t = u
      BY <1>1
    <2> HIDE DEF u
    <2> QED
      BY <2>1 DEF Captured, TurnType
  <1> HIDE DEF ready
  <1>4. Mapped(ready, records)
    BY <1>1, <1>2, <1>3 DEF Mapped, InFlight
  <1>5. AtWork(ready, rec, live)
    BY <1>1, <1>2, <1>3 DEF AtWork, PInv, Owned
  <1>6. TurnsAtWork(records, rec, live, turn')
    BY <1>1, <1>2, <1>4, <1>5, MovedOnWorks
  <1> QED
    BY <1>1, <1>6 DEF PInv, RecordsApart, TurnsAtWork, Mapped, AtWork, Owned

LEMMA TurnEndsKeepsWork ==
    ASSUME ChatAssumption, IInv, PInv, NEW m \in Messages, TurnEnds(m)
    PROVE  PInv'
  <1>0. /\ TypeOK /\ turn[m].phase \in InFlight /\ turn[m].record \in Records
        /\ Nil \notin live /\ RecordsApart(records) /\ UNCHANGED records
    BY DEF IInv, Consistent, TurnEnds, TypeOK, ChatAssumption, PInv
  <1> DEFINE T == [turn EXCEPT ![m] = Ended(turn[m], "done")]
             R(outcome) == [rec EXCEPT ![turn[m].record].state = outcome]
  <1>1. Consistent(queue, T) /\ \A n \in Messages : T[n].phase \notin InFlight
    BY <1>0, EndKeeps DEF IInv
  <1>2. PICK outcome \in Outcomes :
          LET victims == Evictable(R(outcome), turn[m].session, Nil)
          IN \/ /\ FreeSlot(R(outcome), T)
                /\ UNCHANGED live
             \/ \E v \in victims :
                  /\ FreeSlot(Dropped(R(outcome), records[v]), T)
                  /\ live' = live \ {R(outcome)[records[v]].runtime}
    BY DEF TurnEnds
  <1>3. outcome \in SessionStates
    BY DEF ChatAssumption, SessionStates
  <1>4. R(outcome) \in [Records -> RecordType] /\ SameRuntimes(rec, R(outcome))
    BY <1>0, <1>3, StateChanges, StateRuntimes DEF TypeOK
  <1>5. Owned(R(outcome), live)
    BY <1>4 DEF PInv, Owned, SameRuntimes
  <1> HIDE DEF T, R
  <1>6. TurnsAtWork(records, R(outcome), live, T)
    BY <1>1 DEF TurnsAtWork, Mapped, AtWork, InFlight
  <1>7. CASE FreeSlot(R(outcome), T) /\ UNCHANGED live
    <2>1. Owned(rec', live) /\ TurnsAtWork(records, rec', live, turn')
      BY <1>0, <1>1, <1>4, <1>5, <1>7, DrainWorks DEF FreeSlot
    <2> QED
      BY <1>0, <1>7, <2>1 DEF PInv, RecordsApart, TurnsAtWork, Mapped, AtWork, Owned
  <1>8. ASSUME NEW v \in Evictable(R(outcome), turn[m].session, Nil),
               FreeSlot(Dropped(R(outcome), records[v]), T),
               live' = live \ {R(outcome)[records[v]].runtime}
        PROVE  PInv'
    <2>1. records[v] \in Records
      BY <1>0, EvictableRecord
    <2>2. Dropped(R(outcome), records[v]) \in [Records -> RecordType]
      BY <1>4, <2>1, RuntimeChanges DEF Dropped
    <2>3. Owned(Dropped(R(outcome), records[v]), live')
      BY <1>0, <1>1, <1>4, <1>5, <1>6, <1>8, <2>1, RuntimeLost
    <2> DEFINE S == Dropped(R(outcome), records[v])
               L == live'
    <2> HIDE DEF S, L
    <2>4. S \in [Records -> RecordType] /\ Owned(S, L) /\ DrainFree(queue, S, T)
      BY <1>8, <2>2, <2>3 DEF S, L, FreeSlot
    <2>5. Owned(rec', L) /\ TurnsAtWork(records, rec', L, turn')
      BY <1>0, <1>1, <2>4, DrainWorks
    <2> QED
      BY <1>0, <2>5 DEF L, PInv, RecordsApart, TurnsAtWork, Mapped, AtWork, Owned
  <1> QED
    BY <1>2, <1>7, <1>8

LEMMA SendKeepsWork ==
    ASSUME ChatAssumption, IInv, PInv, NEW s \in Sessions, NEW m \in Messages, Send(s, m)
    PROVE  PInv'
  <1> DEFINE q == Append(queue, m)
             T == [turn EXCEPT ![m] = Submitted(turn[m], s)]
             R == [rec EXCEPT ![records[s]].state =
                     IF active = Nil /\ queue = <<>> THEN "running" ELSE "queued"]
  <1>0. /\ TypeOK /\ Consistent(queue, turn) /\ Slot(active, queue, turn)
        /\ records[s] \in Records /\ turn[m].phase = "none"
        /\ RecordsApart(records)
    BY OpenRecord DEF IInv, Send, PInv
  <1>1. R \in [Records -> RecordType] /\ SameRuntimes(rec, R)
    BY <1>0, StateChanges, StateRuntimes DEF TypeOK, SessionStates
  <1>2. \A n \in LineOf(queue) : turn[n].session # s
    BY DEF Send, HasQueuedTurn, Line, LineOf
  <1>3. /\ Consistent(q, T)
        /\ \A n \in Messages : n # m => T[n] = turn[n]
        /\ T[m].phase = "queued"
    BY <1>0, <1>2, AppendKeeps
  <1>4. /\ UNCHANGED <<records, live>>
        /\ \/ active = Nil /\ DrainFree(q, R, T)
           \/ active # Nil /\ rec' = R /\ turn' = T
    BY DEF Send
  <1> HIDE DEF q, T, R
  <1>5. CASE active = Nil /\ DrainFree(q, R, T)
    <2>1. \A n \in Messages : T[n].phase \notin InFlight
      BY <1>0, <1>3, <1>5 DEF Slot, InFlight, ChatAssumption
    <2>2. Owned(R, live)
      BY <1>1 DEF PInv, Owned, SameRuntimes
    <2>3. Owned(rec', live) /\ TurnsAtWork(records, rec', live, turn')
      BY <1>0, <1>1, <1>3, <1>5, <2>1, <2>2, DrainWorks
    <2> QED
      BY <1>0, <1>4, <2>3 DEF PInv, RecordsApart, TurnsAtWork, Mapped, AtWork, Owned
  <1>6. CASE active # Nil /\ rec' = R /\ turn' = T
    BY <1>1, <1>3, <1>4, <1>6, CalmKeeps DEF NoneStarts, InFlight
  <1> QED
    BY <1>4, <1>5, <1>6

LEMMA InitWorks == ASSUME ChatAssumption, Init PROVE PInv
  <1>1. /\ \A m \in Messages : turn[m].phase = "none"
        /\ \A r \in Records : rec[r].runtime = Nil
        /\ \A s \in Sessions : records[s] = Nil
    BY DEF Init, NoTurn, NewRecord
  <1> QED
    BY <1>1 DEF PInv, RecordsApart, Owned, TurnsAtWork, Mapped, AtWork, InFlight

LEMMA StepKeepsWork == ASSUME ChatAssumption, IInv, PInv, [Next]_vars PROVE PInv'
  <1>1. CASE UNCHANGED vars
    BY <1>1 DEF vars, PInv, RecordsApart, TurnsAtWork, Mapped, AtWork, Owned
  <1>2. CASE \/ Attach \/ Disconnect \/ DisconnectTail
             \/ \E s \in Sessions : CancelQueuedTurn(s)
    BY <1>2, SessionsKeep
  <1>3. CASE \E s \in Sessions, m \in Messages : Send(s, m)
    BY <1>3, SendKeepsWork
  <1>4. CASE \E m \in Messages : TurnStep(m)
    BY <1>4, TurnRuntimeCreatedKeepsWork, TurnEvictedKeepsWork, TurnEndsKeepsWork DEF TurnStep
  <1>5. CASE \/ \E m \in Messages, a \in Questions, k \in QuestionKinds : AskUser(m, a, k)
             \/ \E a \in Questions : QuestionEnds(a)
    BY <1>5, QuestionsKeep
  <1>6. CASE \E c \in Calls, s \in Sessions, op \in {"open", "models"} : UseSession(c, s, op)
    BY <1>6, CallsKeep
  <1>7. CASE \E c \in Calls, s \in Sessions :
                SetModel(c, s) \/ OpenClosed(c, s) \/ Release(c, s)
    BY <1>7, CallsKeep, ReleaseKeepsWork
  <1>8. CASE \E c \in Calls : Create(c) \/ CallStep(c)
    BY <1>8, CallsKeep, LookedUpKeepsWork, CallRuntimeCreatedKeepsWork, ReleasedKeepsWork
       DEF CallStep
  <1> QED
    BY <1>1, <1>2, <1>3, <1>4, <1>5, <1>6, <1>7, <1>8 DEF Next

(* The runtime that drainQueue captured for a turn and prompts is not      *)
(* disposed before the prompt ends, whatever other sessions' calls create, *)
(* evict or release meanwhile (#evictRuntime, #disposeRuntime).            *)
THEOREM RuntimesLive == Spec => []PromptedRuntimeLives
  <1>1. Init => PInv
    BY InitWorks, ChatAssumption
  <1>2. IInv /\ PInv /\ [Next]_vars => PInv'
    BY StepKeepsWork, ChatAssumption
  <1>3. PInv => PromptedRuntimeLives
    BY DEF PInv, TurnsAtWork, AtWork, PromptedRuntimeLives
  <1> QED
    BY <1>1, <1>2, <1>3, Invariance, PTL DEF Spec

-----------------------------------------------------------------------------
(* RuntimeBound, when no question outlives the prompt that asked it.       *)

(* The open sessions whose record has a runtime.                           *)
Having(M, R) == {s \in Sessions : M[s] # Nil /\ R[M[s]].runtime # Nil}

Few(H, act) ==
    /\ IsFiniteSet(H)
    /\ Cardinality(H) <= IF act = Nil THEN MaxRuntimes ELSE MaxRuntimes + 1

(* Questions are put by the running turn, and only the record it works on  *)
(* is in a state that #evictRuntime leaves alone.                          *)
AskedByActive(A, act, T) ==
    \A a \in Questions :
        A[a].kind # "none" => act # Nil /\ A[a].turn = act /\ A[a].record = T[act].record

BusyIsActive(R, act, T) ==
    \A r \in Records : R[r].state \in Busy => act # Nil /\ r = T[act].record

BInv ==
    /\ Few(Having(records, rec), active)
    /\ AskedByActive(asks, active, turn)
    /\ BusyIsActive(rec, active, turn)

(* No record becomes busy.                                                 *)
NoneBusier(R, S) == \A r \in Records : S[r].state \in Busy => R[r].state \in Busy

LEMMA FewerHave ==
    ASSUME ChatAssumption, NEW H, NEW act, Few(H, act), NEW G \in SUBSET H
    PROVE  Few(G, act)
  <1>1. IsFiniteSet(G) /\ Cardinality(G) <= Cardinality(H)
    BY FS_Subset DEF Few
  <1>2. Cardinality(G) \in Nat /\ Cardinality(H) \in Nat
    BY <1>1, FS_CardinalityType DEF Few
  <1> QED
    BY <1>1, <1>2 DEF Few, ChatAssumption

LEMMA SameHave ==
    ASSUME NEW M \in [Sessions -> Records \cup {Nil}], NEW R, NEW S, SameRuntimes(R, S)
    PROVE  Having(M, S) = Having(M, R)
  BY DEF Having, SameRuntimes

LEMMA EvictableSet ==
    ASSUME NEW R, NEW keep, NEW running
    PROVE  Evictable(R, keep, running) =
             IF Cardinality(Having(records, R)) <= MaxRuntimes
               THEN {}
               ELSE {s \in Having(records, R) : /\ s \notin {keep, running}
                                                /\ R[records[s]].state \notin Busy}
  BY DEF Evictable, Having

(* Records lose runtimes or leave the map, none gets busy.                 *)
LEMMA BoundStays ==
    ASSUME ChatAssumption, BInv, UNCHANGED <<active, asks>>,
           Having(records', rec') \subseteq Having(records, rec),
           NoneBusier(rec, rec'),
           active # Nil => turn'[active].record = turn[active].record
    PROVE  BInv'
  <1>1. Few(Having(records', rec'), active')
    BY FewerHave DEF BInv
  <1>2. AskedByActive(asks', active', turn')
    BY DEF BInv, AskedByActive
  <1>3. BusyIsActive(rec', active', turn')
    BY DEF BInv, BusyIsActive, NoneBusier
  <1> QED
    BY <1>1, <1>2, <1>3 DEF BInv

LEMMA CalmBound ==
    ASSUME ChatAssumption, IInv, BInv, UNCHANGED <<records, active, asks>>,
           SameRuntimes(rec, rec'), NoneBusier(rec, rec'),
           active # Nil => turn'[active].record = turn[active].record
    PROVE  BInv'
  <1>1. Having(records', rec') = Having(records, rec)
    BY SameHave DEF IInv, TypeOK
  <1> QED
    BY <1>1, BoundStays

LEMMA MarkedStates ==
    ASSUME NEW R \in [Records -> RecordType], NEW q, NEW T
    PROVE  NoneBusier(R, MarkQueued(R, q, T))
  BY DEF NoneBusier, MarkQueued, Busy, RecordType

LEMMA IdleGiven ==
    ASSUME NEW R \in [Records -> RecordType], NEW r \in Records,
           NEW S, S = [R EXCEPT ![r].state = "idle"]
    PROVE  S \in [Records -> RecordType] /\ SameRuntimes(R, S) /\ NoneBusier(R, S)
  <1>1. S \in [Records -> RecordType]
    BY StateChanges DEF SessionStates
  <1>2. SameRuntimes(R, S)
    BY StateRuntimes
  <1>3. S[r].state = "idle" /\ \A x \in Records : x # r => S[x] = R[x]
    BY DEF RecordType
  <1> QED
    BY <1>1, <1>2, <1>3 DEF NoneBusier, Busy

(* The turn in flight is the active one's.                                 *)
LEMMA ActiveTurn ==
    ASSUME IInv, active # Nil
    PROVE  /\ active \in Messages /\ turn[active] \in TurnType
           /\ turn[active].phase \in InFlight /\ turn[active].phase # "queued"
           /\ turn[active].record \in Records /\ turn[active].session = ActiveSession
           /\ active \notin Line
  BY DEF IInv, Slot, Consistent, ActiveSession, Line, LineOf, InFlight

LEMMA SessionsBound ==
    ASSUME ChatAssumption, IInv, BInv,
           \/ Attach \/ Disconnect \/ DisconnectTail
           \/ \E s \in Sessions : CancelQueuedTurn(s)
    PROVE  BInv'
  <1>0. rec \in [Records -> RecordType] /\ turn \in [Messages -> TurnType]
    BY DEF IInv, TypeOK
  <1>1. UNCHANGED <<records, active, asks>>
    BY DEF Attach, Disconnect, DisconnectTail, CancelQueuedTurn
  <1>2. SameRuntimes(rec, QueuedToIdle(rec)) /\ NoneBusier(rec, QueuedToIdle(rec))
    BY <1>0 DEF SameRuntimes, NoneBusier, QueuedToIdle, Busy, RecordType
  <1>3. SameRuntimes(rec, rec) /\ NoneBusier(rec, rec)
    BY DEF SameRuntimes, NoneBusier
  <1>4. CASE Attach \/ Disconnect \/ DisconnectTail
    <2>1. rec' \in {rec, QueuedToIdle(rec)}
      BY <1>4 DEF Attach, Disconnect, DisconnectTail
    <2>2. active # Nil => turn'[active].record = turn[active].record
      BY <1>4, ActiveTurn DEF Attach, Disconnect, DisconnectTail
    <2> QED
      BY <1>1, <1>2, <1>3, <2>1, <2>2, CalmBound
  <1>5. ASSUME NEW s \in Sessions, CancelQueuedTurn(s) PROVE BInv'
    <2> DEFINE idle == IF IsOpen(s) THEN [rec EXCEPT ![records[s]].state = "idle"] ELSE rec
    <2>1. PICK i, rest :
             /\ i \in DOMAIN queue
             /\ turn' = [turn EXCEPT ![queue[i]] = Ended(turn[queue[i]], "dropped")]
             /\ rec' = MarkQueued(idle, rest, turn)
      BY <1>5 DEF CancelQueuedTurn, Cancelled
    <2>2. active # Nil => turn'[active].record = turn[active].record
      BY <1>0, <2>1, ActiveTurn DEF Line
    <2>4. idle \in [Records -> RecordType] /\ SameRuntimes(rec, idle) /\ NoneBusier(rec, idle)
      <3>1. CASE IsOpen(s)
        BY <1>0, <3>1, OpenRecord, IdleGiven DEF IInv
      <3>2. CASE ~IsOpen(s)
        BY <1>0, <1>3, <3>2
      <3> QED
        BY <3>1, <3>2
    <2> HIDE DEF idle
    <2>5. SameRuntimes(rec, rec') /\ NoneBusier(rec, rec')
      <3>1. SameRuntimes(idle, rec') /\ NoneBusier(idle, rec')
        BY <2>1, <2>4, MarkedRuntimes, MarkedStates
      <3> QED
        BY <2>4, <3>1 DEF SameRuntimes, NoneBusier
    <2> QED
      BY <1>1, <2>2, <2>5, CalmBound
  <1> QED
    BY <1>4, <1>5

LEMMA AskUserBound ==
    ASSUME ChatAssumption, IInv, BInv, NEW m \in Messages, NEW a \in Questions,
           NEW kind \in QuestionKinds, AskUser(m, a, kind)
    PROVE  BInv'
  <1>1. active = m /\ active # Nil
    BY DEF AskUser, IInv, Slot, InFlight, ChatAssumption
  <1>2. turn[m].record \in Records /\ rec \in [Records -> RecordType]
    BY DEF AskUser, IInv, Consistent, InFlight, TypeOK
  <1>3. /\ rec' = [rec EXCEPT ![turn[m].record].state = kind] /\ UNCHANGED <<records, active, turn>>
        /\ asks' = [asks EXCEPT ![a] = [kind |-> kind, turn |-> m, record |-> turn[m].record,
                                        previous |-> rec[turn[m].record].state]]
    BY DEF AskUser
  <1>4. SameRuntimes(rec, rec')
    BY <1>2, <1>3, StateRuntimes
  <1>5. Having(records', rec') = Having(records, rec)
    BY <1>3, <1>4, SameHave DEF IInv, TypeOK
  <1>6. AskedByActive(asks', active', turn')
    BY <1>1, <1>3 DEF BInv, AskedByActive, IInv, TypeOK
  <1>7. BusyIsActive(rec', active', turn')
    BY <1>1, <1>2, <1>3 DEF BInv, BusyIsActive
  <1> QED
    BY <1>3, <1>5, <1>6, <1>7 DEF BInv

LEMMA QuestionEndsBound ==
    ASSUME ChatAssumption, IInv, BInv, NEW a \in Questions, QuestionEnds(a)
    PROVE  BInv'
  <1> DEFINE state == IF asks[a].previous = asks[a].kind THEN "running" ELSE asks[a].previous
             r == asks[a].record
  <1>1. /\ active # Nil /\ r = turn[active].record /\ r \in Records
        /\ rec \in [Records -> RecordType]
    BY DEF QuestionEnds, BInv, AskedByActive, IInv, QuestionsHold, TypeOK
  <1>2. /\ rec' = [rec EXCEPT ![r].state = state] /\ UNCHANGED <<records, active, turn>>
        /\ asks' = [asks EXCEPT ![a] = NoQuestion]
    BY DEF QuestionEnds
  <1> HIDE DEF state, r
  <1>4. SameRuntimes(rec, rec')
    BY <1>1, <1>2, StateRuntimes
  <1>5. Having(records', rec') = Having(records, rec)
    BY <1>2, <1>4, SameHave DEF IInv, TypeOK
  <1>6. AskedByActive(asks', active', turn')
    BY <1>2 DEF BInv, AskedByActive, IInv, TypeOK, NoQuestion
  <1>7. BusyIsActive(rec', active', turn')
    BY <1>1, <1>2 DEF BInv, BusyIsActive
  <1> QED
    BY <1>2, <1>5, <1>6, <1>7 DEF BInv

LEMMA CallsBound ==
    ASSUME ChatAssumption, IInv, BInv, NEW c \in Calls,
           \/ \E s \in Sessions, op \in {"open", "models"} : UseSession(c, s, op)
           \/ \E s \in Sessions : SetModel(c, s) \/ OpenClosed(c, s)
           \/ Create(c) \/ CallEvicted(c) \/ ModelApplied(c) \/ CallFails(c)
    PROVE  BInv'
  <1>1. UNCHANGED <<records, rec, active, asks, turn>>
    BY DEF UseSession, SetModel, OpenClosed, Create, CallEvicted, ModelApplied, CallFails
  <1> QED
    BY <1>1, CalmBound DEF SameRuntimes, NoneBusier

LEMMA RegisterBound ==
    ASSUME ChatAssumption, IInv, BInv, NEW c, NEW op, NEW s \in Sessions, Register(c, op, s),
           UNCHANGED <<active, asks, turn>>
    PROVE  BInv'
  <1> DEFINE r == NewRecordId
  <1>1. r \in Records /\ r \notin HeldRecords
    BY DEF Register, NewRecordId
  <1>2. /\ records' = [records EXCEPT ![s] = r] /\ rec' = [rec EXCEPT ![r] = NewRecord]
        /\ records \in [Sessions -> Records \cup {Nil}] /\ rec \in [Records -> RecordType]
    BY DEF Register, IInv, TypeOK
  <1>3. \A t \in Sessions : records[t] # r
    BY <1>1 DEF HeldRecords
  <1> HIDE DEF r
  <1>4. /\ records'[s] = r /\ \A t \in Sessions : t # s => records'[t] = records[t]
        /\ rec'[r].runtime = Nil /\ rec'[r].state = "idle"
        /\ \A x \in Records : x # r => rec'[x] = rec[x]
    BY <1>1, <1>2 DEF NewRecord
  <1>5. Having(records', rec') \subseteq Having(records, rec)
    BY <1>2, <1>3, <1>4 DEF Having
  <1>6. NoneBusier(rec, rec')
    BY <1>4 DEF NoneBusier, Busy
  <1> QED
    BY <1>5, <1>6, BoundStays

LEMMA LookedUpBound ==
    ASSUME ChatAssumption, IInv, BInv, NEW c \in Calls, LookedUp(c)
    PROVE  BInv'
  <1>1. UNCHANGED <<active, asks, turn>>
    BY DEF LookedUp
  <1>2. CASE UNCHANGED <<records, rec>>
    BY <1>1, <1>2, CalmBound DEF SameRuntimes, NoneBusier
  <1>3. CASE \E s \in Sessions : \E op : Register(c, op, s)
    BY <1>1, <1>3, RegisterBound
  <1>4. calls[c].op = "open" => calls[c].session \in Sessions
    BY DEF LookedUp, IInv, CallsHold, GoodCall
  <1>5. fresh \subseteq Sessions
    BY DEF IInv, TypeOK
  <1> QED
    BY <1>2, <1>3, <1>4, <1>5 DEF LookedUp

LEMMA ReleasedBound ==
    ASSUME ChatAssumption, IInv, BInv, NEW c \in Calls, Released(c)
    PROVE  BInv'
  <1>1. /\ records' = [records EXCEPT ![calls[c].session] = Nil] /\ UNCHANGED <<rec, active, asks, turn>>
        /\ records \in [Sessions -> Records \cup {Nil}]
    BY DEF Released, IInv, TypeOK
  <1>2. \A t \in Sessions : records'[t] \in {records[t], Nil}
    BY <1>1
  <1>3. Having(records', rec') \subseteq Having(records, rec)
    BY <1>1, <1>2 DEF Having
  <1> QED
    BY <1>1, <1>3, BoundStays DEF NoneBusier

LEMMA ReleaseBound ==
    ASSUME ChatAssumption, IInv, BInv, NEW c \in Calls, NEW s \in Sessions, Release(c, s)
    PROVE  BInv'
  <1> DEFINE r == records[s]
  <1>0. /\ r \in Records /\ rec \in [Records -> RecordType] /\ turn \in [Messages -> TurnType]
        /\ records \in [Sessions -> Records \cup {Nil}]
        /\ UNCHANGED <<active, asks>>
    BY OpenRecord DEF IInv, Release, TypeOK
  <1>1. PICK i, q :
           LET R == IF i = 0 THEN rec
                    ELSE MarkQueued([rec EXCEPT ![r].state = "idle"], q, turn)
           IN /\ i \in (DOMAIN queue) \cup {0}
              /\ turn' = IF i = 0 THEN turn
                         ELSE [turn EXCEPT ![queue[i]] = Ended(turn[queue[i]], "dropped")]
              /\ rec' = Dropped(R, r)
              /\ \/ UNCHANGED records
                 \/ records' = [records EXCEPT ![s] = Nil]
    BY DEF Release
  <1> DEFINE R == IF i = 0 THEN rec
                    ELSE MarkQueued([rec EXCEPT ![r].state = "idle"], q, turn)
             I == [rec EXCEPT ![r].state = "idle"]
  <1>2. R \in [Records -> RecordType] /\ SameRuntimes(rec, R) /\ NoneBusier(rec, R)
    <2>1. CASE i = 0
      BY <1>0, <2>1 DEF SameRuntimes, NoneBusier
    <2>2. CASE i # 0
      <3>1. I \in [Records -> RecordType] /\ SameRuntimes(rec, I) /\ NoneBusier(rec, I)
        BY <1>0, IdleGiven
      <3> HIDE DEF I
      <3>2. R = MarkQueued(I, q, turn)
        BY <2>2 DEF I
      <3> HIDE DEF R
      <3>3. R \in [Records -> RecordType] /\ SameRuntimes(I, R) /\ NoneBusier(I, R)
        BY <3>1, <3>2, MarkQueuedType, MarkedRuntimes, MarkedStates
      <3> QED
        BY <3>1, <3>3 DEF SameRuntimes, NoneBusier
    <2> QED
      BY <2>1, <2>2
  <1>3. active # Nil => turn'[active].record = turn[active].record
    <2>1. i # 0 => queue[i] \in Line
      BY <1>1 DEF Line
    <2> QED
      BY <1>0, <1>1, <2>1, ActiveTurn
  <1>4. rec' = Dropped(R, r)
    BY <1>1
  <1> HIDE DEF R
  <1>5. /\ NoneBusier(rec, rec')
        /\ \A x \in Records : rec'[x].runtime # Nil => rec[x].runtime # Nil
    BY <1>0, <1>2, <1>4 DEF Dropped, NoneBusier, SameRuntimes, RecordType
  <1>6. \A t \in Sessions : records'[t] \in {records[t], Nil}
    BY <1>0, <1>1
  <1>7. Having(records', rec') \subseteq Having(records, rec)
    BY <1>0, <1>5, <1>6 DEF Having
  <1> QED
    BY <1>0, <1>3, <1>5, <1>7, BoundStays

(* drainQueue with the slot free: the records keep their runtimes, and the *)
(* one it makes busy is that of the turn it starts.                        *)
LEMMA DrainStates ==
    ASSUME TypeOK, NEW q, NEW T, NEW R \in [Records -> RecordType], Consistent(q, T),
           DrainFree(q, R, T)
    PROVE  /\ SameRuntimes(R, rec')
           /\ \/ /\ active' = Nil /\ NoneBusier(R, rec')
                 /\ \A i \in DOMAIN q : records[T[q[i]].session] = Nil
              \/ \E i \in DOMAIN q :
                    /\ active' = q[i] /\ turn'[q[i]].record = records[T[q[i]].session]
                    /\ \A r \in Records : rec'[r].state \in Busy =>
                          R[r].state \in Busy \/ r = turn'[q[i]].record
  <1> DEFINE startable == {i \in DOMAIN q : records[T[q[i]].session] # Nil}
  <1>1. CASE startable = {} /\ active' = Nil /\ rec' = R
    BY <1>1 DEF SameRuntimes, NoneBusier
  <1>2. ASSUME NEW i \in startable,
               rec' = MarkQueued([R EXCEPT ![records[T[q[i]].session]].state = "running"],
                                 SubSeq(q, i + 1, Len(q)), T),
               active' = q[i],
               turn' = [x \in Messages |->
                    IF x = q[i]
                      THEN IF R[records[T[q[i]].session]].runtime = Nil
                             THEN [T[q[i]] EXCEPT !.phase = "ensuring", !.record = records[T[q[i]].session]]
                             ELSE Captured([T[q[i]] EXCEPT !.record = records[T[q[i]].session]],
                                           R[records[T[q[i]].session]].runtime)
                      ELSE IF \E j \in 1..(i - 1) : q[j] = x
                             THEN Ended(T[x], "dropped")
                             ELSE T[x]]
        PROVE  /\ SameRuntimes(R, rec')
               /\ turn'[q[i]].record = records[T[q[i]].session]
               /\ \A r \in Records : rec'[r].state \in Busy =>
                          R[r].state \in Busy \/ r = turn'[q[i]].record
    <2> DEFINE m == q[i]
               t == T[m]
               r == records[t.session]
               run == [R EXCEPT ![r].state = "running"]
    <2>1. m \in Messages /\ t \in TurnType /\ r \in Records
      BY DEF Consistent, LineOf, Waiting, TypeOK
    <2>2. /\ run \in [Records -> RecordType]
          /\ \A x \in Records : x # r => run[x] = R[x]
      BY <2>1, StateChanges DEF SessionStates
    <2>3. SameRuntimes(R, rec')
      BY <2>1, <2>2, <1>2, StateRuntimes, MarkedRuntimes, RuntimesAgain
    <2>4. turn'[m] = IF R[r].runtime = Nil
                       THEN [t EXCEPT !.phase = "ensuring", !.record = r]
                       ELSE Captured([t EXCEPT !.record = r], R[r].runtime)
      BY <1>2, <2>1
    <2> DEFINE u == turn'[m]
    <2>5. u.record = r
      <3> HIDE DEF t, r
      <3>1. t \in TurnType
        BY <2>1
      <3> QED
        BY <2>4, <3>1 DEF Captured, TurnType
    <2>6. NoneBusier(run, rec')
      BY <1>2, <2>2, MarkedStates
    <2> QED
      BY <2>2, <2>3, <2>5, <2>6 DEF NoneBusier
  <1> QED
    BY <1>1, <1>2 DEF DrainFree

LEMMA SendBound ==
    ASSUME ChatAssumption, IInv, BInv, NEW s \in Sessions, NEW m \in Messages, Send(s, m)
    PROVE  BInv'
  <1> DEFINE q == Append(queue, m)
             T == [turn EXCEPT ![m] = Submitted(turn[m], s)]
             R == [rec EXCEPT ![records[s]].state =
                     IF active = Nil /\ queue = <<>> THEN "running" ELSE "queued"]
  <1>0. /\ TypeOK /\ Consistent(queue, turn) /\ Slot(active, queue, turn)
        /\ records[s] \in Records /\ turn[m].phase = "none"
        /\ rec \in [Records -> RecordType] /\ Nil \notin Messages
    BY OpenRecord DEF IInv, Send, TypeOK, ChatAssumption
  <1>1. R \in [Records -> RecordType] /\ SameRuntimes(rec, R)
    BY <1>0, StateChanges, StateRuntimes DEF TypeOK, SessionStates
  <1>2. \A n \in LineOf(queue) : turn[n].session # s
    BY DEF Send, HasQueuedTurn, Line, LineOf
  <1>3. /\ Consistent(q, T)
        /\ \A n \in Messages : n # m => T[n] = turn[n]
        /\ T[m].phase = "queued" /\ T[m].session = s
    BY <1>0, <1>2, AppendKeeps
  <1>4. /\ UNCHANGED <<records, asks>>
        /\ \/ active = Nil /\ DrainFree(q, R, T)
           \/ active # Nil /\ rec' = R /\ turn' = T /\ UNCHANGED active
    BY DEF Send
  <1>r. \A x \in Records : x # records[s] => R[x] = rec[x]
    OBVIOUS
  <1>5. CASE active = Nil /\ DrainFree(q, R, T)
    <2>0. q = <<m>> /\ DOMAIN q = {1} /\ q[1] = m
      BY <1>0, <1>5 DEF Slot
    <2> HIDE DEF q, T, R
    <2>1. /\ SameRuntimes(R, rec') /\ active' = m /\ turn'[m].record = records[s]
          /\ \A r \in Records : rec'[r].state \in Busy =>
                          R[r].state \in Busy \/ r = turn'[m].record
      <3>1. records[s] # Nil
        BY DEF Send, IsOpen
      <3> QED
        BY <1>0, <1>1, <1>3, <1>5, <2>0, <3>1, DrainStates
    <2>2. Having(records', rec') = Having(records, rec)
      BY <1>0, <1>1, <1>4, <2>1, SameHave, RuntimesAgain DEF TypeOK
    <2>3. Few(Having(records', rec'), active')
      <3>1. IsFiniteSet(Having(records, rec)) /\ Cardinality(Having(records, rec)) <= MaxRuntimes
        BY <1>5 DEF BInv, Few
      <3>2. Cardinality(Having(records, rec)) \in Nat
        BY <3>1, FS_CardinalityType
      <3> QED
        BY <2>2, <3>1, <3>2 DEF Few, ChatAssumption
    <2>4. AskedByActive(asks', active', turn')
      BY <1>4, <1>5 DEF BInv, AskedByActive
    <2>5. BusyIsActive(rec', active', turn')
      BY <1>0, <1>5, <1>r, <2>1 DEF BInv, BusyIsActive
    <2> QED
      BY <2>3, <2>4, <2>5 DEF BInv
  <1>6. CASE active # Nil /\ rec' = R /\ turn' = T /\ UNCHANGED active
    <2>1. R[records[s]].state = "queued"
      BY <1>0, <1>6 DEF RecordType
    <2> HIDE DEF T, R
    <2>2. NoneBusier(rec, rec')
      BY <1>6, <1>r, <2>1 DEF NoneBusier, Busy
    <2>3. turn'[active].record = turn[active].record
      BY <1>0, <1>3, <1>6, ActiveTurn DEF InFlight
    <2> QED
      BY <1>1, <1>4, <1>6, <2>2, <2>3, CalmBound
  <1> QED
    BY <1>4, <1>5, <1>6

(* An eviction takes the runtime of one session's record only, since the   *)
(* records of the map are apart.                                           *)
LEMMA OneLoses ==
    ASSUME TypeOK, RecordsApart(records), NEW R \in [Records -> RecordType],
           NEW v \in Having(records, R)
    PROVE  /\ records[v] \in Records
           /\ Having(records, Dropped(R, records[v])) = Having(records, R) \ {v}
           /\ NoneBusier(R, Dropped(R, records[v]))
  <1>1. v \in Sessions /\ records[v] \in Records
    BY DEF Having, TypeOK
  <1> DEFINE S == Dropped(R, records[v])
  <1>2. /\ S[records[v]].runtime = Nil /\ S[records[v]].state = R[records[v]].state
        /\ \A x \in Records : x # records[v] => S[x] = R[x]
    BY <1>1 DEF Dropped, RecordType
  <1> HIDE DEF S
  <1>3. \A t \in Sessions : t # v => records[t] # records[v]
    BY <1>1 DEF RecordsApart, Having
  <1>4. Having(records, S) = Having(records, R) \ {v}
    BY <1>1, <1>2, <1>3 DEF Having, TypeOK
  <1>5. NoneBusier(R, S)
    BY <1>2 DEF NoneBusier
  <1> QED
    BY <1>1, <1>4, <1>5 DEF S

(* At most one more than the few.                                          *)
LEMMA OneLess ==
    ASSUME NEW H, IsFiniteSet(H), NEW v \in H
    PROVE  IsFiniteSet(H \ {v}) /\ Cardinality(H \ {v}) = Cardinality(H) - 1 /\ Cardinality(H) \in Nat
  BY FS_RemoveElement, FS_CardinalityType

LEMMA OneMore ==
    ASSUME NEW H, IsFiniteSet(H), NEW G, NEW k, G \subseteq H \cup {k}
    PROVE  /\ IsFiniteSet(G) /\ Cardinality(G) <= Cardinality(H) + 1
           /\ Cardinality(G) \in Nat /\ Cardinality(H) \in Nat
  <1>1. IsFiniteSet(H \cup {k}) /\ Cardinality(H \cup {k}) <= Cardinality(H) + 1
    <2>1. Cardinality(H) \in Nat
      BY FS_CardinalityType
    <2>2. IsFiniteSet(H \cup {k}) /\ Cardinality(H \cup {k}) =
             IF k \in H THEN Cardinality(H) ELSE Cardinality(H) + 1
      BY FS_AddElement
    <2> QED
      BY <2>1, <2>2
  <1>2. IsFiniteSet(G) /\ Cardinality(G) <= Cardinality(H \cup {k})
    BY <1>1, FS_Subset
  <1> QED
    BY <1>1, <1>2, FS_CardinalityType

LEMMA AtMostTwo ==
    ASSUME NEW a, NEW b, NEW G \in SUBSET {a, b}
    PROVE  IsFiniteSet(G) /\ Cardinality(G) <= 2 /\ Cardinality(G) \in Nat
  <1> DEFINE H == {a}
  <1>1. IsFiniteSet(H) /\ Cardinality(H) = 1
    BY FS_Singleton
  <1>2. G \subseteq H \cup {b}
    OBVIOUS
  <1> HIDE DEF H
  <1>3. /\ IsFiniteSet(G) /\ Cardinality(G) <= Cardinality(H) + 1
        /\ Cardinality(G) \in Nat
    BY <1>1, <1>2, OneMore
  <1> QED
    BY <1>1, <1>3

LEMMA AtMostOne ==
    ASSUME NEW a, NEW G \in SUBSET {a}
    PROVE  IsFiniteSet(G) /\ Cardinality(G) <= 1 /\ Cardinality(G) \in Nat
  <1>1. IsFiniteSet({a}) /\ Cardinality({a}) = 1
    BY FS_Singleton
  <1>2. IsFiniteSet(G) /\ Cardinality(G) <= Cardinality({a})
    BY <1>1, FS_Subset
  <1> QED
    BY <1>1, <1>2, FS_CardinalityType

(* A runtime created for the record r, and #evictRuntime behind it.        *)
LEMMA CreatedBound ==
    ASSUME ChatAssumption, IInv, PInv, BInv, NEW r \in Records, NEW keep, NEW waits \in BOOLEAN,
           RuntimeCreated(r, keep, waits)
    PROVE  Few(Having(records, rec'), active) /\ NoneBusier(rec, rec')
  <1> DEFINE R == [rec EXCEPT ![r].runtime = NewRuntimeId]
             victims == Evictable(R, keep, ActiveSession)
             old == Having(records, rec)
             new == Having(records, R)
             bound == IF active = Nil THEN MaxRuntimes ELSE MaxRuntimes + 1
  <1>0. /\ TypeOK /\ rec \in [Records -> RecordType] /\ RecordsApart(records)
        /\ IsFiniteSet(old) /\ Cardinality(old) <= bound /\ bound \in Nat
        /\ MaxRuntimes \in Nat /\ MaxRuntimes >= 1 /\ Nil \notin Sessions
    BY DEF IInv, TypeOK, PInv, BInv, Few, ChatAssumption
  <1>1. NewRuntimeId \in Runtimes
    BY <1>0 DEF NewRuntimeId, RuntimeCreated, TypeOK
  <1>2. R \in [Records -> RecordType]
    BY <1>0, <1>1, RuntimeChanges
  <1>3. /\ \A x \in Records : R[x].state = rec[x].state
        /\ \A x \in Records : x # r => R[x] = rec[x]
    BY <1>0 DEF RecordType
  <1>4. \/ victims = {} /\ rec' = R
        \/ \E v \in victims : rec' = Dropped(R, records[v])
    BY DEF RuntimeCreated
  <1> HIDE DEF R
  <1>5. \E k : new \subseteq old \cup {k}
    <2>1. CASE \E k \in Sessions : records[k] = r
      <3>1. PICK k \in Sessions : records[k] = r
        BY <2>1
      <3>2. \A s \in Sessions : s # k => records[s] # r
        BY <3>1, <1>0 DEF RecordsApart, TypeOK, ChatAssumption
      <3>3. new \subseteq old \cup {k}
        BY <1>3, <3>2, <1>0 DEF Having, TypeOK
      <3> QED
        BY <3>3
    <2>2. CASE ~ \E k \in Sessions : records[k] = r
      BY <1>0, <1>3, <2>2 DEF Having, TypeOK
    <2> QED
      BY <2>1, <2>2
  <1>6. /\ IsFiniteSet(new) /\ Cardinality(new) <= Cardinality(old) + 1
        /\ Cardinality(new) \in Nat /\ Cardinality(old) \in Nat
    BY <1>0, <1>5, OneMore
  <1>7. CASE victims = {} /\ rec' = R
    <2>1. Cardinality(new) <= bound
      <3>1. SUFFICES ASSUME Cardinality(new) > MaxRuntimes
                     PROVE  Cardinality(new) <= bound
        BY <1>0, <1>6
      <3>2. new \subseteq {keep, ActiveSession}
        <4>1. \A s \in new : s \in {keep, ActiveSession} \/ R[records[s]].state \in Busy
          <5>1. ~(Cardinality(new) <= MaxRuntimes)
            BY <1>0, <1>6, <3>1
          <5>2. victims = {s \in new : /\ s \notin {keep, ActiveSession}
                                       /\ R[records[s]].state \notin Busy}
            BY <5>1, EvictableSet
          <5> HIDE DEF new, victims
          <5> QED
            BY <1>7, <5>2
        <4>2. ASSUME NEW s \in new, R[records[s]].state \in Busy
              PROVE  s = ActiveSession
          <5>1. s \in Sessions /\ records[s] \in Records
            BY <1>0 DEF Having, TypeOK
          <5>2. active # Nil /\ records[s] = turn[active].record
            BY <1>3, <4>2, <5>1 DEF BInv, BusyIsActive
          <5>3. Mapped(turn[active], records)
            BY <5>2, ActiveTurn DEF PInv, TurnsAtWork
          <5> QED
            BY <5>1, <5>2, <5>3, ActiveTurn DEF Mapped
        <4> QED
          BY <4>1, <4>2
      <3>3. CASE active = Nil
        <4>1. new \subseteq {keep}
          BY <1>0, <3>2, <3>3 DEF ActiveSession, Having
        <4> QED
          BY <1>0, <4>1, <3>1, AtMostOne
      <3>4. CASE active # Nil
        <4>1. Cardinality(new) <= 2
          BY <3>2, AtMostTwo
        <4> QED
          BY <1>0, <1>6, <3>4, <4>1
      <3> QED
        BY <3>3, <3>4
    <2> QED
      BY <1>3, <1>6, <1>7, <2>1 DEF Few, NoneBusier
  <1>8. ASSUME NEW v \in victims, rec' = Dropped(R, records[v])
        PROVE  Few(Having(records, rec'), active) /\ NoneBusier(rec, rec')
    <2>1. v \in new
      BY EvictableSet
    <2>2. Having(records, rec') = new \ {v} /\ NoneBusier(R, rec')
      BY <1>0, <1>2, <1>8, <2>1, OneLoses
    <2>3. IsFiniteSet(new \ {v}) /\ Cardinality(new \ {v}) = Cardinality(new) - 1
      BY <1>6, <2>1, OneLess
    <2>4. Cardinality(new) - 1 <= bound
      BY <1>0, <1>6
    <2> HIDE DEF new
    <2> QED
      BY <1>3, <2>2, <2>3, <2>4 DEF Few, NoneBusier
  <1> QED
    BY <1>4, <1>7, <1>8

(* The turn in flight keeps its record.                                    *)
LEMMA FlightRecord ==
    ASSUME IInv, NEW m \in Messages, TurnRuntimeCreated(m) \/ TurnEvicted(m), active # Nil
    PROVE  turn'[active].record = turn[active].record
  <1>1. m = active /\ turn[m] \in TurnType /\ turn \in [Messages -> TurnType]
    BY DEF TurnRuntimeCreated, TurnEvicted, IInv, Slot, Consistent, InFlight
  <1> DEFINE t == turn[m]
  <1>2. \/ turn'[m] = [t EXCEPT !.phase = "evicting"]
        \/ \E rt : turn'[m] = Captured(t, rt)
    BY <1>1 DEF TurnRuntimeCreated, TurnEvicted
  <1>3. t \in TurnType
    BY <1>1
  <1> HIDE DEF t
  <1>4. turn'[m].record = t.record
    BY <1>2, <1>3 DEF Captured, TurnType
  <1> QED
    BY <1>1, <1>4 DEF t

LEMMA RuntimeCreatedBound ==
    ASSUME ChatAssumption, IInv, PInv, BInv,
           \/ \E m \in Messages : TurnRuntimeCreated(m)
           \/ \E c \in Calls : CallRuntimeCreated(c)
    PROVE  BInv'
  <1>1. UNCHANGED <<records, active, asks>>
    BY DEF TurnRuntimeCreated, CallRuntimeCreated
  <1>2. \E r \in Records, waits \in BOOLEAN : \E keep : RuntimeCreated(r, keep, waits)
    BY DEF TurnRuntimeCreated, CallRuntimeCreated, IInv, Consistent, CallsHold, GoodCall, InFlight
  <1>3. Few(Having(records, rec'), active) /\ NoneBusier(rec, rec')
    BY <1>2, CreatedBound
  <1>4. active # Nil => turn'[active].record = turn[active].record
    BY ActiveTurn, FlightRecord DEF CallRuntimeCreated
  <1>5. AskedByActive(asks', active', turn')
    BY <1>1, <1>4 DEF BInv, AskedByActive
  <1>6. BusyIsActive(rec', active', turn')
    BY <1>1, <1>3, <1>4 DEF BInv, BusyIsActive, NoneBusier
  <1> QED
    BY <1>1, <1>3, <1>5, <1>6 DEF BInv

LEMMA TurnEvictedBound ==
    ASSUME ChatAssumption, IInv, BInv, NEW m \in Messages, TurnEvicted(m)
    PROVE  BInv'
  <1>1. active # Nil => turn'[active].record = turn[active].record
    BY ActiveTurn, FlightRecord
  <1> QED
    BY <1>1, CalmBound DEF TurnEvicted, SameRuntimes, NoneBusier

(* A turn ends: its question is over, and with the slot free at most       *)
(* MaxRuntimes are left.                                                   *)
LEMMA TurnEndsBound ==
    ASSUME ChatAssumption, LateAnswers = FALSE, IInv, PInv, BInv, NEW m \in Messages, TurnEnds(m)
    PROVE  BInv'
  <1>0. /\ TypeOK /\ turn[m].phase \in InFlight /\ turn[m].record \in Records
        /\ RecordsApart(records) /\ UNCHANGED <<records, asks>> /\ active = m
        /\ rec \in [Records -> RecordType] /\ turn[m].session \in Sessions
        /\ Nil \notin Messages /\ Nil \notin Sessions
        /\ MaxRuntimes \in Nat /\ MaxRuntimes >= 1
    BY DEF IInv, Consistent, Waiting, TurnEnds, TypeOK, ChatAssumption, PInv, Slot
  <1> DEFINE T == [turn EXCEPT ![m] = Ended(turn[m], "done")]
             R(outcome) == [rec EXCEPT ![turn[m].record].state = outcome]
  <1>1. Consistent(queue, T)
    BY <1>0, EndKeeps DEF IInv
  <1>2. PICK outcome \in Outcomes :
          LET victims == Evictable(R(outcome), turn[m].session, Nil)
          IN \/ /\ victims = {}
                /\ FreeSlot(R(outcome), T)
             \/ \E v \in victims :
                  /\ FreeSlot(Dropped(R(outcome), records[v]), T)
    BY DEF TurnEnds
  <1> DEFINE Q == R(outcome)
             victims == Evictable(Q, turn[m].session, Nil)
             H == Having(records, Q)
  <1>3. outcome \in SessionStates /\ outcome \notin Busy
    BY DEF ChatAssumption, SessionStates, Busy
  <1>4. Q \in [Records -> RecordType] /\ SameRuntimes(rec, Q)
    BY <1>0, <1>3, StateChanges, StateRuntimes
  <1>5. \A r \in Records : Q[r].state \notin Busy
    <2>1. Q[turn[m].record].state = outcome /\ \A r \in Records : r # turn[m].record => Q[r] = rec[r]
      BY <1>0 DEF RecordType
    <2> HIDE DEF R
    <2> QED
      BY <1>0, <1>3, <2>1 DEF BInv, BusyIsActive
  <1>6. \A a \in Questions : asks[a].kind = "none"
    BY <1>0 DEF TurnEnds, BInv, AskedByActive
  <1> HIDE DEF T, R
  <1>7. /\ IsFiniteSet(H) /\ Cardinality(H) <= MaxRuntimes + 1 /\ Cardinality(H) \in Nat
    <2>1. H = Having(records, rec)
      BY <1>0, <1>4, SameHave DEF TypeOK
    <2> QED
      BY <1>0, <2>1, FS_CardinalityType DEF BInv, Few
  <1>8. \E S \in [Records -> RecordType] :
           /\ DrainFree(queue, S, T) /\ \A r \in Records : S[r].state \notin Busy
           /\ IsFiniteSet(Having(records, S)) /\ Cardinality(Having(records, S)) <= MaxRuntimes
           /\ Cardinality(Having(records, S)) \in Nat
    <2>1. CASE victims = {} /\ FreeSlot(Q, T)
      <3>1. Cardinality(H) <= MaxRuntimes
        <4>1. SUFFICES ASSUME ~(Cardinality(H) <= MaxRuntimes) PROVE FALSE
          OBVIOUS
        <4>2. victims = {s \in H : /\ s \notin {turn[m].session, Nil}
                                   /\ Q[records[s]].state \notin Busy}
          BY <4>1, EvictableSet
        <4>3. H \subseteq {turn[m].session}
          BY <1>0, <1>5, <2>1, <4>2 DEF Having, TypeOK
        <4>4. Cardinality(H) <= 1
          BY <4>3, AtMostOne
        <4> QED
          BY <1>0, <1>7, <4>1, <4>4
      <3> QED
        BY <1>4, <1>5, <1>7, <2>1, <3>1 DEF FreeSlot
    <2>2. ASSUME NEW v \in victims, FreeSlot(Dropped(Q, records[v]), T)
          PROVE  \E S \in [Records -> RecordType] :
           /\ DrainFree(queue, S, T) /\ \A r \in Records : S[r].state \notin Busy
           /\ IsFiniteSet(Having(records, S)) /\ Cardinality(Having(records, S)) <= MaxRuntimes
           /\ Cardinality(Having(records, S)) \in Nat
      <3> DEFINE S == Dropped(Q, records[v])
      <3>1. v \in H
        BY EvictableSet
      <3>2. records[v] \in Records /\ Having(records, S) = H \ {v} /\ NoneBusier(Q, S)
        BY <1>0, <1>4, <3>1, OneLoses
      <3>3. S \in [Records -> RecordType]
        BY <1>4, <3>2, RuntimeChanges DEF Dropped
      <3>4. IsFiniteSet(H \ {v}) /\ Cardinality(H \ {v}) = Cardinality(H) - 1
        BY <1>7, <3>1, OneLess
      <3>5. Cardinality(H \ {v}) \in Nat
        BY <3>4, FS_CardinalityType
      <3>6. Cardinality(H) - 1 <= MaxRuntimes
        BY <1>0, <1>7
      <3>7. \A r \in Records : S[r].state \notin Busy
        BY <1>5, <3>2 DEF NoneBusier
      <3>8. DrainFree(queue, S, T)
        BY <2>2 DEF FreeSlot
      <3> HIDE DEF S, H
      <3> QED
        BY <3>2, <3>3, <3>4, <3>5, <3>6, <3>7, <3>8
    <2> QED
      BY <1>2, <2>1, <2>2
  <1>9. PICK S \in [Records -> RecordType] :
           /\ DrainFree(queue, S, T) /\ \A r \in Records : S[r].state \notin Busy
           /\ IsFiniteSet(Having(records, S)) /\ Cardinality(Having(records, S)) <= MaxRuntimes
           /\ Cardinality(Having(records, S)) \in Nat
    BY <1>8
  <1>10. /\ SameRuntimes(S, rec')
         /\ \/ active' = Nil /\ NoneBusier(S, rec')
            \/ \E i \in DOMAIN queue :
                    /\ active' = queue[i]
                    /\ \A r \in Records : rec'[r].state \in Busy =>
                          S[r].state \in Busy \/ r = turn'[queue[i]].record
    BY <1>0, <1>1, <1>9, DrainStates
  <1>11. Having(records', rec') = Having(records, S)
    BY <1>0, <1>10, SameHave DEF TypeOK
  <1>12. Few(Having(records', rec'), active')
    BY <1>0, <1>9, <1>11 DEF Few
  <1>13. AskedByActive(asks', active', turn')
    BY <1>0, <1>6 DEF AskedByActive
  <1>14. BusyIsActive(rec', active', turn')
    <2>1. \A i \in DOMAIN queue : queue[i] # Nil
      BY <1>0 DEF TypeOK
    <2> QED
      BY <1>9, <1>10, <2>1 DEF BusyIsActive, NoneBusier
  <1> QED
    BY <1>12, <1>13, <1>14 DEF BInv

LEMMA InitBound == ASSUME ChatAssumption, Init PROVE BInv
  <1>1. Having(records, rec) = {}
    BY DEF Init, Having
  <1>2. Few({}, active)
    BY FS_EmptySet DEF Few, ChatAssumption
  <1>3. AskedByActive(asks, active, turn)
    BY DEF Init, NoQuestion, AskedByActive
  <1>4. BusyIsActive(rec, active, turn)
    BY DEF Init, NewRecord, Busy, BusyIsActive
  <1> QED
    BY <1>1, <1>2, <1>3, <1>4 DEF BInv

LEMMA StepBound ==
    ASSUME ChatAssumption, LateAnswers = FALSE, IInv, PInv, BInv, [Next]_vars
    PROVE  BInv'
  <1>1. CASE UNCHANGED vars
    BY <1>1, CalmBound DEF vars, SameRuntimes, NoneBusier
  <1>2. CASE \/ Attach \/ Disconnect \/ DisconnectTail
             \/ \E s \in Sessions : CancelQueuedTurn(s)
    BY <1>2, SessionsBound
  <1>3. CASE \E s \in Sessions, m \in Messages : Send(s, m)
    BY <1>3, SendBound
  <1>4. CASE \E m \in Messages : TurnStep(m)
    BY <1>4, RuntimeCreatedBound, TurnEvictedBound, TurnEndsBound DEF TurnStep
  <1>5. CASE \/ \E m \in Messages, a \in Questions, k \in QuestionKinds : AskUser(m, a, k)
             \/ \E a \in Questions : QuestionEnds(a)
    BY <1>5, AskUserBound, QuestionEndsBound
  <1>6. CASE \E c \in Calls, s \in Sessions, op \in {"open", "models"} : UseSession(c, s, op)
    BY <1>6, CallsBound
  <1>7. CASE \E c \in Calls, s \in Sessions :
                SetModel(c, s) \/ OpenClosed(c, s) \/ Release(c, s)
    BY <1>7, CallsBound, ReleaseBound
  <1>8. CASE \E c \in Calls : Create(c) \/ CallStep(c)
    BY <1>8, CallsBound, LookedUpBound, RuntimeCreatedBound, ReleasedBound DEF CallStep
  <1> QED
    BY <1>1, <1>2, <1>3, <1>4, <1>5, <1>6, <1>7, <1>8 DEF Next

(* MAX_RUNTIME_SESSIONS is kept up to one: with a turn running the map may *)
(* hold one runtime more than it, with none running it never does, however *)
(* calls and turns create runtimes and #evictRuntime skips busy records.   *)
(* Needed: no question outlives the prompt that asked it, since a late     *)
(* answer marks an idle record "running" and #evictRuntime then leaves it. *)
THEOREM RuntimesFew ==
    ASSUME LateAnswers = FALSE
    PROVE  Spec => []RuntimeBound
  <1>1. Init => PInv /\ BInv
    BY InitWorks, InitBound, ChatAssumption
  <1>2. IInv /\ PInv /\ BInv /\ [Next]_vars => PInv' /\ BInv'
    BY StepKeepsWork, StepBound, ChatAssumption
  <1>3. BInv => RuntimeBound
    BY DEF BInv, Few, Having, IsOpen, RuntimeBound
  <1> QED
    BY <1>1, <1>2, <1>3, Invariance, PTL DEF Spec

=============================================================================
