------------------------ MODULE ProviderConfigProofs ------------------------
(***************************************************************************)
(* The safety invariants of ProviderConfig, for every number of requests.  *)
(*                                                                         *)
(* The inductive invariant IInv says how the two ways of keeping apart     *)
(* what writes and what builds work together:                              *)
(*   InTurn    queueProvidersMutation: the patches that have not settled   *)
(*             form one chain on providersMutationTails, of which only the *)
(*             first may have begun, and the tail is the last of them;     *)
(*   Alone     the one snapshot that builds is the flight, and while a     *)
(*             patch is in its block there is none;                        *)
(*   Files     which patches are in models.yml and agent.db, by how far    *)
(*             they are;                                                   *)
(*   Rows      what openAuthStorage loaded, between it and the answer;     *)
(*   Views     an answer shows both files of a patch or neither;           *)
(*   Due       what was accepted before a snapshot has settled when it     *)
(*             builds or joins, and is in what it answers;                 *)
(*   CacheFresh the cached registry has the models of every patch that has *)
(*             cleared the cache.                                          *)
(* Each part is a predicate of explicit arguments, so that a step is a     *)
(* pair of values (Q, R) of req and the lemmas below it are about those.   *)
(***************************************************************************)
EXTENDS ProviderConfig, TLAPS

RequestType == [op: Operations, writes: SUBSET {"models", "creds"},
                at: Places, on: Requests \cup {Nil}, rows: SUBSET Requests,
                got: View \cup {Nil}, due: SUBSET Requests]

Building == {"opening", "reading"}
Flown == {"snapshot", "login", "logout"}
SettledPlaces == {"done", "fresh"} \cup Ended

(* Where a request of each kind can stand.                                 *)
PlacesOf(op) ==
  CASE op = "snapshot" -> {"unused", "tail", "joined", "opening", "reading", "answered"}
    [] op = "patch" -> {"queued", "await", "credentials", "opening", "reading",
                        "done", "fresh", "answered"}
    [] op \in {"login", "logout"} ->
         {"starting", "login", "prompt", "tail", "joined", "opening", "reading",
          "done", "fresh", "answered"}
    [] op = "runtime" -> {"opening", "reading", "over", "answered"}

(* Of the requests Q: patch p is not settled, is in its block, has         *)
(* succeeded, has failed.                                                  *)
Open(Q, p) == Q[p].op = "patch" /\ Q[p].at \notin SettledPlaces
Blocks(Q, p) == Q[p].op = "patch" /\ Q[p].at \in {"credentials", "opening", "reading"}
Good(Q, p) == Q[p].op = "patch" /\ Q[p].at \in SettledPlaces /\ Q[p].got # Nil
Failed(Q, p) == Q[p].at \in Ended /\ Q[p].got = Nil

Shape(Q) ==
  \A r \in Requests :
    /\ Q[r].at \in PlacesOf(Q[r].op)
    /\ Q[r].at = "unused" => Q[r] = Unused
    /\ Q[r].got # Nil => Q[r].at \in {"done", "fresh", "answered"} /\ Q[r].op # "runtime"
    /\ Q[r].at \in {"done", "fresh"} => Q[r].got # Nil
    /\ Q[r].writes # {} => Q[r].op = "patch"
    /\ \A p \in Q[r].due : Q[p].op = "patch" /\ p < r

(* Patches settle one after the other, in the order of their numbers, and  *)
(* the tail t is the last that has not settled.                            *)
InTurn(Q, t) ==
  /\ \A p, q \in Requests :
       Open(Q, p) /\ Q[q].op = "patch" /\ p < q => Q[q].at = "queued"
  /\ \A q \in Requests : Q[q].at = "queued" =>
       \A p \in Requests : Open(Q, p) /\ p < q =>
          Q[q].on \in Requests /\ p <= Q[q].on
  /\ \A q \in Requests : Q[q].at = "queued" /\ Q[q].on \in Requests => Q[Q[q].on].op = "patch"
  /\ \A p \in Requests : Open(Q, p) => t \in Requests /\ p <= t
  /\ t # Nil => Open(Q, t)

(* What builds beside a patch: f is the flight.                            *)
Alone(Q, f) ==
  /\ \A r \in Requests : Q[r].op \in Flown /\ Q[r].at \in Building => f = r
  /\ f # Nil => Q[f].op \in Flown /\ Q[f].at \in Building
  /\ \A p \in Requests : Blocks(Q, p) => f = Nil
  /\ \A p \in Requests : Q[p].at = "await" => f \in {Nil, Q[p].on}

(* The files M and C hold the changes of the patches that are that far.    *)
Files(Q, M, C) ==
  /\ \A p \in M : Q[p].op = "patch" /\ Q[p].at \notin {"queued", "await"}
  /\ \A p \in C : Q[p].at \notin {"unused", "queued", "await", "credentials"}
  /\ \A p \in Requests : Blocks(Q, p) \/ Good(Q, p) =>
       /\ "models" \in Q[p].writes => p \in M
       /\ "creds" \in Q[p].writes /\ Q[p].at # "credentials" => p \in C

(* The rows a build has loaded.                                            *)
Rows(Q, C) ==
  \A r \in Requests :
    /\ Q[r].rows \subseteq C
    /\ Q[r].at = "reading" /\ Q[r].op # "runtime" =>
        \A p \in Requests : ((p = r /\ Q[p].op = "patch") \/ Good(Q, p))
                             /\ "creds" \in Q[p].writes => p \in Q[r].rows

(* The views that were answered.                                           *)
WholeView(Q, v) ==
  \A p \in Requests : Q[p].writes = {"models", "creds"} /\ ~Failed(Q, p) =>
      (p \in v.models <=> p \in v.creds)

Views(Q, M, C) ==
  \A r \in Requests : Q[r].got # Nil =>
    Q[r].got.models \subseteq M /\ Q[r].got.creds \subseteq C /\ WholeView(Q, Q[r].got)

Shows(Q, v, p) ==
  /\ "models" \in Q[p].writes => p \in v.models
  /\ "creds" \in Q[p].writes => p \in v.creds

Due(Q) ==
  /\ \A r \in Requests : Q[r].op \in Flown /\ Q[r].at \in {"joined"} \cup Building =>
        \A p \in Q[r].due : Q[p].at \in SettledPlaces
  /\ \A r \in Requests : Q[r].got # Nil =>
        \A p \in Q[r].due : /\ Q[p].at \in SettledPlaces
                            /\ Q[p].got # Nil => Shows(Q, Q[r].got, p)

CacheFresh(Q, c) ==
  c # Nil => \A p \in Requests :
    Good(Q, p) /\ Q[p].at # "done" /\ "models" \in Q[p].writes => p \in c

IInv ==
  /\ TypeOK
  /\ Shape(req)
  /\ InTurn(req, tail)
  /\ Alone(req, flight)
  /\ Files(req, models, creds)
  /\ Rows(req, creds)
  /\ Views(req, models, creds)
  /\ Due(req)
  /\ CacheFresh(req, cached)

-----------------------------------------------------------------------------
(* What a step of the requests from Q to R must respect for each part of   *)
(* the invariant to hold on.                                               *)
SameRequests(Q, R) ==
  \A p \in Requests : R[p].op = Q[p].op /\ R[p].writes = Q[p].writes /\ R[p].due = Q[p].due

LEMMA InTurnHolds ==
    ASSUME NEW Q, NEW R, NEW t, NEW u, InTurn(Q, t), SameRequests(Q, R),
           t \in Requests \cup {Nil}, Nil \notin Requests,
           \A p \in Requests : Open(R, p) => Open(Q, p),
           \A p \in Requests : R[p].at = "queued" => Q[p].at = "queued" /\ R[p].on = Q[p].on,
           \A p, q \in Requests : Q[q].op = "patch" /\ Q[q].at = "queued" /\ R[q].at # "queued"
                                    /\ p < q => ~Open(Q, p),
           u = t \/ u = Nil,
           t # Nil => (u = t <=> Open(R, t))
    PROVE  InTurn(R, u)
  <1>1. \A p, q \in Requests : Open(R, p) /\ R[q].op = "patch" /\ p < q => R[q].at = "queued"
    BY DEF InTurn, SameRequests
  <1>2. \A q \in Requests : R[q].at = "queued" =>
          \A p \in Requests : Open(R, p) /\ p < q => R[q].on \in Requests /\ p <= R[q].on
    BY DEF InTurn
  <1>3. \A q \in Requests : R[q].at = "queued" /\ R[q].on \in Requests => R[R[q].on].op = "patch"
    BY DEF InTurn, SameRequests
  <1>4. \A p \in Requests : Open(R, p) => u \in Requests /\ p <= u
    <2>1. SUFFICES ASSUME NEW p \in Requests, Open(R, p) PROVE u \in Requests /\ p <= u
      OBVIOUS
    <2>2. Open(Q, p) /\ t \in Requests /\ p <= t /\ t # Nil
      BY <2>1 DEF InTurn
    <2>3. CASE Open(R, t)
      BY <2>2, <2>3
    <2>4. CASE ~Open(R, t)
      <3>1. Open(Q, t) /\ Q[t].op = "patch" /\ p < t
        BY <2>1, <2>2, <2>4 DEF InTurn, Open, Requests
      <3>2. CASE Q[t].at = "queued"
        BY <2>2, <2>4, <3>1, <3>2 DEF Open, SameRequests, SettledPlaces, Ended
      <3>3. CASE Q[t].at # "queued"
        BY <2>2, <3>1, <3>3 DEF InTurn
      <3> QED
        BY <3>2, <3>3
    <2> QED
      BY <2>3, <2>4
  <1>5. u # Nil => Open(R, u)
    OBVIOUS
  <1> QED
    BY <1>1, <1>2, <1>3, <1>4, <1>5 DEF InTurn

LEMMA AloneHolds ==
    ASSUME NEW Q, NEW R, NEW f \in Requests \cup {Nil}, Alone(Q, f), SameRequests(Q, R),
           \A p \in Requests :
              /\ R[p].op \in Flown => (R[p].at \in Building <=> Q[p].at \in Building)
              /\ Blocks(R, p) => Blocks(Q, p)
              /\ R[p].at = "await" => Q[p].at = "await" /\ R[p].on = Q[p].on
    PROVE  Alone(R, f)
  BY DEF Alone, SameRequests

LEMMA FilesStay ==
    ASSUME NEW Q, NEW R, NEW M, NEW C, Files(Q, M, C), SameRequests(Q, R),
           M \subseteq Requests, C \subseteq Requests,
           \A p \in Requests :
              /\ Q[p].at \notin {"queued", "await"} => R[p].at \notin {"queued", "await"}
              /\ Q[p].at \notin {"unused", "queued", "await", "credentials"}
                   => R[p].at \notin {"unused", "queued", "await", "credentials"},
           \A p \in Requests : Blocks(R, p) \/ Good(R, p) =>
              /\ Blocks(Q, p) \/ Good(Q, p)
              /\ Q[p].at = "credentials" /\ R[p].at # "credentials" => p \in C
    PROVE  Files(R, M, C)
  BY DEF Files, SameRequests

LEMMA RowsHold ==
    ASSUME NEW Q, NEW R, NEW C, NEW D, Rows(Q, C), SameRequests(Q, R), C \subseteq D,
           \A p \in Requests :
              /\ R[p].rows \subseteq Q[p].rows
              /\ R[p].at = "reading" => Q[p].at = "reading" /\ R[p].rows = Q[p].rows
              /\ Good(R, p) => \/ Good(Q, p)
                               \/ \A r \in Requests : R[r].at = "reading" => R[r].op = "runtime"
    PROVE  Rows(R, D)
  BY DEF Rows, SameRequests

LEMMA ViewsHold ==
    ASSUME NEW Q, NEW R, NEW M, NEW N, NEW C, NEW D, Views(Q, M, C), SameRequests(Q, R),
           M \subseteq N, C \subseteq D,
           \A p \in Requests : Failed(Q, p) => Failed(R, p),
           \A p \in Requests : R[p].got # Nil =>
              \/ R[p].got = Q[p].got
              \/ R[p].got.models \subseteq N /\ R[p].got.creds \subseteq D /\ WholeView(R, R[p].got)
    PROVE  Views(R, N, D)
  BY DEF Views, WholeView, SameRequests

LEMMA DueHolds ==
    ASSUME NEW Q, NEW R, Due(Q), Shape(Q), SameRequests(Q, R), \A r \in Requests : Q[r].due \subseteq Requests,
           \A p \in Requests :
              /\ Q[p].op = "patch" /\ Q[p].at \in SettledPlaces =>
                    R[p].at \in SettledPlaces /\ R[p].got \in {Q[p].got, Nil}
              /\ R[p].op \in Flown /\ R[p].at \in {"joined"} \cup Building =>
                    Q[p].at \in {"joined"} \cup Building
              /\ R[p].got \in {Q[p].got, Nil}
    PROVE  Due(R)
  <1>1. \A r \in Requests : R[r].op \in Flown /\ R[r].at \in {"joined"} \cup Building =>
            \A p \in R[r].due : R[p].at \in SettledPlaces
    BY DEF Due, Shape, SameRequests
  <1>2. ASSUME NEW r \in Requests, R[r].got # Nil, NEW p \in R[r].due
        PROVE  R[p].at \in SettledPlaces /\ (R[p].got # Nil => Shows(R, R[r].got, p))
    <2>1. p \in Q[r].due /\ p \in Requests /\ Q[r].got # Nil /\ R[r].got = Q[r].got
      BY <1>2 DEF SameRequests
    <2>2. Q[p].at \in SettledPlaces /\ (Q[p].got # Nil => Shows(Q, Q[r].got, p)) /\ Q[p].op = "patch"
      BY <2>1 DEF Due, Shape
    <2> QED
      BY <2>1, <2>2 DEF Shows, SameRequests
  <1> QED
    BY <1>1, <1>2 DEF Due

LEMMA CacheHolds ==
    ASSUME NEW Q, NEW R, NEW c, CacheFresh(Q, c), SameRequests(Q, R),
           \A p \in Requests : Good(R, p) /\ R[p].at # "done" => Good(Q, p) /\ Q[p].at # "done"
    PROVE  CacheFresh(R, c)
  BY DEF CacheFresh, SameRequests

-----------------------------------------------------------------------------
(* Request r moves to a; the others stay as they are.                      *)
Moves(Q, R, r, a) ==
  /\ R \in [Requests -> RequestType]
  /\ R[r].at = a
  /\ R[r].op = Q[r].op /\ R[r].writes = Q[r].writes /\ R[r].due = Q[r].due /\ R[r].got = Q[r].got
  /\ \A p \in Requests : p # r => R[p] = Q[p]

LEMMA MovesSame ==
    ASSUME NEW Q, NEW R, NEW r, NEW a, Moves(Q, R, r, a)
    PROVE  SameRequests(Q, R)
  BY DEF Moves, SameRequests

LEMMA Types ==
    ASSUME TypeOK
    PROVE  /\ req \in [Requests -> RequestType]
           /\ \A r \in Requests : /\ req[r].on \in Requests \cup {Nil}
                                  /\ req[r].due \subseteq Requests /\ req[r].rows \subseteq Requests
                                  /\ req[r].op \in Operations /\ req[r].at \in Places
           /\ models \subseteq Requests /\ creds \subseteq Requests
           /\ flight \in Requests \cup {Nil} /\ tail \in Requests \cup {Nil}
           /\ aborter \in Requests \cup {Nil}
           /\ cached \in (SUBSET Requests) \cup {Nil}
           /\ Nil \notin Requests
  BY ConfigAssumption DEF TypeOK, RequestType, Requests, ConfigAssumption

LEMMA Move ==
    ASSUME TypeOK, NEW r \in Requests, NEW a \in Places, req' = [req EXCEPT ![r].at = a]
    PROVE  Moves(req, req', r, a) /\ req'[r].rows = req[r].rows /\ req'[r].on = req[r].on
  <1> DEFINE x == req[r]
             y == [x EXCEPT !.at = a]
  <1>0. req \in [Requests -> RequestType]
    BY Types
  <1>1. x \in RequestType
    BY <1>0
  <1>2. req' = [req EXCEPT ![r] = y]
    OBVIOUS
  <1> HIDE DEF x
  <1>3. /\ y \in RequestType /\ y.at = a /\ y.op = x.op /\ y.writes = x.writes /\ y.due = x.due
        /\ y.got = x.got /\ y.rows = x.rows /\ y.on = x.on
    BY <1>1 DEF RequestType
  <1> HIDE DEF y
  <1> QED
    BY <1>0, <1>2, <1>3 DEF x, Moves

LEMMA NilTyped == Nil \in Requests \cup {Nil} /\ Nil \in (SUBSET Requests) \cup {Nil}
  BY Zenon

LEMMA TypesKept ==
    ASSUME req' \in [Requests -> RequestType], models' \subseteq Requests, creds' \subseteq Requests,
           flight' \in Requests \cup {Nil}, tail' \in Requests \cup {Nil},
           aborter' \in Requests \cup {Nil}, cached' \in (SUBSET Requests) \cup {Nil}
    PROVE  TypeOK'
  BY DEF TypeOK, RequestType

LEMMA ShapeHolds ==
    ASSUME NEW Q, NEW R, Shape(Q), NEW r \in Requests, NEW a \in Places \ {"unused"}, Moves(Q, R, r, a),
           \A p \in Requests : Q[p].due \subseteq Requests,
           a \in PlacesOf(Q[r].op),
           Q[r].got # Nil => a \in {"done", "fresh", "answered"},
           a \in {"done", "fresh"} => Q[r].got # Nil
    PROVE  Shape(R)
  <1>1. SameRequests(Q, R)
    BY MovesSame
  <1>2. ASSUME NEW p \in Requests
        PROVE  /\ R[p].at \in PlacesOf(R[p].op)
               /\ R[p].at = "unused" => R[p] = Unused
               /\ R[p].got # Nil => R[p].at \in {"done", "fresh", "answered"} /\ R[p].op # "runtime"
               /\ R[p].at \in {"done", "fresh"} => R[p].got # Nil
               /\ R[p].writes # {} => R[p].op = "patch"
    BY DEF Shape, Moves
  <1>3. ASSUME NEW p \in Requests, NEW q \in R[p].due
        PROVE  R[q].op = "patch" /\ q < p
    BY <1>1, <1>3 DEF Shape, SameRequests
  <1> QED
    BY <1>2, <1>3 DEF Shape

(* A request that neither builds, nor joins, nor is a patch in its course, *)
(* moves on.                                                               *)
LEMMA CalmMove ==
    ASSUME IInv, NEW r \in Requests, NEW a \in {"login", "prompt", "fresh", "answered", "over"},
           req' = [req EXCEPT ![r].at = a],
           UNCHANGED <<models, creds, flight, tail>>,
           req[r].at \notin Ended \cup {"unused", "queued", "await"}, a \in PlacesOf(req[r].op),
           req[r].op \in Flown => req[r].at \notin Building,
           req[r].op = "patch" => req[r].at \in SettledPlaces /\ a \in {"fresh", "answered"},
           req[r].got # Nil => a \in {"fresh", "answered"},
           a = "fresh" => req[r].got # Nil,
           aborter' \in Requests \cup {Nil}, cached' \in (SUBSET Requests) \cup {Nil},
           CacheFresh(req', cached')
    PROVE  IInv'
  <1> DEFINE Q == req
             R == req'
  <1>t. TypeOK /\ a \in Places /\ a \notin {"unused", "tail", "joined", "opening", "reading", "queued", "await", "credentials"}
        /\ (a = "over" \/ a = "answered" \/ a = "fresh" => a \in SettledPlaces)
    BY DEF IInv, Places, Ended, SettledPlaces
  <1>i. /\ Shape(Q) /\ InTurn(Q, tail) /\ Alone(Q, flight) /\ Files(Q, models, creds)
        /\ Rows(Q, creds) /\ Views(Q, models, creds) /\ Due(Q)
    BY DEF IInv
  <1>y. /\ Q \in [Requests -> RequestType] /\ models \subseteq Requests /\ creds \subseteq Requests
        /\ tail \in Requests \cup {Nil} /\ flight \in Requests \cup {Nil} /\ Nil \notin Requests
        /\ \A p \in Requests : Q[p].due \subseteq Requests
    BY <1>t, Types
  <1>0. /\ Moves(Q, R, r, a) /\ R[r].rows = Q[r].rows /\ R[r].on = Q[r].on
    BY <1>t, Move
  <1>s. SameRequests(Q, R)
    BY <1>0, MovesSame
  <1>1. TypeOK'
    BY <1>0, <1>t, Types, TypesKept DEF Moves
  <1> HIDE DEF Q, R
  <1>p. \A p \in Requests : p = r \/ R[p] = Q[p]
    BY <1>0 DEF Moves
  <1>2. Shape(R)
    BY <1>0, <1>t, <1>y, <1>i, ShapeHolds DEF Q
  <1>3. InTurn(R, tail)
    <2>1. \A p \in Requests : Open(R, p) <=> Open(Q, p)
      BY <1>0, <1>t DEF Moves, Open, Q
    <2>2. tail # Nil => Open(Q, tail)
      BY <1>i DEF InTurn
    <2>3. \A p \in Requests : /\ R[p].at = "queued" => Q[p].at = "queued" /\ R[p].on = Q[p].on
                              /\ Q[p].at = "queued" => R[p].at = "queued"
      BY <1>0, <1>p, <1>t DEF Moves, Q
    <2>4. tail # Nil => Open(R, tail)
      BY <2>1, <2>2, <1>y
    <2> QED
      BY <1>s, <1>y, <1>i, <2>1, <2>3, <2>4, InTurnHolds
  <1>4. Alone(R, flight)
    <2>1. \A p \in Requests :
              /\ R[p].op \in Flown => (R[p].at \in Building <=> Q[p].at \in Building)
              /\ Blocks(R, p) => Blocks(Q, p)
              /\ R[p].at = "await" => Q[p].at = "await" /\ R[p].on = Q[p].on
      BY <1>0, <1>p, <1>t DEF Moves, Building, Blocks, Q
    <2> QED
      BY <1>s, <1>i, <1>y, <2>1, AloneHolds
  <1>5. Files(R, models, creds)
    <2>1. \A p \in Requests : Blocks(R, p) \/ Good(R, p) => Blocks(Q, p) \/ Good(Q, p)
      BY <1>0, <1>p, <1>t DEF Moves, Blocks, Good, Q
    <2>2. \A p \in Requests :
              /\ Q[p].at \notin {"queued", "await"} => R[p].at \notin {"queued", "await"}
              /\ Q[p].at \notin {"unused", "queued", "await", "credentials"}
                   => R[p].at \notin {"unused", "queued", "await", "credentials"}
      BY <1>0, <1>p, <1>t DEF Moves
    <2>3. \A p \in Requests : Q[p].at = "credentials" /\ R[p].at # "credentials"
                               => ~(Blocks(R, p) \/ Good(R, p))
      BY <1>0, <1>p, <1>t, <1>i DEF Moves, Blocks, Good, Q, Shape, SettledPlaces, Ended
    <2>4. \A p \in Requests :
              Blocks(R, p) \/ Good(R, p) =>
                   /\ Blocks(Q, p) \/ Good(Q, p)
                   /\ Q[p].at = "credentials" /\ R[p].at # "credentials" => p \in creds
      BY <2>1, <2>3
    <2> QED
      BY <1>s, <1>i, <1>y, <2>2, <2>4, FilesStay
  <1>6. Rows(R, creds)
    <2>1. \A p \in Requests :
              /\ R[p].rows \subseteq Q[p].rows
              /\ R[p].at = "reading" => Q[p].at = "reading" /\ R[p].rows = Q[p].rows
              /\ Good(R, p) => Good(Q, p)
      BY <1>0, <1>p, <1>t DEF Moves, Good, Q
    <2> QED
      BY <1>s, <1>i, <2>1, RowsHold
  <1>7. Views(R, models, creds)
    <2>1. \A p \in Requests : (Failed(Q, p) => Failed(R, p)) /\ R[p].got = Q[p].got
      BY <1>0, <1>p, <1>t DEF Moves, Failed, Q
    <2> QED
      BY <1>s, <1>i, <2>1, ViewsHold
  <1>8. Due(R)
    <2>1. \A p \in Requests :
              /\ Q[p].op = "patch" /\ Q[p].at \in SettledPlaces =>
                    R[p].at \in SettledPlaces /\ R[p].got \in {Q[p].got, Nil}
              /\ R[p].op \in Flown /\ R[p].at \in {"joined"} \cup Building =>
                    Q[p].at \in {"joined"} \cup Building
              /\ R[p].got \in {Q[p].got, Nil}
      BY <1>0, <1>p, <1>t DEF Moves, Building, Q
    <2> QED
      BY <1>s, <1>i, <1>y, <2>1, DueHolds
  <1> QED
    BY <1>1, <1>2, <1>3, <1>4, <1>5, <1>6, <1>7, <1>8 DEF IInv, Q, R

-----------------------------------------------------------------------------
(* A request whose record changes.                                         *)
LEMMA PlacesNext ==
    \A op \in Operations :
      /\ "opening" \in PlacesOf(op) => "reading" \in PlacesOf(op)
      /\ "tail" \in PlacesOf(op) \/ "starting" \in PlacesOf(op) \/ "login" \in PlacesOf(op)
           => op \in Flown /\ {"tail", "joined", "opening"} \subseteq PlacesOf(op)
      /\ "queued" \in PlacesOf(op) \/ "await" \in PlacesOf(op) \/ "credentials" \in PlacesOf(op) => op = "patch"
      /\ "joined" \in PlacesOf(op) => op \in Flown
      /\ "reading" \in PlacesOf(op) /\ op # "runtime" => "answered" \in PlacesOf(op)
      /\ "answered" \in PlacesOf(op)
  BY DEF Operations, PlacesOf, Flown

LEMMA MoveTo ==
    ASSUME TypeOK, NEW r \in Requests, NEW x \in RequestType, req' = [req EXCEPT ![r] = x],
           x.op = req[r].op, x.writes = req[r].writes, x.due = req[r].due, x.got = req[r].got
    PROVE  Moves(req, req', r, x.at) /\ req'[r] = x
  <1>0. req \in [Requests -> RequestType]
    BY Types
  <1> QED
    BY <1>0 DEF Moves

(* openAuthStorage is done: the build holds the rows of this moment.       *)
LEMMA OpenAuthKeeps ==
    ASSUME IInv, NEW r \in Requests, OpenAuth(r)
    PROVE  IInv'
  <1> DEFINE Q == req
             R == req'
             a == "reading"
             y == [req[r] EXCEPT !.at = a, !.rows = creds]
  <1>t. TypeOK /\ a \in Places /\ a \notin {"unused", "tail", "joined", "opening", "queued", "await", "credentials"}
        /\ a \notin SettledPlaces /\ Q[r].at = "opening"
    BY DEF IInv, Places, Ended, SettledPlaces, OpenAuth
  <1>i. /\ Shape(Q) /\ InTurn(Q, tail) /\ Alone(Q, flight) /\ Files(Q, models, creds)
        /\ Rows(Q, creds) /\ Views(Q, models, creds) /\ Due(Q) /\ CacheFresh(Q, cached)
    BY DEF IInv
  <1>y. /\ Q \in [Requests -> RequestType] /\ models \subseteq Requests /\ creds \subseteq Requests
        /\ tail \in Requests \cup {Nil} /\ flight \in Requests \cup {Nil} /\ Nil \notin Requests
        /\ \A p \in Requests : Q[p].due \subseteq Requests
    BY <1>t, Types
  <1>0. /\ Moves(Q, R, r, a) /\ R[r].rows = creds /\ R[r].on = Q[r].on
    <2>1. /\ y \in RequestType /\ y.at = a /\ y.on = Q[r].on /\ y.op = Q[r].op /\ y.writes = Q[r].writes
          /\ y.rows = creds /\ y.got = Q[r].got /\ y.due = Q[r].due
      <3> DEFINE x == Q[r]
      <3>1. x \in RequestType
        BY <1>y
      <3>2. y = [x EXCEPT !.at = a, !.rows = creds]
        OBVIOUS
      <3> HIDE DEF x, y
      <3>3. /\ y \in RequestType /\ y.at = a /\ y.on = x.on /\ y.op = x.op /\ y.writes = x.writes
            /\ y.rows = creds /\ y.got = x.got /\ y.due = x.due
        BY <1>t, <1>y, <3>1, <3>2 DEF RequestType
      <3> QED
        BY <3>3 DEF x
    <2>2. R = [req EXCEPT ![r] = y]
      BY DEF OpenAuth
    <2> HIDE DEF y
    <2> QED
      BY <1>t, <2>1, <2>2, MoveTo
  <1>s. SameRequests(Q, R)
    BY <1>0, MovesSame
  <1>u. /\ models' = models /\ creds' = creds /\ flight' = flight /\ tail' = tail
        /\ aborter' = aborter /\ cached' = cached
    BY DEF OpenAuth
  <1>1. TypeOK'
    BY <1>0, <1>t, <1>u, Types, TypesKept DEF Moves
  <1>e. Q[r].op = "patch" => Blocks(Q, r)
    BY <1>t DEF Blocks
  <1> HIDE DEF Q, R, a
  <1>p. \A p \in Requests : p = r \/ R[p] = Q[p]
    BY <1>0 DEF Moves
  <1>2. Shape(R)
    <2>1. a \in PlacesOf(Q[r].op) /\ Q[r].got = Nil
      BY <1>t, <1>i, <1>y, PlacesNext DEF Shape, a, RequestType
    <2> QED
      BY <1>0, <1>t, <1>y, <1>i, <2>1, ShapeHolds DEF SettledPlaces
  <1>3. InTurn(R, tail)
    <2>1. \A p \in Requests : Open(R, p) <=> Open(Q, p)
      BY <1>0, <1>p, <1>t DEF Moves, Open, SettledPlaces, Ended
    <2>2. tail # Nil => Open(Q, tail)
      BY <1>i DEF InTurn
    <2>3. \A p \in Requests : /\ R[p].at = "queued" => Q[p].at = "queued" /\ R[p].on = Q[p].on
                              /\ Q[p].at = "queued" => R[p].at = "queued"
      BY <1>0, <1>p, <1>t DEF Moves
    <2>4. tail # Nil => Open(R, tail)
      BY <2>1, <2>2, <1>y
    <2> QED
      BY <1>s, <1>y, <1>i, <2>1, <2>3, <2>4, InTurnHolds
  <1>4. Alone(R, flight)
    <2>1. \A p \in Requests :
              /\ R[p].op \in Flown => (R[p].at \in Building <=> Q[p].at \in Building)
              /\ Blocks(R, p) => Blocks(Q, p)
              /\ R[p].at = "await" => Q[p].at = "await" /\ R[p].on = Q[p].on
      BY <1>0, <1>p, <1>t DEF Moves, Building, Blocks, a
    <2> QED
      BY <1>s, <1>i, <1>y, <2>1, AloneHolds
  <1>g. \A p \in Requests : (Good(R, p) <=> Good(Q, p)) /\ (Failed(R, p) <=> Failed(Q, p)) /\ R[p].got = Q[p].got
    BY <1>0, <1>p, <1>t DEF Moves, Good, Failed, SettledPlaces, Ended
  <1>5. Files(R, models, creds)
    <2>1. \A p \in Requests : Blocks(R, p) \/ Good(R, p) => Blocks(Q, p) \/ Good(Q, p)
      BY <1>0, <1>p, <1>t, <1>g DEF Moves, Blocks
    <2>2. \A p \in Requests :
              /\ Q[p].at \notin {"queued", "await"} => R[p].at \notin {"queued", "await"}
              /\ Q[p].at \notin {"unused", "queued", "await", "credentials"}
                   => R[p].at \notin {"unused", "queued", "await", "credentials"}
      BY <1>0, <1>p, <1>t DEF Moves
    <2>3. \A p \in Requests : ~(Q[p].at = "credentials" /\ R[p].at # "credentials")
      BY <1>0, <1>p, <1>t DEF Moves
    <2>4. \A p \in Requests :
              Blocks(R, p) \/ Good(R, p) =>
                   /\ Blocks(Q, p) \/ Good(Q, p)
                   /\ Q[p].at = "credentials" /\ R[p].at # "credentials" => p \in creds
      BY <2>1, <2>3
    <2> QED
      BY <1>s, <1>i, <1>y, <2>2, <2>4, FilesStay
  <1>6. Rows(R, creds)
    <2>1. ASSUME NEW p \in Requests, ((p = r /\ Q[p].op = "patch") \/ Good(Q, p)) /\ "creds" \in Q[p].writes
          PROVE  p \in creds
      <3>1. (Blocks(Q, p) /\ Q[p].at # "credentials") \/ Good(Q, p)
        BY <1>e, <1>t, <2>1
      <3> QED
        BY <1>i, <2>1, <3>1 DEF Files, Good, SettledPlaces, Ended
    <2>2. ASSUME NEW q \in Requests, q # r
          PROVE  /\ R[q].rows \subseteq creds
                 /\ R[q].at = "reading" /\ R[q].op # "runtime" =>
                     \A p \in Requests : ((p = q /\ R[p].op = "patch") \/ Good(R, p))
                             /\ "creds" \in R[p].writes => p \in R[q].rows
      BY <1>i, <1>p, <1>s, <1>g, <2>2 DEF Rows, SameRequests
    <2>3. \A p \in Requests : ((p = r /\ R[p].op = "patch") \/ Good(R, p))
                             /\ "creds" \in R[p].writes => p \in R[r].rows
      BY <1>0, <1>s, <1>g, <2>1 DEF SameRequests
    <2> QED
      BY <1>0, <2>2, <2>3 DEF Rows
  <1>7. Views(R, models, creds)
    BY <1>s, <1>i, <1>g, ViewsHold
  <1>8. Due(R)
    <2>1. \A p \in Requests :
              /\ Q[p].op = "patch" /\ Q[p].at \in SettledPlaces =>
                    R[p].at \in SettledPlaces /\ R[p].got \in {Q[p].got, Nil}
              /\ R[p].op \in Flown /\ R[p].at \in {"joined"} \cup Building =>
                    Q[p].at \in {"joined"} \cup Building
              /\ R[p].got \in {Q[p].got, Nil}
      BY <1>0, <1>p, <1>t, <1>g DEF Moves, Building, SettledPlaces, Ended
    <2> QED
      BY <1>s, <1>i, <1>y, <2>1, DueHolds
  <1>9. CacheFresh(R, cached)
    <2>1. \A p \in Requests : Good(R, p) /\ R[p].at # "done" => Good(Q, p) /\ Q[p].at # "done"
      BY <1>0, <1>p, <1>t, <1>g DEF Moves, Good, SettledPlaces, Ended
    <2> QED
      BY <1>s, <1>i, <2>1, CacheHolds
  <1> QED
    BY <1>1, <1>2, <1>3, <1>4, <1>5, <1>6, <1>7, <1>8, <1>9, <1>u DEF IInv, Q, R

(* A snapshot, a login or a logout asks for the snapshot it answers.       *)
LEMMA GetSnapshotKeeps ==
    ASSUME IInv, NEW r \in Requests, req[r].at \in {"tail", "starting", "login"}, req[r].op \in Flown,
           GetSnapshot(r, req[r]), creds \subseteq creds', creds' \subseteq creds \cup {r},
           UNCHANGED <<models, aborter, cached>>
    PROVE  IInv'
  <1> DEFINE Q == req
             R == req'
             a == req'[r].at
             f == flight'
             t == tail
             D == creds'
  <1>t. TypeOK /\ Q[r].at \in {"tail", "starting", "login"} /\ Q[r].op \in Flown /\ Q[r].op # "patch"
        /\ Q[r].at \notin SettledPlaces
    BY DEF IInv, Flown, SettledPlaces, Ended
  <1>i. /\ Shape(Q) /\ InTurn(Q, t) /\ Alone(Q, flight) /\ Files(Q, models, creds)
        /\ Rows(Q, creds) /\ Views(Q, models, creds) /\ Due(Q) /\ CacheFresh(Q, cached)
    BY DEF IInv
  <1>y. /\ Q \in [Requests -> RequestType] /\ models \subseteq Requests /\ creds \subseteq Requests
        /\ t \in Requests \cup {Nil} /\ flight \in Requests \cup {Nil} /\ Nil \notin Requests
        /\ \A p \in Requests : Q[p].due \subseteq Requests
    BY <1>t, Types
  <1>u. /\ models' = models /\ tail' = t /\ aborter' = aborter /\ cached' = cached
        /\ creds \subseteq D /\ D \subseteq creds \cup {r} /\ D \subseteq Requests
    BY <1>y DEF GetSnapshot
  <1>0. /\ Moves(Q, R, r, a) /\ R[r].rows = Q[r].rows
        /\ \/ a = "tail" /\ t # Nil /\ f = flight
           \/ a = "joined" /\ t = Nil /\ f = flight
           \/ a = "opening" /\ t = Nil /\ flight = Nil /\ f = r
    <2> DEFINE x == Q[r]
    <2>1. x \in RequestType
      BY <1>y
    <2>2. PICK y : /\ R = [req EXCEPT ![r] = y]
                   /\ \/ y = [x EXCEPT !.at = "tail", !.on = t] /\ t # Nil /\ f = flight
                      \/ y = [x EXCEPT !.at = "joined", !.on = flight] /\ t = Nil /\ flight # Nil /\ f = flight
                      \/ y = [x EXCEPT !.at = "opening"] /\ t = Nil /\ flight = Nil /\ f = r
      BY DEF GetSnapshot
    <2>3. /\ y \in RequestType /\ y.op = x.op /\ y.writes = x.writes
          /\ y.rows = x.rows /\ y.got = x.got /\ y.due = x.due
          /\ \/ y.at = "tail" /\ t # Nil /\ f = flight
             \/ y.at = "joined" /\ t = Nil /\ f = flight
             \/ y.at = "opening" /\ t = Nil /\ flight = Nil /\ f = r
      <3>1. CASE y = [x EXCEPT !.at = "tail", !.on = t] /\ t # Nil /\ f = flight
        <4> HIDE DEF x, Q, R, t, f
        <4> QED
          BY <1>y, <2>1, <3>1 DEF RequestType, Places
      <3>2. CASE y = [x EXCEPT !.at = "joined", !.on = flight] /\ t = Nil /\ flight # Nil /\ f = flight
        <4> HIDE DEF x, Q, R, t, f
        <4> QED
          BY <1>y, <2>1, <3>2 DEF RequestType, Places
      <3>3. CASE y = [x EXCEPT !.at = "opening"] /\ t = Nil /\ flight = Nil /\ f = r
        <4> HIDE DEF x, Q, R, t, f
        <4> QED
          BY <1>y, <2>1, <3>3 DEF RequestType, Places
      <3> QED
        BY <2>2, <3>1, <3>2, <3>3
    <2>4. Moves(Q, R, r, y.at) /\ R[r] = y
      BY <1>t, <2>2, <2>3, MoveTo
    <2> QED
      BY <2>3, <2>4
  <1>a. a \in Places /\ a \in {"tail", "joined", "opening"} /\ a \notin SettledPlaces
    BY <1>0 DEF Places, SettledPlaces, Ended
  <1>s. SameRequests(Q, R)
    BY <1>0, MovesSame
  <1>1. TypeOK'
    BY <1>0, <1>t, <1>u, Types, TypesKept DEF Moves
  <1> HIDE DEF Q, R, a, f, t, D
  <1>p. \A p \in Requests : p = r \/ R[p] = Q[p]
    BY <1>0 DEF Moves
  <1>n. Q[r].got = Nil
    BY <1>t, <1>i DEF Shape
  <1>c. t = Nil => \A p \in Requests : ~Open(Q, p) /\ ~Blocks(Q, p) /\ Q[p].at # "await" /\ Q[p].at # "queued"
    <2>1. t = Nil => \A p \in Requests : ~Open(Q, p)
      BY <1>i, <1>y DEF InTurn
    <2>2. \A p \in Requests : Q[p].at \in {"queued", "await"} => Q[p].op = "patch"
      BY <1>i, <1>y, PlacesNext DEF Shape, RequestType
    <2> QED
      BY <2>1, <2>2 DEF Open, Blocks, SettledPlaces, Ended
  <1>2. Shape(R)
    <2>1. a \in PlacesOf(Q[r].op)
      BY <1>a, <1>t, <1>i, <1>y, PlacesNext DEF Shape, RequestType
    <2> QED
      BY <1>0, <1>a, <1>n, <1>y, <1>i, <2>1, ShapeHolds DEF SettledPlaces
  <1>3. InTurn(R, t)
    <2>1. \A p \in Requests : Open(R, p) <=> Open(Q, p)
      BY <1>0, <1>p, <1>t DEF Moves, Open
    <2>2. t # Nil => Open(Q, t)
      BY <1>i DEF InTurn
    <2>3. \A p \in Requests : /\ R[p].at = "queued" => Q[p].at = "queued" /\ R[p].on = Q[p].on
                              /\ Q[p].at = "queued" => R[p].at = "queued"
      BY <1>0, <1>a, <1>p, <1>t DEF Moves
    <2>4. t # Nil => Open(R, t)
      BY <2>1, <2>2, <1>y
    <2> QED
      BY <1>s, <1>y, <1>i, <2>1, <2>3, <2>4, InTurnHolds
  <1>4. Alone(R, f)
    <2>1. \A p \in Requests : R[p].op = Q[p].op /\ (Blocks(R, p) <=> Blocks(Q, p))
                              /\ (R[p].at = "await" => Q[p].at = "await" /\ R[p].on = Q[p].on)
      BY <1>0, <1>a, <1>p, <1>t DEF Moves, Blocks
    <2>2. CASE a \in {"tail", "joined"}
      <3>1. f = flight
        BY <1>0, <2>2
      <3>2. \A p \in Requests :
              /\ R[p].op \in Flown => (R[p].at \in Building <=> Q[p].at \in Building)
              /\ Blocks(R, p) => Blocks(Q, p)
              /\ R[p].at = "await" => Q[p].at = "await" /\ R[p].on = Q[p].on
        BY <1>0, <1>p, <1>t, <2>1, <2>2 DEF Moves, Building
      <3> QED
        BY <1>s, <1>i, <1>y, <3>1, <3>2, AloneHolds
    <2>3. CASE a = "opening"
      <3>1. f = r /\ flight = Nil /\ t = Nil
        BY <1>0, <2>3
      <3>2. \A p \in Requests : R[p].op \in Flown /\ R[p].at \in Building => f = p
        BY <1>i, <1>p, <1>y, <3>1 DEF Alone
      <3>3. \A p \in Requests : ~Blocks(R, p) /\ R[p].at # "await"
        BY <1>c, <2>1, <3>1
      <3>4. R[f].op \in Flown /\ R[f].at \in Building
        BY <1>0, <1>t, <2>1, <2>3, <3>1 DEF Moves, Building
      <3> QED
        BY <3>2, <3>3, <3>4 DEF Alone
    <2> QED
      BY <1>a, <2>2, <2>3
  <1>g. \A p \in Requests : (Good(R, p) <=> Good(Q, p)) /\ (Failed(R, p) <=> Failed(Q, p)) /\ R[p].got = Q[p].got
                            /\ (Blocks(R, p) <=> Blocks(Q, p))
    BY <1>0, <1>a, <1>p, <1>t DEF Moves, Good, Failed, SettledPlaces, Ended, Blocks
  <1>5. Files(R, models, D)
    <2>1. \A p \in models : R[p].op = "patch" /\ R[p].at \notin {"queued", "await"}
      BY <1>i, <1>p, <1>t, <1>y DEF Files
    <2>2. \A p \in D : R[p].at \notin {"unused", "queued", "await", "credentials"}
      BY <1>i, <1>p, <1>a, <1>0, <1>y, <1>u DEF Files, Moves
    <2>3. ASSUME NEW p \in Requests, Blocks(R, p) \/ Good(R, p)
          PROVE  /\ "models" \in R[p].writes => p \in models
                 /\ "creds" \in R[p].writes /\ R[p].at # "credentials" => p \in D
      <3>1. p # r
        BY <1>s, <1>t, <2>3 DEF Blocks, Good, SameRequests
      <3> QED
        BY <1>i, <1>g, <1>p, <1>u, <2>3, <3>1 DEF Files
    <2> QED
      BY <2>1, <2>2, <2>3 DEF Files
  <1>6. Rows(R, D)
    <2>1. \A p \in Requests :
              /\ R[p].rows \subseteq Q[p].rows
              /\ R[p].at = "reading" => Q[p].at = "reading" /\ R[p].rows = Q[p].rows
              /\ Good(R, p) => Good(Q, p)
      BY <1>0, <1>p, <1>a, <1>g DEF Moves
    <2> QED
      BY <1>s, <1>i, <1>u, <2>1, RowsHold
  <1>7. Views(R, models, D)
    BY <1>s, <1>i, <1>g, <1>u, ViewsHold
  <1>8. Due(R)
    <2>1. ASSUME NEW q \in Requests, R[q].op \in Flown, R[q].at \in {"joined"} \cup Building, NEW p \in R[q].due
          PROVE  R[p].at \in SettledPlaces
      <3>1. p \in Requests /\ p \in Q[q].due /\ Q[p].op = "patch"
        BY <1>s, <1>y, <1>i, <2>1 DEF SameRequests, Shape
      <3>2. Q[p].at \in SettledPlaces
        <4>1. CASE q = r
          <5>1. t = Nil
            BY <1>0, <2>1, <4>1 DEF Building, Moves
          <5> QED
            BY <1>c, <3>1, <5>1 DEF Open
        <4>2. CASE q # r
          BY <1>p, <1>i, <2>1, <3>1, <4>2 DEF Due
        <4> QED
          BY <4>1, <4>2
      <3>3. p # r
        BY <1>t, <3>1
      <3> QED
        BY <1>p, <3>1, <3>2, <3>3
    <2>2. ASSUME NEW q \in Requests, R[q].got # Nil, NEW p \in R[q].due
          PROVE  R[p].at \in SettledPlaces /\ (R[p].got # Nil => Shows(R, R[q].got, p))
      <3>1. p \in Requests /\ p \in Q[q].due /\ Q[p].op = "patch" /\ p # r /\ R[p] = Q[p]
        BY <1>s, <1>y, <1>i, <1>t, <1>p, <2>2 DEF SameRequests, Shape
      <3>2. R[q].got = Q[q].got
        BY <1>g
      <3> QED
        BY <1>i, <2>2, <3>1, <3>2 DEF Due, Shows
    <2> QED
      BY <2>1, <2>2 DEF Due
  <1>9. CacheFresh(R, cached)
    <2>1. \A p \in Requests : Good(R, p) /\ R[p].at # "done" => Good(Q, p) /\ Q[p].at # "done"
      BY <1>0, <1>p, <1>a, <1>g DEF Moves, Good
    <2> QED
      BY <1>s, <1>i, <2>1, CacheHolds
  <1> QED
    BY <1>1, <1>2, <1>3, <1>4, <1>5, <1>6, <1>7, <1>8, <1>9, <1>u DEF IInv, Q, R, D, f, t

(* A patch that has not begun, or whose credentials are to be written.     *)
InCourse(Q, r) ==
  /\ Q[r].at \in {"queued", "await", "credentials"}
  /\ Q[r].at = "queued" => \A p \in Requests : p < r => ~Open(Q, p)

LEMMA Course ==
    ASSUME TypeOK, Shape(req), NEW r \in Requests, req[r].at \in {"queued", "await", "credentials"}
    PROVE  req[r].op = "patch" /\ req[r].got = Nil /\ Open(req, r)
  BY Types, PlacesNext DEF Shape, Open, SettledPlaces, Ended

(* It writes one of the files and goes on.                                 *)
LEMMA CourseKeeps ==
    ASSUME IInv, NEW r \in Requests, NEW a \in {"credentials", "opening"}, InCourse(req, r),
           req[r].at = "credentials" => a = "opening", flight = Nil,
           req' = [req EXCEPT ![r].at = a],
           models \subseteq models', models' \subseteq models \cup {r},
           creds \subseteq creds', creds' \subseteq creds \cup {r}, a = "credentials" => creds' = creds,
           "models" \in req[r].writes => r \in models',
           a = "opening" /\ "creds" \in req[r].writes => r \in creds',
           UNCHANGED <<flight, tail, aborter, cached>>
    PROVE  IInv'
  <1> DEFINE Q == req
             R == req'
  <1>t. TypeOK
    BY DEF IInv
  <1>i. /\ Shape(Q) /\ InTurn(Q, tail) /\ Alone(Q, flight) /\ Files(Q, models, creds)
        /\ Rows(Q, creds) /\ Views(Q, models, creds) /\ Due(Q) /\ CacheFresh(Q, cached)
    BY DEF IInv
  <1>y. /\ Q \in [Requests -> RequestType] /\ models \subseteq Requests /\ creds \subseteq Requests
        /\ tail \in Requests \cup {Nil} /\ flight \in Requests \cup {Nil} /\ Nil \notin Requests
        /\ \A p \in Requests : Q[p].due \subseteq Requests
    BY <1>t, Types
  <1>0. /\ Moves(Q, R, r, a) /\ R[r].rows = Q[r].rows
    BY <1>t, Move DEF Places
  <1>c. Q[r].op = "patch" /\ Q[r].got = Nil /\ Open(Q, r) /\ Q[r].at \in {"queued", "await", "credentials"}
    BY <1>t, <1>i, Course DEF InCourse
  <1>a. a \in Places /\ a \in {"credentials", "opening"} /\ a \notin SettledPlaces /\ a \in PlacesOf("patch")
    BY DEF Places, SettledPlaces, Ended, PlacesOf
  <1>s. SameRequests(Q, R)
    BY <1>0, MovesSame
  <1>1. TypeOK'
    BY <1>0, <1>t, Types, TypesKept DEF Moves
  <1>d. InCourse(Q, r)
    OBVIOUS
  <1> HIDE DEF Q, R
  <1>p. \A p \in Requests : p = r \/ R[p] = Q[p]
    BY <1>0 DEF Moves
  <1>2. Shape(R)
    BY <1>0, <1>a, <1>c, <1>y, <1>i, ShapeHolds DEF SettledPlaces
  <1>o. \A p \in Requests : Open(R, p) <=> Open(Q, p)
    BY <1>0, <1>p, <1>a, <1>c DEF Moves, Open
  <1>3. InTurn(R, tail)
    <2>2. tail # Nil => Open(Q, tail)
      BY <1>i DEF InTurn
    <2>3. \A p \in Requests : R[p].at = "queued" => Q[p].at = "queued" /\ R[p].on = Q[p].on
      BY <1>0, <1>a, <1>p DEF Moves
    <2>4. tail # Nil => Open(R, tail)
      BY <1>o, <2>2, <1>y
    <2>5. \A p, q \in Requests : Q[q].op = "patch" /\ Q[q].at = "queued" /\ R[q].at # "queued"
                                    /\ p < q => ~Open(Q, p)
      BY <1>p, <1>d DEF InCourse
    <2> QED
      BY <1>s, <1>y, <1>i, <1>o, <2>3, <2>4, <2>5, InTurnHolds
  <1>4. Alone(R, flight)
    BY <1>i, <1>p, <1>0, <1>a, <1>c, <1>s, <1>y DEF Alone, Flown, Moves, SameRequests
  <1>g. \A p \in Requests : (Good(R, p) <=> Good(Q, p)) /\ (Failed(R, p) <=> Failed(Q, p)) /\ R[p].got = Q[p].got
    <2>1. ~Good(Q, r) /\ ~Good(R, r) /\ ~Failed(Q, r) /\ ~Failed(R, r) /\ R[r].got = Q[r].got
      BY <1>0, <1>a, <1>c DEF Moves, Good, Failed, SettledPlaces, Open
    <2>2. \A p \in Requests : R[p] = Q[p] => (Good(R, p) <=> Good(Q, p)) /\ (Failed(R, p) <=> Failed(Q, p))
      BY DEF Good, Failed
    <2> QED
      BY <1>p, <2>1, <2>2
  <1>5. Files(R, models', creds')
    <2>1. \A p \in models' : R[p].op = "patch" /\ R[p].at \notin {"queued", "await"}
      BY <1>i, <1>p, <1>0, <1>a, <1>c, <1>y DEF Files, Moves
    <2>2. \A p \in creds' : R[p].at \notin {"unused", "queued", "await", "credentials"}
      BY <1>i, <1>p, <1>0, <1>a, <1>c, <1>y DEF Files, Moves
    <2>3. ASSUME NEW p \in Requests, Blocks(R, p) \/ Good(R, p)
          PROVE  /\ "models" \in R[p].writes => p \in models'
                 /\ "creds" \in R[p].writes /\ R[p].at # "credentials" => p \in creds'
      <3>1. CASE p = r
        BY <1>0, <1>a, <3>1 DEF Q, Moves
      <3>2. CASE p # r
        <4>1. R[p] = Q[p] /\ (Blocks(Q, p) \/ Good(Q, p))
          BY <1>p, <2>3, <3>2 DEF Blocks, Good
        <4> QED
          BY <4>1, <1>i DEF Files
      <3> QED
        BY <3>1, <3>2
    <2> QED
      BY <2>1, <2>2, <2>3 DEF Files
  <1>6. Rows(R, creds')
    <2>1. \A p \in Requests :
              /\ R[p].rows \subseteq Q[p].rows
              /\ R[p].at = "reading" => Q[p].at = "reading" /\ R[p].rows = Q[p].rows
              /\ Good(R, p) => Good(Q, p)
      BY <1>0, <1>p, <1>a, <1>g DEF Moves
    <2> QED
      BY <1>s, <1>i, <2>1, RowsHold
  <1>7. Views(R, models', creds')
    BY <1>s, <1>i, <1>g, ViewsHold
  <1>8. Due(R)
    <2>1. \A p \in Requests :
              /\ Q[p].op = "patch" /\ Q[p].at \in SettledPlaces =>
                    R[p].at \in SettledPlaces /\ R[p].got \in {Q[p].got, Nil}
              /\ R[p].op \in Flown /\ R[p].at \in {"joined"} \cup Building =>
                    Q[p].at \in {"joined"} \cup Building
              /\ R[p].got \in {Q[p].got, Nil}
      BY <1>0, <1>p, <1>c, <1>s, <1>g DEF Moves, Open, Flown, SameRequests
    <2> QED
      BY <1>s, <1>i, <1>y, <2>1, DueHolds
  <1>9. CacheFresh(R, cached)
    <2>1. \A p \in Requests : Good(R, p) /\ R[p].at # "done" => Good(Q, p) /\ Q[p].at # "done"
      BY <1>0, <1>p, <1>a, <1>c, <1>g DEF Moves, Good
    <2> QED
      BY <1>s, <1>i, <2>1, CacheHolds
  <1> QED
    BY <1>1, <1>2, <1>3, <1>4, <1>5, <1>6, <1>7, <1>8, <1>9 DEF IInv, Q, R

(* It lets the snapshot under way finish first.                            *)
LEMMA AwaitKeeps ==
    ASSUME IInv, NEW r \in Requests, req[r].at = "queued", InCourse(req, r), flight # Nil,
           req' = [req EXCEPT ![r].at = "await", ![r].on = flight],
           UNCHANGED <<models, creds, flight, tail, aborter, cached>>
    PROVE  IInv'
  <1> DEFINE Q == req
             R == req'
  <1>t. TypeOK
    BY DEF IInv
  <1>i. /\ Shape(Q) /\ InTurn(Q, tail) /\ Alone(Q, flight) /\ Files(Q, models, creds)
        /\ Rows(Q, creds) /\ Views(Q, models, creds) /\ Due(Q) /\ CacheFresh(Q, cached)
    BY DEF IInv
  <1>y. /\ Q \in [Requests -> RequestType] /\ models \subseteq Requests /\ creds \subseteq Requests
        /\ tail \in Requests \cup {Nil} /\ flight \in Requests \cup {Nil} /\ Nil \notin Requests
        /\ \A p \in Requests : Q[p].due \subseteq Requests
    BY <1>t, Types
  <1> DEFINE a == "await"
             y == [req[r] EXCEPT !.at = a, !.on = flight]
  <1>0. /\ Moves(Q, R, r, a) /\ R[r].rows = Q[r].rows /\ R[r].on = flight
    <2>1. /\ y \in RequestType /\ y.at = a /\ y.on = flight /\ y.op = Q[r].op /\ y.writes = Q[r].writes
          /\ y.rows = Q[r].rows /\ y.got = Q[r].got /\ y.due = Q[r].due
      <3> DEFINE x == Q[r]
      <3>1. x \in RequestType
        BY <1>y
      <3>2. y = [x EXCEPT !.at = a, !.on = flight]
        OBVIOUS
      <3>3. a \in Places
        BY DEF Places
      <3> HIDE DEF x, y
      <3>4. /\ y \in RequestType /\ y.at = a /\ y.on = flight /\ y.op = x.op /\ y.writes = x.writes
            /\ y.rows = x.rows /\ y.got = x.got /\ y.due = x.due
        BY <1>y, <3>1, <3>2, <3>3 DEF RequestType
      <3> QED
        BY <3>4 DEF x
    <2>2. R = [req EXCEPT ![r] = y]
      OBVIOUS
    <2> HIDE DEF y
    <2>3. Moves(req, req', r, y.at) /\ req'[r] = y
      BY <1>t, <2>1, <2>2, MoveTo
    <2> QED
      BY <2>1, <2>3
  <1>c. Q[r].op = "patch" /\ Q[r].got = Nil /\ Open(Q, r) /\ Q[r].at = "queued" /\ InCourse(Q, r)
    BY <1>t, <1>i, Course
  <1>a. a \in Places /\ a = "await" /\ a \notin SettledPlaces /\ a \in PlacesOf("patch")
    BY DEF Places, SettledPlaces, Ended, PlacesOf
  <1>s. SameRequests(Q, R)
    BY <1>0, MovesSame
  <1>1. TypeOK'
    BY <1>0, <1>t, Types, TypesKept DEF Moves
  <1> HIDE DEF Q, R, a
  <1>p. \A p \in Requests : p = r \/ R[p] = Q[p]
    BY <1>0 DEF Moves
  <1>2. Shape(R)
    BY <1>0, <1>a, <1>c, <1>y, <1>i, ShapeHolds DEF SettledPlaces
  <1>o. \A p \in Requests : Open(R, p) <=> Open(Q, p)
    BY <1>0, <1>p, <1>a, <1>c DEF Moves, Open
  <1>3. InTurn(R, tail)
    <2>2. tail # Nil => Open(Q, tail)
      BY <1>i DEF InTurn
    <2>3. \A p \in Requests : R[p].at = "queued" => Q[p].at = "queued" /\ R[p].on = Q[p].on
      BY <1>0, <1>a, <1>p DEF Moves
    <2>4. tail # Nil => Open(R, tail)
      BY <1>o, <2>2, <1>y
    <2>5. \A p, q \in Requests : Q[q].op = "patch" /\ Q[q].at = "queued" /\ R[q].at # "queued"
                                    /\ p < q => ~Open(Q, p)
      BY <1>p, <1>c DEF InCourse
    <2> QED
      BY <1>s, <1>y, <1>i, <1>o, <2>3, <2>4, <2>5, InTurnHolds
  <1>4. Alone(R, flight)
    <2>1. \A p \in Requests : p # r => R[p] = Q[p]
      BY <1>p
    <2>2. R[r].at = "await" /\ R[r].on = flight /\ R[r].op = "patch"
      BY <1>0, <1>a, <1>c DEF Moves
    <2> QED
      BY <1>i, <1>c, <1>y, <2>1, <2>2 DEF Alone, Flown, Blocks
  <1>g. \A p \in Requests : (Good(R, p) <=> Good(Q, p)) /\ (Failed(R, p) <=> Failed(Q, p)) /\ R[p].got = Q[p].got
    <2>1. ~Good(Q, r) /\ ~Good(R, r) /\ ~Failed(Q, r) /\ ~Failed(R, r) /\ R[r].got = Q[r].got
      BY <1>0, <1>a, <1>c DEF Moves, Good, Failed, SettledPlaces, Open
    <2>2. \A p \in Requests : R[p] = Q[p] => (Good(R, p) <=> Good(Q, p)) /\ (Failed(R, p) <=> Failed(Q, p))
      BY DEF Good, Failed
    <2> QED
      BY <1>p, <2>1, <2>2
  <1>5. Files(R, models, creds)
    BY <1>i, <1>p, <1>0, <1>a, <1>c, <1>s, <1>y, <1>g DEF Files, Moves, Blocks
  <1>6. Rows(R, creds)
    <2>1. \A p \in Requests :
              /\ R[p].rows \subseteq Q[p].rows
              /\ R[p].at = "reading" => Q[p].at = "reading" /\ R[p].rows = Q[p].rows
              /\ Good(R, p) => Good(Q, p)
      BY <1>0, <1>p, <1>a, <1>g DEF Moves
    <2> QED
      BY <1>s, <1>i, <2>1, RowsHold
  <1>7. Views(R, models, creds)
    BY <1>s, <1>i, <1>g, ViewsHold
  <1>8. Due(R)
    <2>1. \A p \in Requests :
              /\ Q[p].op = "patch" /\ Q[p].at \in SettledPlaces =>
                    R[p].at \in SettledPlaces /\ R[p].got \in {Q[p].got, Nil}
              /\ R[p].op \in Flown /\ R[p].at \in {"joined"} \cup Building =>
                    Q[p].at \in {"joined"} \cup Building
              /\ R[p].got \in {Q[p].got, Nil}
      BY <1>0, <1>p, <1>c, <1>s, <1>g DEF Moves, Open, Flown, SameRequests
    <2> QED
      BY <1>s, <1>i, <1>y, <2>1, DueHolds
  <1>9. CacheFresh(R, cached)
    <2>1. \A p \in Requests : Good(R, p) /\ R[p].at # "done" => Good(Q, p) /\ Q[p].at # "done"
      BY <1>0, <1>p, <1>a, <1>c, <1>g DEF Moves, Good
    <2> QED
      BY <1>s, <1>i, <2>1, CacheHolds
  <1> QED
    BY <1>1, <1>2, <1>3, <1>4, <1>5, <1>6, <1>7, <1>8, <1>9 DEF IInv, Q, R

(* It is refused, or its credentials cannot be written.                    *)
LEMMA RefuseKeeps ==
    ASSUME IInv, NEW r \in Requests, InCourse(req, r), Refuse(r), UNCHANGED models
    PROVE  IInv'
  <1> DEFINE Q == req
             R == req'
  <1>t. TypeOK
    BY DEF IInv
  <1>i. /\ Shape(Q) /\ InTurn(Q, tail) /\ Alone(Q, flight) /\ Files(Q, models, creds)
        /\ Rows(Q, creds) /\ Views(Q, models, creds) /\ Due(Q) /\ CacheFresh(Q, cached)
    BY DEF IInv
  <1>y. /\ Q \in [Requests -> RequestType] /\ models \subseteq Requests /\ creds \subseteq Requests
        /\ tail \in Requests \cup {Nil} /\ flight \in Requests \cup {Nil} /\ Nil \notin Requests
        /\ \A p \in Requests : Q[p].due \subseteq Requests
    BY <1>t, Types
  <1> DEFINE a == "answered"
  <1>u. /\ models' = models /\ creds' = creds /\ flight' = flight /\ aborter' = aborter /\ cached' = cached
        /\ tail' = IF tail = r THEN Nil ELSE tail
    BY DEF Refuse, Settle
  <1>a. a \in Places /\ a = "answered" /\ a \in SettledPlaces /\ a \in PlacesOf("patch")
    BY DEF Places, SettledPlaces, Ended, PlacesOf
  <1>0. /\ Moves(Q, R, r, a) /\ R[r].rows = Q[r].rows
    BY <1>t, <1>a, Move DEF Refuse
  <1>c. Q[r].op = "patch" /\ Q[r].got = Nil /\ Open(Q, r) /\ InCourse(Q, r)
    BY <1>t, <1>i, Course DEF InCourse
  <1>s. SameRequests(Q, R)
    BY <1>0, MovesSame
  <1>1. TypeOK'
    BY <1>0, <1>t, <1>u, Types, TypesKept DEF Moves
  <1> HIDE DEF Q, R, a
  <1>p. \A p \in Requests : p = r \/ R[p] = Q[p]
    BY <1>0 DEF Moves
  <1>2. Shape(R)
    BY <1>0, <1>a, <1>c, <1>y, <1>i, ShapeHolds
  <1>o. \A p \in Requests : Open(R, p) <=> Open(Q, p) /\ p # r
    BY <1>0, <1>p, <1>a, <1>c DEF Moves, Open
  <1>3. InTurn(R, tail')
    <2>2. tail # Nil => Open(Q, tail)
      BY <1>i DEF InTurn
    <2>3. \A p \in Requests : R[p].at = "queued" => Q[p].at = "queued" /\ R[p].on = Q[p].on
      BY <1>0, <1>a, <1>p DEF Moves
    <2>4. (tail' = tail \/ tail' = Nil) /\ (tail # Nil => (tail' = tail <=> Open(R, tail)))
      BY <1>o, <1>u, <2>2, <1>y
    <2>5. \A p, q \in Requests : Q[q].op = "patch" /\ Q[q].at = "queued" /\ R[q].at # "queued"
                                    /\ p < q => ~Open(Q, p)
      BY <1>p, <1>c DEF InCourse
    <2>6. \A p \in Requests : Open(R, p) => Open(Q, p)
      BY <1>o
    <2> QED
      BY <1>s, <1>y, <1>i, <2>3, <2>4, <2>5, <2>6, InTurnHolds
  <1>4. Alone(R, flight)
    <2>1. \A p \in Requests :
              /\ R[p].op \in Flown => (R[p].at \in Building <=> Q[p].at \in Building)
              /\ Blocks(R, p) => Blocks(Q, p)
              /\ R[p].at = "await" => Q[p].at = "await" /\ R[p].on = Q[p].on
      BY <1>0, <1>p, <1>a, <1>c DEF Moves, Building, Blocks, Flown
    <2> QED
      BY <1>s, <1>i, <1>y, <2>1, AloneHolds
  <1>g. \A p \in Requests : (Good(R, p) <=> Good(Q, p)) /\ (Failed(Q, p) => Failed(R, p)) /\ R[p].got = Q[p].got
    <2>1. ~Good(Q, r) /\ ~Good(R, r) /\ ~Failed(Q, r) /\ R[r].got = Q[r].got
      BY <1>0, <1>a, <1>c DEF Moves, Good, Failed, SettledPlaces, Open
    <2>2. \A p \in Requests : R[p] = Q[p] => (Good(R, p) <=> Good(Q, p)) /\ (Failed(R, p) <=> Failed(Q, p))
      BY DEF Good, Failed
    <2> QED
      BY <1>p, <2>1, <2>2
  <1>5. Files(R, models, creds)
    <2>1. \A p \in Requests :
              /\ Q[p].at \notin {"queued", "await"} => R[p].at \notin {"queued", "await"}
              /\ Q[p].at \notin {"unused", "queued", "await", "credentials"}
                   => R[p].at \notin {"unused", "queued", "await", "credentials"}
      BY <1>0, <1>p, <1>a DEF Moves
    <2>2. \A p \in Requests : Blocks(R, p) \/ Good(R, p) =>
              /\ Blocks(Q, p) \/ Good(Q, p)
              /\ Q[p].at = "credentials" /\ R[p].at # "credentials" => p \in creds
      BY <1>0, <1>p, <1>a, <1>c, <1>g DEF Moves, Blocks, Good
    <2> QED
      BY <1>s, <1>i, <1>y, <2>1, <2>2, FilesStay
  <1>6. Rows(R, creds)
    <2>1. \A p \in Requests :
              /\ R[p].rows \subseteq Q[p].rows
              /\ R[p].at = "reading" => Q[p].at = "reading" /\ R[p].rows = Q[p].rows
              /\ Good(R, p) => Good(Q, p)
      BY <1>0, <1>p, <1>a, <1>g DEF Moves
    <2> QED
      BY <1>s, <1>i, <2>1, RowsHold
  <1>7. Views(R, models, creds)
    BY <1>s, <1>i, <1>g, ViewsHold
  <1>8. Due(R)
    <2>1. \A p \in Requests :
              /\ Q[p].op = "patch" /\ Q[p].at \in SettledPlaces =>
                    R[p].at \in SettledPlaces /\ R[p].got \in {Q[p].got, Nil}
              /\ R[p].op \in Flown /\ R[p].at \in {"joined"} \cup Building =>
                    Q[p].at \in {"joined"} \cup Building
              /\ R[p].got \in {Q[p].got, Nil}
      BY <1>0, <1>p, <1>c, <1>s, <1>g DEF Moves, Open, Flown, SameRequests
    <2> QED
      BY <1>s, <1>i, <1>y, <2>1, DueHolds
  <1>9. CacheFresh(R, cached)
    <2>1. \A p \in Requests : Good(R, p) /\ R[p].at # "done" => Good(Q, p) /\ Q[p].at # "done"
      BY <1>0, <1>p, <1>a, <1>c, <1>g DEF Moves, Good
    <2> QED
      BY <1>s, <1>i, <2>1, CacheHolds
  <1> QED
    BY <1>1, <1>2, <1>3, <1>4, <1>5, <1>6, <1>7, <1>8, <1>9, <1>u DEF IInv, Q, R

(* A build is over: the requests that share it are answered or go on, with *)
(* the view v or with its error.                                           *)
LEMMA BuiltKeeps ==
    ASSUME IInv, NEW r \in Requests, req[r].at \in Building, req[r].op # "runtime",
           NEW v, Built(r, v), UNCHANGED cached,
           v # Nil => req[r].at = "reading" /\ v = [models |-> models, creds |-> req[r].rows]
    PROVE  IInv'
  <1> DEFINE Q == req
             R == req'
             S == Sharing(r)
             y(q) == [req[q] EXCEPT !.at = IF v = Nil \/ req[q].op = "snapshot" THEN "answered" ELSE "done",
                                    !.got = v, !.on = Nil, !.rows = {}]
  <1>t. TypeOK /\ Q[r].at \in Building /\ Q[r].op # "runtime"
    BY DEF IInv
  <1>i. /\ Shape(Q) /\ InTurn(Q, tail) /\ Alone(Q, flight) /\ Files(Q, models, creds)
        /\ Rows(Q, creds) /\ Views(Q, models, creds) /\ Due(Q) /\ CacheFresh(Q, cached)
    BY DEF IInv
  <1>y. /\ Q \in [Requests -> RequestType] /\ models \subseteq Requests /\ creds \subseteq Requests
        /\ tail \in Requests \cup {Nil} /\ flight \in Requests \cup {Nil} /\ Nil \notin Requests
        /\ aborter \in Requests \cup {Nil} /\ cached \in (SUBSET Requests) \cup {Nil}
        /\ \A p \in Requests : Q[p].due \subseteq Requests /\ Q[p].rows \subseteq Requests
        /\ \A p \in Requests : Q[p].op \in Operations /\ Q[p].at \in Places
    BY <1>t, Types
  <1>u. /\ models' = models /\ creds' = creds /\ cached' = cached
        /\ tail' = IF Q[r].op = "patch" /\ tail = r THEN Nil ELSE tail
        /\ flight' = IF flight = r THEN Nil ELSE flight
        /\ aborter' \in {Nil, aborter}
    BY DEF Built, Settle, IsPatch
  <1>v. v \in View \cup {Nil} /\ (v # Nil => v.models = models /\ v.creds = Q[r].rows /\ Q[r].at = "reading")
    BY <1>y DEF View
  <1>S. /\ r \in S /\ S \subseteq Requests
        /\ \A q \in S : q = r \/ (Q[q].at = "joined" /\ Q[q].op \in Flown)
        /\ Q[r].op \in Flown \/ Q[r].op = "patch"
    <2>1. \A q \in Requests : Q[q].at = "joined" => Q[q].op \in Flown
      BY <1>i, <1>y, PlacesNext DEF Shape
    <2>2. /\ r \in S /\ S \subseteq Requests
          /\ \A q \in S : q = r \/ Q[q].at = "joined"
      BY DEF Sharing
    <2>3. Q[r].op \in Flown \/ Q[r].op = "patch"
      BY <1>t, <1>y DEF Operations, Flown
    <2> HIDE DEF Q, S
    <2> QED
      BY <2>1, <2>2, <2>3
  <1>R. R = [q \in Requests |-> IF q \notin S THEN Q[q] ELSE y(q)]
    BY DEF Built
  <1>Y. ASSUME NEW q \in Requests
        PROVE  /\ y(q) \in RequestType /\ y(q).op = Q[q].op /\ y(q).writes = Q[q].writes /\ y(q).due = Q[q].due
               /\ y(q).got = v /\ y(q).rows = {}
               /\ y(q).at \in {"answered", "done"} /\ (y(q).at = "done" <=> v # Nil /\ Q[q].op # "snapshot")
    <2> DEFINE x == Q[q]
               z == y(q)
               a == IF v = Nil \/ x.op = "snapshot" THEN "answered" ELSE "done"
    <2>1. x \in RequestType
      BY <1>y
    <2>2. z = [x EXCEPT !.at = a, !.got = v, !.on = Nil, !.rows = {}]
      OBVIOUS
    <2>3. a \in Places /\ a \in {"answered", "done"} /\ (a = "done" <=> v # Nil /\ x.op # "snapshot")
      BY DEF Places, Ended
    <2> HIDE DEF x, z, a
    <2>4. /\ z \in RequestType /\ z.op = x.op /\ z.writes = x.writes /\ z.due = x.due
          /\ z.got = v /\ z.rows = {} /\ z.at = a
      BY <1>v, <2>1, <2>2, <2>3 DEF RequestType
    <2> QED
      BY <2>3, <2>4 DEF x, z
  <1> HIDE DEF Q, R, S, y
  <1>p. \A q \in Requests : q \notin S => R[q] = Q[q]
    BY <1>R
  <1>q. \A q \in S : /\ R[q].got = v /\ R[q].rows = {} /\ R[q].at \in {"answered", "done"}
                     /\ R[q].at = "done" <=> v # Nil /\ Q[q].op # "snapshot"
    BY <1>R, <1>S, <1>Y
  <1>s. SameRequests(Q, R)
    BY <1>R, <1>Y DEF SameRequests
  <1>0. R \in [Requests -> RequestType]
    BY <1>R, <1>Y, <1>y
  <1>1. TypeOK'
    BY <1>0, <1>u, <1>y, TypesKept DEF R
  <1>2. Shape(R)
    <2>1. ASSUME NEW q \in S
          PROVE  /\ R[q].at \in PlacesOf(R[q].op)
                 /\ R[q].at # "unused"
                 /\ R[q].got # Nil => R[q].at \in {"done", "fresh", "answered"} /\ R[q].op # "runtime"
                 /\ R[q].at \in {"done", "fresh"} => R[q].got # Nil
      <3>1. Q[q].op = R[q].op /\ R[q].op \in Flown \cup {"patch"} /\ q \in Requests
        BY <1>s, <1>S DEF SameRequests
      <3>2. R[q].at \in PlacesOf(R[q].op)
        <4>1. CASE Q[q].op = "snapshot"
          BY <1>q, <3>1, <4>1 DEF PlacesOf
        <4>2. CASE Q[q].op # "snapshot"
          BY <1>q, <3>1, <4>2 DEF PlacesOf, Flown
        <4> QED
          BY <4>1, <4>2
      <3> QED
        BY <1>q, <3>1, <3>2 DEF Flown
    <2>2. \A q \in Requests :
              /\ R[q].at \in PlacesOf(R[q].op)
              /\ R[q].at = "unused" => R[q] = Unused
              /\ R[q].got # Nil => R[q].at \in {"done", "fresh", "answered"} /\ R[q].op # "runtime"
              /\ R[q].at \in {"done", "fresh"} => R[q].got # Nil
      BY <1>i, <1>p, <2>1 DEF Shape
    <2>3. \A q \in Requests :
              /\ R[q].writes # {} => R[q].op = "patch"
              /\ \A p \in R[q].due : R[p].op = "patch" /\ p < q
      BY <1>i, <1>s, <1>y DEF Shape, SameRequests
    <2> QED
      BY <2>2, <2>3 DEF Shape
  <1>a. \A q \in S : R[q].at \in SettledPlaces
    BY <1>q DEF SettledPlaces, Ended
  <1>b. \A q \in S : Q[q].at \notin SettledPlaces /\ Q[q].at \notin {"queued", "await", "credentials", "unused"}
    BY <1>S, <1>t DEF SettledPlaces, Ended, Building
  <1>o. \A p \in Requests : /\ Open(R, p) <=> Open(Q, p) /\ p # r
                            /\ p # r /\ Q[p].op = "patch" => p \notin S
    <2>1. \A p \in Requests : p # r /\ Q[p].op = "patch" => p \notin S
      BY <1>S DEF Flown
    <2> QED
      BY <1>p, <1>a, <1>b, <1>s, <1>S, <2>1 DEF Open, SameRequests
  <1>c. /\ Q[r].op = "patch" <=> Blocks(Q, r)
        /\ Q[r].op = "patch" <=> Open(Q, r)
        /\ Q[r].op # "patch" => flight = r
    BY <1>t, <1>i, <1>b, <1>S DEF Blocks, Open, Building, Alone
  <1>d. \A p \in Requests : Open(Q, p) /\ p # r => p \notin models /\ p \notin creds
    <2>1. SUFFICES ASSUME NEW p \in Requests, Open(Q, p), p # r PROVE p \notin models /\ p \notin creds
      OBVIOUS
    <2>2. Q[p].at \in {"queued", "await"}
      <3>1. CASE Q[r].op = "patch"
        <4>1. p < r => Q[r].at = "queued"
          BY <1>i, <1>c, <2>1, <3>1 DEF InTurn
        <4>2. r < p => Q[p].at = "queued"
          BY <1>i, <1>c, <2>1, <3>1 DEF InTurn, Open
        <4> QED
          BY <1>b, <1>S, <2>1, <4>1, <4>2 DEF Requests
      <3>2. CASE Q[r].op # "patch"
        <4>1. ~Blocks(Q, p)
          BY <1>i, <1>c, <1>y, <2>1, <3>2 DEF Alone
        <4>2. Q[p].op = "patch" /\ Q[p].at \notin SettledPlaces /\ Q[p].at \in PlacesOf("patch")
          BY <1>i, <2>1 DEF Open, Shape
        <4> QED
          BY <4>1, <4>2 DEF Blocks, PlacesOf, SettledPlaces, Ended
      <3> QED
        BY <3>1, <3>2
    <2> QED
      BY <1>i, <2>2 DEF Files
  <1>g. \A p \in Requests : /\ Good(Q, p) => Good(R, p) /\ R[p] = Q[p]
                            /\ Good(R, p) => Good(Q, p) \/ (p = r /\ Blocks(Q, r) /\ v # Nil)
                            /\ Failed(Q, p) => Failed(R, p)
                            /\ Q[p].at \in SettledPlaces => R[p] = Q[p]
    <2>1. \A p \in Requests : Q[p].at \in SettledPlaces => R[p] = Q[p]
      BY <1>p, <1>b
    <2>2. \A p \in Requests : p \notin S => (Good(R, p) <=> Good(Q, p)) /\ (Failed(R, p) <=> Failed(Q, p))
      BY <1>p DEF Good, Failed
    <2>3. \A p \in S : Good(R, p) => p = r /\ Blocks(Q, r) /\ v # Nil
      BY <1>o, <1>c, <1>q, <1>s, <1>S DEF Good, SameRequests
    <2>4. \A p \in S : ~Good(Q, p) /\ ~Failed(Q, p)
      BY <1>b DEF Good, Failed, SettledPlaces
    <2>5. \A p \in Requests : Good(Q, p) => p \notin S /\ R[p] = Q[p]
      BY <1>p, <2>4
    <2> QED
      BY <2>1, <2>2, <2>3, <2>4, <2>5
  <1>3. InTurn(R, tail')
    <2>1. tail # Nil => Open(Q, tail)
      BY <1>i DEF InTurn
    <2>2. \A p \in Requests : R[p].at = "queued" => Q[p].at = "queued" /\ R[p].on = Q[p].on
      BY <1>p, <1>q
    <2>3. (tail' = tail \/ tail' = Nil) /\ (tail # Nil => (tail' = tail <=> Open(R, tail)))
      BY <1>o, <1>u, <1>c, <2>1, <1>y
    <2>4. \A p, q \in Requests : Q[q].op = "patch" /\ Q[q].at = "queued" /\ R[q].at # "queued"
                                    /\ p < q => ~Open(Q, p)
      BY <1>p, <1>b
    <2>5. \A p \in Requests : Open(R, p) => Open(Q, p)
      BY <1>o
    <2> QED
      BY <1>s, <1>y, <1>i, <2>2, <2>3, <2>4, <2>5, InTurnHolds
  <1>4. Alone(R, flight')
    <2>1. \A q \in Requests : R[q].at \in Building \cup {"await", "credentials"} => q \notin S /\ R[q] = Q[q]
      BY <1>p, <1>q DEF Building
    <2>2. \A q \in Requests : R[q].op \in Flown /\ R[q].at \in Building => flight' = q
      BY <1>i, <1>u, <1>S, <2>1 DEF Alone
    <2>3. flight' # Nil => R[flight'].op \in Flown /\ R[flight'].at \in Building
      <3>1. SUFFICES ASSUME flight' # Nil PROVE R[flight'].op \in Flown /\ R[flight'].at \in Building
        OBVIOUS
      <3>2. flight' = flight /\ flight # r /\ flight \in Requests /\ Q[flight].op \in Flown /\ Q[flight].at \in Building
        BY <1>i, <1>u, <1>y, <3>1 DEF Alone
      <3>3. flight \notin S
        BY <1>S, <3>2 DEF Building
      <3> QED
        BY <1>p, <3>2, <3>3
    <2>4. \A q \in Requests : Blocks(R, q) => flight' = Nil
      BY <1>i, <1>u, <2>1 DEF Alone, Blocks, Building
    <2>5. \A q \in Requests : R[q].at = "await" => flight' \in {Nil, R[q].on}
      BY <1>i, <1>u, <2>1 DEF Alone
    <2> QED
      BY <2>2, <2>3, <2>4, <2>5 DEF Alone
  <1>5. Files(R, models, creds)
    <2>1. \A p \in Requests :
              /\ Q[p].at \notin {"queued", "await"} => R[p].at \notin {"queued", "await"}
              /\ Q[p].at \notin {"unused", "queued", "await", "credentials"}
                   => R[p].at \notin {"unused", "queued", "await", "credentials"}
      BY <1>p, <1>q
    <2>2. \A p \in Requests : Blocks(R, p) \/ Good(R, p) =>
              /\ Blocks(Q, p) \/ Good(Q, p)
              /\ Q[p].at = "credentials" /\ R[p].at # "credentials" => p \in creds
      <3>1. \A p \in Requests : Blocks(R, p) => Blocks(Q, p)
        BY <1>p, <1>q DEF Blocks
      <3>2. \A p \in Requests : ~(Q[p].at = "credentials" /\ R[p].at # "credentials")
        BY <1>p, <1>b
      <3> QED
        BY <1>g, <3>1, <3>2
    <2> QED
      BY <1>s, <1>i, <1>y, <2>1, <2>2, FilesStay
  <1>e. v # Nil => \A p \in Requests : Good(R, p) =>
           /\ "models" \in Q[p].writes => p \in models
           /\ "creds" \in Q[p].writes => p \in Q[r].rows
    <2>1. SUFFICES ASSUME v # Nil, NEW p \in Requests, Good(R, p)
                   PROVE  /\ "models" \in Q[p].writes => p \in models
                          /\ "creds" \in Q[p].writes => p \in Q[r].rows
      OBVIOUS
    <2>2. Good(Q, p) \/ (p = r /\ Blocks(Q, p) /\ Q[p].op = "patch")
      BY <1>g, <1>c, <2>1
    <2> QED
      BY <1>i, <1>v, <1>t, <2>1, <2>2 DEF Files, Rows
  <1>6. Rows(R, creds)
    <2>1. \A p \in Requests :
              /\ R[p].rows \subseteq Q[p].rows
              /\ R[p].at = "reading" => Q[p].at = "reading" /\ R[p].rows = Q[p].rows
      BY <1>p, <1>q
    <2>2. Blocks(Q, r) => \A q \in Requests : R[q].at = "reading" => R[q].op = "runtime"
      <3>1. SUFFICES ASSUME Blocks(Q, r), NEW q \in Requests, R[q].at = "reading" PROVE R[q].op = "runtime"
        OBVIOUS
      <3>2. q \notin S /\ R[q] = Q[q] /\ q # r
        BY <1>p, <1>q, <1>S, <3>1
      <3>3. Q[q].op \notin Flown
        BY <1>i, <1>y, <3>1, <3>2 DEF Alone, Building
      <3>4. Q[q].op # "patch"
        <4>1. SUFFICES ASSUME Q[q].op = "patch" PROVE FALSE
          OBVIOUS
        <4>2. Open(Q, q) /\ Open(Q, r) /\ Q[r].op = "patch"
          BY <1>c, <3>1, <3>2, <4>1 DEF Open, SettledPlaces, Ended
        <4>3. q < r \/ r < q
          BY <3>2 DEF Requests
        <4> QED
          BY <1>i, <1>b, <1>S, <3>1, <3>2, <4>2, <4>3 DEF InTurn, Open
      <3> QED
        BY <1>y, <3>2, <3>3, <3>4 DEF Operations, Flown
    <2> QED
      BY <1>s, <1>i, <1>g, <2>1, <2>2, RowsHold
  <1>7. Views(R, models, creds)
    <2>1. v # Nil => v.models \subseteq models /\ v.creds \subseteq creds
      BY <1>v, <1>i DEF Rows
    <2>2. v # Nil => WholeView(R, v)
      <3>1. SUFFICES ASSUME v # Nil, NEW p \in Requests, R[p].writes = {"models", "creds"}, ~Failed(R, p)
                     PROVE  p \in v.models <=> p \in v.creds
        BY DEF WholeView
      <3>2. R[p].op = "patch" /\ Q[p].writes = {"models", "creds"} /\ Q[p].op = "patch"
        BY <1>2, <1>s, <3>1 DEF Shape, SameRequests
      <3>3. CASE Open(R, p)
        BY <1>d, <1>o, <1>v, <2>1, <3>1, <3>3
      <3>4. CASE ~Open(R, p)
        <4>1. Good(R, p)
          BY <1>2, <3>1, <3>2, <3>4 DEF Open, Good, Failed, Shape, SettledPlaces
        <4> QED
          BY <1>e, <1>v, <3>1, <3>2, <4>1
      <3> QED
        BY <3>3, <3>4
    <2>3. \A p \in Requests : R[p].got # Nil =>
              \/ R[p].got = Q[p].got
              \/ R[p].got.models \subseteq models /\ R[p].got.creds \subseteq creds /\ WholeView(R, R[p].got)
      BY <1>p, <1>q, <2>1, <2>2
    <2> QED
      BY <1>s, <1>i, <1>g, <2>3, ViewsHold
  <1>8. Due(R)
    <2>1. ASSUME NEW q \in Requests, R[q].op \in Flown, R[q].at \in {"joined"} \cup Building, NEW p \in R[q].due
          PROVE  R[p].at \in SettledPlaces
      <3>1. R[q] = Q[q] /\ p \in Requests
        BY <1>p, <1>q, <1>y, <1>s, <2>1 DEF Building, SameRequests
      <3> QED
        BY <1>i, <1>g, <2>1, <3>1 DEF Due
    <2>2. ASSUME NEW q \in Requests, R[q].got # Nil, NEW p \in R[q].due
          PROVE  R[p].at \in SettledPlaces /\ (R[p].got # Nil => Shows(R, R[q].got, p))
      <3>1. p \in Requests /\ p \in Q[q].due /\ Q[p].op = "patch" /\ p < q /\ R[p].op = "patch"
        BY <1>s, <1>y, <1>i, <2>2 DEF SameRequests, Shape
      <3>2. CASE q \notin S
        <4>1. R[q] = Q[q]
          BY <1>p, <3>2
        <4>2. Q[p].at \in SettledPlaces /\ (Q[p].got # Nil => Shows(Q, Q[q].got, p))
          BY <1>i, <2>2, <3>1, <4>1 DEF Due
        <4>3. R[p] = Q[p]
          BY <1>g, <3>1, <4>2
        <4> QED
          BY <4>1, <4>2, <4>3 DEF Shows
      <3>3. CASE q \in S
        <4>1. Q[p].at \in SettledPlaces
          <5>1. CASE q = r /\ Q[r].op = "patch"
            BY <1>i, <1>b, <1>S, <3>1, <5>1 DEF InTurn, Open
          <5>2. CASE Q[q].op \in Flown
            BY <1>i, <1>S, <1>t, <3>1, <3>3, <5>2 DEF Due
          <5> QED
            BY <1>S, <3>3, <5>1, <5>2
        <4>2. R[p] = Q[p] /\ R[q].got = v /\ v # Nil
          BY <1>g, <1>q, <2>2, <3>1, <3>3, <4>1
        <4>3. R[p].got # Nil => Good(R, p)
          BY <3>1, <4>1, <4>2 DEF Good
        <4> QED
          BY <1>e, <1>v, <3>1, <4>1, <4>2, <4>3 DEF Shows
      <3> QED
        BY <3>2, <3>3
    <2> QED
      BY <2>1, <2>2 DEF Due
  <1>9. CacheFresh(R, cached)
    <2>1. \A p \in Requests : Good(R, p) /\ R[p].at # "done" => Good(Q, p) /\ Q[p].at # "done"
      <3>1. Blocks(Q, r) /\ v # Nil => R[r].at = "done"
        BY <1>q, <1>c, <1>S
      <3> QED
        BY <1>g, <3>1
    <2> QED
      BY <1>s, <1>i, <2>1, CacheHolds
  <1> QED
    BY <1>1, <1>2, <1>3, <1>4, <1>5, <1>6, <1>7, <1>8, <1>9, <1>u DEF IInv, Q, R

(* A request reaches the agent.                                            *)
LEMMA AskKeeps ==
    ASSUME IInv, NEW r \in Requests, NEW op \in Operations,
           NEW writes \in SUBSET {"models", "creds"}, writes # {} => op = "patch", Ask(r, op, writes)
    PROVE  IInv'
  <1> DEFINE Q == req
             R == req'
             t == tail
             q == [Unused EXCEPT !.op = op, !.writes = writes, !.due = Accepted]
  <1>t. TypeOK
    BY DEF IInv
  <1>i. /\ Shape(Q) /\ InTurn(Q, t) /\ Alone(Q, flight) /\ Files(Q, models, creds)
        /\ Rows(Q, creds) /\ Views(Q, models, creds) /\ Due(Q) /\ CacheFresh(Q, cached)
    BY DEF IInv
  <1>y. /\ Q \in [Requests -> RequestType] /\ models \subseteq Requests /\ creds \subseteq Requests
        /\ t \in Requests \cup {Nil} /\ flight \in Requests \cup {Nil} /\ Nil \notin Requests
        /\ aborter \in Requests \cup {Nil} /\ cached \in (SUBSET Requests) \cup {Nil}
        /\ \A p \in Requests : Q[p].due \subseteq Requests /\ Q[p].rows \subseteq Requests
        /\ \A p \in Requests : Q[p].op \in Operations /\ Q[p].at \in Places
    BY <1>t, Types
  <1>u. models' = models /\ creds' = creds /\ cached' = cached /\ aborter' = aborter
    BY DEF Ask
  <1>f. \A s \in Requests : Q[s].at = "unused" <=> s >= r
    BY DEF Ask
  <1>d. /\ Accepted \subseteq Requests
        /\ \A p \in Accepted : Q[p].op = "patch" /\ p < r
    BY <1>f DEF Accepted, IsPatch, Requests
  <1>q. /\ q \in RequestType /\ q.op = op /\ q.writes = writes /\ q.due = Accepted /\ q.got = Nil
        /\ q.rows = {} /\ q.on = Nil
    <2> DEFINE x == Unused
    <2>1. x \in RequestType /\ x.got = Nil /\ x.rows = {} /\ x.on = Nil
      BY DEF Unused, RequestType, Operations, Places
    <2>2. q = [x EXCEPT !.op = op, !.writes = writes, !.due = Accepted]
      OBVIOUS
    <2> HIDE DEF x, q
    <2> QED
      BY <1>d, <2>1, <2>2 DEF RequestType
  <1>0. \E x \in RequestType :
          /\ R = [Q EXCEPT ![r] = x]
          /\ x.op = op /\ x.writes = writes /\ x.due = Accepted /\ x.got = Nil /\ x.rows = {}
          /\ \/ op = "snapshot" /\ x.at = "tail" /\ t # Nil /\ flight' = flight /\ tail' = t
             \/ op = "snapshot" /\ x.at = "joined" /\ t = Nil /\ flight' = flight /\ tail' = t
             \/ op = "snapshot" /\ x.at = "opening" /\ t = Nil /\ flight = Nil /\ flight' = r /\ tail' = t
             \/ op = "patch" /\ x.at = "queued" /\ x.on = t /\ flight' = flight /\ tail' = r
             \/ op \in {"login", "logout"} /\ x.at = "starting" /\ flight' = flight /\ tail' = t
             \/ op = "runtime" /\ x.at \in {"opening", "over"} /\ flight' = flight /\ tail' = t
    <2> DEFINE Is(y, a) == /\ y \in RequestType /\ y.op = op /\ y.writes = writes /\ y.due = Accepted
                           /\ y.got = Nil /\ y.rows = {} /\ y.at = a
    <2> HIDE DEF q
    <2>1. ASSUME NEW a \in Places, NEW b \in Requests \cup {Nil}
          PROVE  /\ Is([q EXCEPT !.at = a, !.on = b], a)
                 /\ [q EXCEPT !.at = a, !.on = b].on = b
      BY <1>q DEF RequestType
    <2>2. ASSUME NEW a \in Places
          PROVE  Is([q EXCEPT !.at = a], a)
      BY <1>q DEF RequestType
    <2>a. {"tail", "joined", "opening", "queued", "starting", "over"} \subseteq Places
      BY DEF Places, Ended
    <2>3. CASE op = "snapshot"
      <3>1. GetSnapshot(r, q)
        BY <2>3 DEF Ask, q
      <3>2. PICK y :
            /\ R = [Q EXCEPT ![r] = y]
            /\ \/ /\ y = [q EXCEPT !.at = "tail", !.on = t] /\ t # Nil /\ flight' = flight /\ tail' = t
               \/ /\ y = [q EXCEPT !.at = "joined", !.on = flight] /\ t = Nil /\ flight' = flight /\ tail' = t
               \/ /\ y = [q EXCEPT !.at = "opening"] /\ t = Nil /\ flight = Nil /\ flight' = r /\ tail' = t
        BY <3>1 DEF GetSnapshot
      <3>3. Is([q EXCEPT !.at = "tail", !.on = t], "tail") /\ Is([q EXCEPT !.at = "joined", !.on = flight], "joined")
            /\ Is([q EXCEPT !.at = "opening"], "opening")
        <4> HIDE DEF Is
        <4> QED
          BY <1>y, <2>1, <2>2, <2>a
      <3>4. \/ Is(y, "tail") /\ t # Nil /\ flight' = flight /\ tail' = t
            \/ Is(y, "joined") /\ t = Nil /\ flight' = flight /\ tail' = t
            \/ Is(y, "opening") /\ t = Nil /\ flight = Nil /\ flight' = r /\ tail' = t
        <4> HIDE DEF Is
        <4> QED
          BY <3>2, <3>3
      <3> QED
        BY <2>3, <3>2, <3>4
    <2>4. CASE op = "patch"
      <3> DEFINE y == [q EXCEPT !.at = "queued", !.on = t]
      <3>1. Queue(r, q)
        BY <2>4 DEF Ask, q
      <3>2. R = [Q EXCEPT ![r] = y] /\ flight' = flight /\ tail' = r
        BY <3>1 DEF Queue
      <3>3. t \in Requests \cup {Nil} /\ "queued" \in Places
        BY <1>y, <2>a
      <3>4. Is(y, "queued") /\ y.on = t
        <4> HIDE DEF Is, t
        <4> QED
          BY <2>1, <3>3
      <3> HIDE DEF y
      <3> QED
        BY <2>4, <3>2, <3>4
    <2>5. CASE op \in {"login", "logout"}
      <3> DEFINE y == [q EXCEPT !.at = "starting"]
      <3>1. R = [Q EXCEPT ![r] = y] /\ flight' = flight /\ tail' = t
        BY <2>5 DEF Ask, q
      <3>2. Is(y, "starting")
        BY <2>2, <2>a
      <3> HIDE DEF y
      <3> QED
        BY <2>5, <3>1, <3>2
    <2>6. CASE op = "runtime"
      <3> DEFINE a == IF cached = Nil THEN "opening" ELSE "over"
                 y == [q EXCEPT !.at = a]
      <3>1. R = [Q EXCEPT ![r] = y] /\ flight' = flight /\ tail' = t
        BY <2>6 DEF Ask, q
      <3>2. a \in Places /\ a \in {"opening", "over"}
        BY <2>a
      <3> HIDE DEF a
      <3>3. Is(y, a)
        BY <2>2, <3>2
      <3> HIDE DEF y
      <3> QED
        BY <2>6, <3>1, <3>2, <3>3
    <2> QED
      BY <2>3, <2>4, <2>5, <2>6 DEF Operations
  <1> HIDE DEF q
  <1>x. PICK x \in RequestType :
          /\ R = [Q EXCEPT ![r] = x]
          /\ x.op = op /\ x.writes = writes /\ x.due = Accepted /\ x.got = Nil /\ x.rows = {}
          /\ \/ op = "snapshot" /\ x.at = "tail" /\ t # Nil /\ flight' = flight /\ tail' = t
             \/ op = "snapshot" /\ x.at = "joined" /\ t = Nil /\ flight' = flight /\ tail' = t
             \/ op = "snapshot" /\ x.at = "opening" /\ t = Nil /\ flight = Nil /\ flight' = r /\ tail' = t
             \/ op = "patch" /\ x.at = "queued" /\ x.on = t /\ flight' = flight /\ tail' = r
             \/ op \in {"login", "logout"} /\ x.at = "starting" /\ flight' = flight /\ tail' = t
             \/ op = "runtime" /\ x.at \in {"opening", "over"} /\ flight' = flight /\ tail' = t
    BY <1>0
  <1>1. TypeOK'
    <2>1. req' \in [Requests -> RequestType]
      BY <1>x, <1>y
    <2> QED
      BY <1>x, <1>y, <1>u, <2>1, TypesKept
  <1> HIDE DEF Q, R, t
  <1>r. R[r] = x /\ \A p \in Requests : p # r => R[p] = Q[p]
    BY <1>x, <1>y
  <1>n. Q[r] = Unused /\ Q[r].at = "unused" /\ Q[r].op = "snapshot" /\ Q[r].got = Nil /\ Q[r].rows = {}
    <2>1. Q[r].at = "unused"
      BY <1>f DEF Requests
    <2>2. Q[r] = Unused
      BY <1>i, <2>1 DEF Shape
    <2> QED
      BY <2>2 DEF Unused
  <1>z. /\ r \notin models /\ r \notin creds
        /\ \A p \in Requests : r \notin Q[p].due /\ r \notin Q[p].rows
        /\ \A p \in Requests : Q[p].got # Nil => r \notin Q[p].got.models /\ r \notin Q[p].got.creds
    <2>1. r \notin models /\ r \notin creds /\ \A p \in Requests : r \notin Q[p].due
      BY <1>i, <1>n DEF Files, Shape
    <2> QED
      BY <1>i, <2>1 DEF Rows, Views
  <1>c. /\ \A p \in Requests : Open(Q, p) => p < r /\ t \in Requests /\ p <= t /\ t < r /\ Open(Q, t)
        /\ t = Nil => \A p \in Requests : ~Open(Q, p) /\ ~Blocks(Q, p) /\ Q[p].at # "await" /\ Q[p].at # "queued"
    <2>1. \A p \in Requests : Open(Q, p) => p < r
      <3>1. \A p \in Requests : Open(Q, p) => Q[p].at # "unused"
        BY <1>i DEF Open, Shape, Unused
      <3> QED
        BY <1>f, <3>1 DEF Requests
    <2>2. \A p \in Requests : Open(Q, p) => t \in Requests /\ p <= t /\ Open(Q, t)
      BY <1>i, <1>y DEF InTurn
    <2>3. \A p \in Requests : Q[p].at \in {"queued", "await"} => Q[p].op = "patch"
      BY <1>i, <1>y, PlacesNext DEF Shape
    <2>4. t = Nil => \A p \in Requests : ~Open(Q, p)
      BY <2>2, <1>y
    <2>5. t = Nil => \A p \in Requests : ~Blocks(Q, p) /\ Q[p].at # "await" /\ Q[p].at # "queued"
      BY <2>3, <2>4 DEF Open, Blocks, SettledPlaces, Ended
    <2> QED
      BY <2>1, <2>2, <2>4, <2>5
  <1>a. /\ x.at \in PlacesOf(x.op) /\ x.at \notin {"unused", "done", "fresh", "reading", "credentials", "await"}
        /\ x.at \in SettledPlaces => x.op = "runtime"
        /\ x.at = "queued" <=> x.op = "patch"
    BY <1>x DEF PlacesOf, SettledPlaces, Ended
  <1>2. Shape(R)
    <2>1. ASSUME NEW p \in Requests
          PROVE  /\ R[p].at \in PlacesOf(R[p].op)
                 /\ R[p].at = "unused" => R[p] = Unused
                 /\ R[p].got # Nil => R[p].at \in {"done", "fresh", "answered"} /\ R[p].op # "runtime"
                 /\ R[p].at \in {"done", "fresh"} => R[p].got # Nil
                 /\ R[p].writes # {} => R[p].op = "patch"
      BY <1>i, <1>r, <1>a, <1>x DEF Shape
    <2>2. ASSUME NEW p \in Requests, NEW s \in R[p].due
          PROVE  R[s].op = "patch" /\ s < p
      <3>1. CASE p = r
        <4>1. s \in Requests /\ Q[s].op = "patch" /\ s < r
          BY <1>r, <1>x, <1>d, <2>2, <3>1 DEF Q
        <4> QED
          BY <1>r, <3>1, <4>1 DEF Requests
      <3>2. CASE p # r
        BY <1>i, <1>r, <1>z, <1>y, <2>2, <3>2 DEF Shape
      <3> QED
        BY <3>1, <3>2
    <2> QED
      BY <2>1, <2>2 DEF Shape
  <1>o. \A p \in Requests : Open(R, p) <=> Open(Q, p) \/ (p = r /\ op = "patch")
    <2>1. Open(R, r) <=> op = "patch"
      BY <1>r, <1>a, <1>x DEF Open
    <2>2. ~Open(Q, r)
      BY <1>n DEF Open
    <2>3. \A p \in Requests : p # r => (Open(R, p) <=> Open(Q, p))
      BY <1>r DEF Open
    <2> QED
      BY <2>1, <2>2, <2>3
  <1>3. InTurn(R, tail')
    <2>t. \A p \in Requests : p > r => Q[p].at = "unused" /\ R[p].op = "snapshot"
      <3>1. \A p \in Requests : p > r => Q[p].at = "unused" /\ p # r
        BY <1>f DEF Requests
      <3> QED
        BY <1>i, <1>r, <3>1 DEF Shape, Unused
    <2>1. ASSUME NEW p \in Requests, NEW s \in Requests, Open(R, p), R[s].op = "patch", p < s
          PROVE  R[s].at = "queued"
      <3>1. CASE s = r
        BY <1>r, <1>a, <2>1, <3>1
      <3>2. CASE s # r
        <4>1. p # r
          BY <2>t, <2>1 DEF Requests
        <4> QED
          BY <1>i, <1>o, <1>r, <2>1, <3>2, <4>1 DEF InTurn
      <3> QED
        BY <3>1, <3>2
    <2>2. ASSUME NEW s \in Requests, R[s].at = "queued"
          PROVE  /\ \A p \in Requests : Open(R, p) /\ p < s => R[s].on \in Requests /\ p <= R[s].on
                 /\ R[s].on \in Requests => R[R[s].on].op = "patch"
      <3>1. CASE s = r
        <4>1. op = "patch" /\ R[s].on = t
          BY <1>r, <1>a, <1>x, <2>2, <3>1
        <4>2. t \in Requests => t # r /\ Q[t].op = "patch" /\ t < r
          BY <1>i, <1>c, <1>y, <1>n DEF InTurn, Open
        <4>3. \A p \in Requests : Open(R, p) /\ p < s => t \in Requests /\ p <= t
          BY <1>o, <1>c, <3>1 DEF Requests
        <4> QED
          BY <1>r, <4>1, <4>2, <4>3
      <3>2. CASE s # r
        <4>1. R[s] = Q[s] /\ s < r
          BY <1>r, <1>f, <2>2, <3>2 DEF Requests
        <4>2. \A p \in Requests : Open(R, p) /\ p < s => Open(Q, p)
          BY <1>o, <4>1 DEF Requests
        <4>3. R[s].on \in Requests => R[R[s].on].op = "patch"
          BY <1>i, <1>r, <1>n, <2>2, <4>1 DEF InTurn
        <4> QED
          BY <1>i, <2>2, <4>1, <4>2, <4>3 DEF InTurn
      <3> QED
        BY <3>1, <3>2
    <2>3. CASE op = "patch"
      <3>1. tail' = r /\ Open(R, r)
        BY <1>x, <1>o, <2>3
      <3>2. \A p \in Requests : Open(R, p) => p <= r
        BY <1>o, <1>c DEF Requests
      <3> QED
        BY <2>1, <2>2, <3>1, <3>2 DEF InTurn
    <2>4. CASE op # "patch"
      <3>1. tail' = t
        BY <1>x, <2>4
      <3>2. \A p \in Requests : Open(R, p) => t \in Requests /\ p <= t
        BY <1>o, <1>c, <2>4
      <3>3. t # Nil => Open(R, t)
        BY <1>i, <1>o, <1>y DEF InTurn
      <3> QED
        BY <2>1, <2>2, <3>1, <3>2, <3>3 DEF InTurn
    <2> QED
      BY <2>3, <2>4
  <1>b. \A p \in Requests : Blocks(R, p) => Blocks(Q, p) /\ p # r
    BY <1>r, <1>a, <1>x DEF Blocks
  <1>4. Alone(R, flight')
    <2>1. CASE flight' = flight
      <3>1. ~(R[r].op \in Flown /\ R[r].at \in Building)
        <4>1. R[r].at = "opening" /\ op = "snapshot" => flight = Nil /\ flight' = r
          BY <1>r, <1>x
        <4> QED
          BY <1>r, <1>x, <1>y, <2>1, <4>1 DEF Flown, Building
      <3>2. flight # r
        BY <1>i, <1>n, <1>y DEF Alone, Building
      <3> QED
        BY <1>i, <1>r, <1>a, <1>b, <1>y, <2>1, <3>1, <3>2 DEF Alone
    <2>2. CASE flight' # flight
      <3>1. flight' = r /\ flight = Nil /\ t = Nil /\ op = "snapshot"
        BY <1>x, <2>2
      <3>2. R[r].op \in Flown /\ R[r].at \in Building
        BY <1>r, <1>x, <1>y, <2>2, <3>1 DEF Flown, Building
      <3>3. \A p \in Requests : p # r => ~(R[p].op \in Flown /\ R[p].at \in Building)
        BY <1>i, <1>r, <1>y, <3>1 DEF Alone
      <3>4. \A p \in Requests : ~Blocks(R, p) /\ R[p].at # "await"
        BY <1>r, <1>a, <1>b, <1>c, <3>1
      <3> QED
        BY <3>1, <3>2, <3>3, <3>4 DEF Alone
    <2> QED
      BY <2>1, <2>2
  <1>g. \A p \in Requests : /\ Good(R, p) <=> Good(Q, p)
                            /\ p # r => (Failed(R, p) <=> Failed(Q, p))
                            /\ R[p].got = Q[p].got
    <2>1. ~Good(Q, r) /\ ~Good(R, r) /\ R[r].got = Q[r].got
      BY <1>n, <1>r, <1>x DEF Good
    <2> QED
      BY <1>r, <2>1 DEF Good, Failed
  <1>5. Files(R, models, creds)
    <2>1. \A p \in models : R[p].op = "patch" /\ R[p].at \notin {"queued", "await"}
      BY <1>i, <1>r, <1>z, <1>y DEF Files
    <2>2. \A p \in creds : R[p].at \notin {"unused", "queued", "await", "credentials"}
      BY <1>i, <1>r, <1>z, <1>y DEF Files
    <2>3. \A p \in Requests : Blocks(R, p) \/ Good(R, p) => R[p] = Q[p] /\ (Blocks(Q, p) \/ Good(Q, p))
      BY <1>r, <1>b, <1>g, <1>n DEF Good
    <2> QED
      BY <1>i, <2>1, <2>2, <2>3 DEF Files
  <1>6. Rows(R, creds)
    BY <1>i, <1>r, <1>g, <1>x, <1>a, <1>n DEF Rows, Good
  <1>7. Views(R, models, creds)
    <2>1. ASSUME NEW p \in Requests, R[p].got # Nil
          PROVE  R[p].got.models \subseteq models /\ R[p].got.creds \subseteq creds /\ WholeView(R, R[p].got)
      <3>1. R[p].got = Q[p].got /\ Q[p].got # Nil
        BY <1>g, <2>1
      <3>2. r \notin Q[p].got.models /\ r \notin Q[p].got.creds
        BY <1>z, <3>1
      <3> QED
        BY <1>i, <1>r, <1>g, <3>1, <3>2 DEF Views, WholeView
    <2> QED
      BY <2>1 DEF Views
  <1>8. Due(R)
    <2>1. ASSUME NEW p \in Requests, R[p].op \in Flown, R[p].at \in {"joined"} \cup Building, NEW s \in R[p].due
          PROVE  R[s].at \in SettledPlaces
      <3>1. CASE p = r
        <4>1. t = Nil
          BY <1>r, <1>x, <2>1, <3>1 DEF Flown, Building
        <4>2. s \in Requests /\ Q[s].op = "patch" /\ s # r
          BY <1>r, <1>x, <1>d, <1>n, <2>1, <3>1
        <4> QED
          BY <1>c, <1>r, <4>1, <4>2 DEF Open
      <3>2. CASE p # r
        BY <1>i, <1>r, <1>z, <1>y, <2>1, <3>2 DEF Due
      <3> QED
        BY <3>1, <3>2
    <2>2. ASSUME NEW p \in Requests, R[p].got # Nil, NEW s \in R[p].due
          PROVE  R[s].at \in SettledPlaces /\ (R[s].got # Nil => Shows(R, R[p].got, s))
      <3>1. p # r
        BY <1>r, <1>x, <2>2
      <3>2. R[p] = Q[p] /\ s # r /\ s \in Requests /\ R[s] = Q[s]
        BY <1>r, <1>z, <1>y, <2>2, <3>1
      <3> QED
        BY <1>i, <2>2, <3>2 DEF Due, Shows
    <2> QED
      BY <2>1, <2>2 DEF Due
  <1>9. CacheFresh(R, cached)
    <2>1. \A p \in Requests : Good(R, p) => p # r /\ R[p] = Q[p] /\ Good(Q, p)
      BY <1>g, <1>r, <1>x DEF Good
    <2> QED
      BY <1>i, <2>1 DEF CacheFresh
  <1> QED
    BY <1>1, <1>2, <1>3, <1>4, <1>5, <1>6, <1>7, <1>8, <1>9, <1>u DEF IInv, Q, R

(* The agent is killed.                                                    *)
LEMMA KilledKeeps ==
    ASSUME IInv, Killed
    PROVE  IInv'
  <1> DEFINE Q == req
             R == req'
             y(q) == [req[q] EXCEPT !.at = "answered", !.got = Nil]
  <1>t. TypeOK
    BY DEF IInv
  <1>i. /\ Shape(Q) /\ Files(Q, models, creds) /\ Rows(Q, creds) /\ Views(Q, models, creds) /\ Due(Q)
    BY DEF IInv
  <1>y. /\ Q \in [Requests -> RequestType] /\ models \subseteq Requests /\ creds \subseteq Requests
        /\ Nil \notin Requests
        /\ \A p \in Requests : Q[p].due \subseteq Requests
        /\ \A p \in Requests : Q[p].op \in Operations /\ Q[p].at \in Places
    BY <1>t, Types
  <1>u. models' = models /\ creds' = creds /\ flight' = Nil /\ tail' = Nil /\ aborter' = Nil /\ cached' = Nil
    BY DEF Killed
  <1>R. R = [q \in Requests |-> IF Q[q].at \in {"unused"} \cup Ended THEN Q[q] ELSE y(q)]
    BY DEF Killed
  <1>Y. ASSUME NEW q \in Requests
        PROVE  /\ y(q) \in RequestType /\ y(q).op = Q[q].op /\ y(q).writes = Q[q].writes /\ y(q).due = Q[q].due
               /\ y(q).got = Nil /\ y(q).rows = Q[q].rows /\ y(q).at = "answered"
    <2> DEFINE x == Q[q]
               z == y(q)
    <2>1. x \in RequestType
      BY <1>y
    <2>2. z = [x EXCEPT !.at = "answered", !.got = Nil]
      OBVIOUS
    <2> HIDE DEF x, z
    <2>3. /\ z \in RequestType /\ z.op = x.op /\ z.writes = x.writes /\ z.due = x.due
          /\ z.got = Nil /\ z.rows = x.rows /\ z.at = "answered"
      BY <2>1, <2>2 DEF RequestType, Places, Ended
    <2> QED
      BY <2>3 DEF x, z
  <1> HIDE DEF Q, R, y
  <1>p. \A q \in Requests :
          /\ R[q].op = Q[q].op /\ R[q].writes = Q[q].writes /\ R[q].due = Q[q].due /\ R[q].rows = Q[q].rows
          /\ \/ R[q] = Q[q] /\ Q[q].at \in {"unused"} \cup Ended
             \/ R[q].at = "answered" /\ R[q].got = Nil /\ Q[q].at \notin {"unused"} \cup Ended
    BY <1>R, <1>Y
  <1>s. SameRequests(Q, R)
    BY <1>p DEF SameRequests
  <1>0. R \in [Requests -> RequestType]
    BY <1>R, <1>Y, <1>y
  <1>1. TypeOK'
    <2>1. /\ models' \subseteq Requests /\ creds' \subseteq Requests
          /\ flight' \in Requests \cup {Nil} /\ tail' \in Requests \cup {Nil} /\ aborter' \in Requests \cup {Nil}
      BY <1>u, <1>y
    <2>2. cached' \in (SUBSET Requests) \cup {Nil}
      BY <1>u, NilTyped, Zenon
    <2> QED
      BY <1>0, <2>1, <2>2, TypesKept DEF R
  <1>a. \A q \in Requests : R[q].at \in {"unused", "answered", "over"}
    BY <1>p DEF Ended
  <1>2. Shape(R)
    <2>1. \A q \in Requests :
              /\ R[q].at \in PlacesOf(R[q].op)
              /\ R[q].at = "unused" => R[q] = Unused
              /\ R[q].got # Nil => R[q].at \in {"done", "fresh", "answered"} /\ R[q].op # "runtime"
      BY <1>i, <1>p, <1>y, PlacesNext DEF Shape
    <2>2. \A q \in Requests :
              /\ R[q].writes # {} => R[q].op = "patch"
              /\ \A p \in R[q].due : R[p].op = "patch" /\ p < q
      BY <1>i, <1>p, <1>y DEF Shape
    <2> QED
      BY <1>a, <2>1, <2>2 DEF Shape
  <1>o. \A p \in Requests : ~Open(R, p) /\ ~Blocks(R, p)
    <2>1. \A p \in Requests : R[p].at = "unused" => R[p].op = "snapshot"
      BY <1>2 DEF Shape, Unused
    <2> QED
      BY <1>a, <2>1 DEF Open, Blocks, SettledPlaces, Ended
  <1>3. InTurn(R, Nil)
    BY <1>a, <1>o DEF InTurn
  <1>4. Alone(R, Nil)
    BY <1>a, <1>o DEF Alone, Building
  <1>g. \A p \in Requests : /\ Good(R, p) => Good(Q, p) /\ R[p] = Q[p]
                            /\ Failed(Q, p) => Failed(R, p)
                            /\ R[p].got \in {Q[p].got, Nil}
    BY <1>p DEF Good, Failed
  <1>5. Files(R, models, creds)
    BY <1>i, <1>a, <1>p, <1>g, <1>o, <1>y DEF Files
  <1>6. Rows(R, creds)
    BY <1>i, <1>a, <1>p DEF Rows
  <1>7. Views(R, models, creds)
    <2>1. \A p \in Requests : R[p].got # Nil => R[p].got = Q[p].got
      BY <1>g
    <2> QED
      BY <1>s, <1>i, <1>g, <2>1, ViewsHold
  <1>8. Due(R)
    <2>1. \A p \in Requests :
              /\ Q[p].op = "patch" /\ Q[p].at \in SettledPlaces => R[p].at \in SettledPlaces
              /\ ~(R[p].at \in {"joined"} \cup Building)
      BY <1>p, <1>a DEF SettledPlaces, Ended, Building
    <2> QED
      BY <1>s, <1>i, <1>y, <1>g, <2>1, DueHolds
  <1>9. CacheFresh(R, Nil)
    BY DEF CacheFresh
  <1> QED
    BY <1>1, <1>2, <1>3, <1>4, <1>5, <1>6, <1>7, <1>8, <1>9, <1>u DEF IInv, Q, R

-----------------------------------------------------------------------------
(* The agent starts with no request and empty files.                       *)
LEMMA InitHolds ==
    ASSUME Init
    PROVE  IInv
  <1>1. \A r \in Requests : req[r] = Unused
    BY DEF Init
  <1>2. /\ Unused.op = "snapshot" /\ Unused.writes = {} /\ Unused.at = "unused" /\ Unused.on = Nil
        /\ Unused.rows = {} /\ Unused.got = Nil /\ Unused.due = {} /\ Unused \in RequestType
    BY DEF Unused, RequestType, Operations, Places
  <1> HIDE DEF Unused
  <1>3. TypeOK
    <2>1. req \in [Requests -> RequestType]
      BY <1>2 DEF Init
    <2>2. /\ models \subseteq Requests /\ creds \subseteq Requests
          /\ {flight, tail, aborter} \subseteq Requests \cup {Nil} /\ cached \in (SUBSET Requests) \cup {Nil}
      <3>1. models = {} /\ creds = {} /\ flight = Nil /\ tail = Nil /\ aborter = Nil /\ cached = Nil
        BY DEF Init
      <3>2. cached \in (SUBSET Requests) \cup {Nil}
        BY <3>1, NilTyped, Zenon
      <3> QED
        BY <3>1, <3>2
    <2> QED
      BY <2>1, <2>2 DEF TypeOK, RequestType
  <1>4. Shape(req) /\ Files(req, models, creds) /\ Rows(req, creds) /\ Views(req, models, creds) /\ Due(req)
    BY <1>1, <1>2 DEF Init, Shape, PlacesOf, Files, Rows, Views, Due, Blocks, Good, Building
  <1>5. InTurn(req, tail) /\ Alone(req, flight) /\ CacheFresh(req, cached)
    BY <1>1, <1>2 DEF Init, InTurn, Alone, CacheFresh, Open, Blocks, Building
  <1> QED
    BY <1>3, <1>4, <1>5 DEF IInv

(* The block of a patch: it writes, goes on, or is refused.                *)
LEMMA BlockKeeps ==
    ASSUME IInv, NEW r \in Requests, InCourse(req, r), req[r].at # "credentials", flight = Nil, Block(r)
    PROVE  IInv'
  <1>1. CASE "models" \notin req[r].writes
    <2>1. req' = [req EXCEPT ![r].at = "credentials"] /\ UNCHANGED <<models, creds, flight, tail, aborter, cached>>
      BY <1>1 DEF Block
    <2> QED
      BY <1>1, <2>1, CourseKeeps
  <1>2. CASE /\ "models" \in req[r].writes /\ models' = models \cup {r}
             /\ req' = [req EXCEPT ![r].at = IF "creds" \in req[r].writes THEN "credentials" ELSE "opening"]
             /\ UNCHANGED <<creds, flight, tail, aborter, cached>>
    <2>1. CASE "creds" \in req[r].writes
      <3>1. req' = [req EXCEPT ![r].at = "credentials"]
        BY <1>2, <2>1
      <3> QED
        BY <1>2, <3>1, CourseKeeps
    <2>2. CASE "creds" \notin req[r].writes
      <3>1. req' = [req EXCEPT ![r].at = "opening"]
        BY <1>2, <2>2
      <3> QED
        BY <1>2, <2>2, <3>1, CourseKeeps
    <2> QED
      BY <2>1, <2>2
  <1>3. CASE Refuse(r) /\ UNCHANGED models
    BY <1>3, RefuseKeeps
  <1> QED
    BY <1>1, <1>2, <1>3 DEF Block

(* Every step preserves the invariant, one action after the other.         *)
LEMMA NextKeeps ==
    ASSUME IInv, [Next]_vars
    PROVE  IInv'
  <1>t. TypeOK /\ Shape(req) /\ InTurn(req, tail) /\ Alone(req, flight) /\ Files(req, models, creds)
        /\ CacheFresh(req, cached)
    BY DEF IInv
  <1>y. /\ req \in [Requests -> RequestType] /\ models \subseteq Requests
        /\ tail \in Requests \cup {Nil} /\ flight \in Requests \cup {Nil} /\ Nil \notin Requests
        /\ aborter \in Requests \cup {Nil} /\ cached \in (SUBSET Requests) \cup {Nil}
        /\ \A p \in Requests : req[p].op \in Operations /\ req[p].at \in Places
    BY <1>t, Types
  <1>s. \A r \in Requests : Settled(r) <=> req[r].at \in SettledPlaces
    BY DEF Settled, SettledPlaces
  <1>1. ASSUME NEW r \in Requests, NEW op \in Operations \ {"patch"}, Ask(r, op, {})
        PROVE  IInv'
    BY <1>1, AskKeeps
  <1>2. ASSUME NEW r \in Requests, NEW writes \in SUBSET {"models", "creds"} \ {{}}, Ask(r, "patch", writes)
        PROVE  IInv'
    BY <1>2, AskKeeps DEF Operations
  <1>3. ASSUME NEW r \in Requests, TailOver(r) \/ LoggedIn(r) \/ Logout(r)
        PROVE  IInv'
    <2>1. req[r].at \in {"tail", "starting", "login"} /\ GetSnapshot(r, req[r])
          /\ creds \subseteq creds' /\ creds' \subseteq creds \cup {r} /\ UNCHANGED <<models, aborter, cached>>
      BY <1>3 DEF TailOver, LoggedIn, Logout, Store
    <2>2. req[r].op \in Flown
      BY <1>t, <1>y, <2>1, PlacesNext DEF Shape
    <2> QED
      BY <2>1, <2>2, GetSnapshotKeeps
  <1>4. ASSUME NEW r \in Requests, Begin(r)
        PROVE  IInv'
    <2>1. InCourse(req, r) /\ req[r].at = "queued"
      <3>1. ASSUME NEW p \in Requests, p < r, Open(req, p) PROVE FALSE
        <4>1. req[r].at = "queued" /\ (req[r].on # Nil => Settled(req[r].on))
          BY <1>4 DEF Begin
        <4>2. req[r].on \in Requests /\ p <= req[r].on /\ req[req[r].on].op = "patch"
          BY <1>t, <3>1, <4>1 DEF InTurn
        <4>3. req[req[r].on].at \in SettledPlaces
          BY <1>s, <1>y, <4>1, <4>2
        <4>4. p # req[r].on /\ p < req[r].on
          BY <3>1, <4>2, <4>3 DEF Open, Requests
        <4>5. req[req[r].on].at = "queued"
          BY <1>t, <3>1, <4>2, <4>4 DEF InTurn
        <4> QED
          BY <4>3, <4>5 DEF SettledPlaces, Ended
      <3> QED
        BY <1>4, <3>1 DEF Begin, InCourse
    <2>2. CASE flight # Nil
      BY <1>4, <2>1, <2>2, AwaitKeeps DEF Begin
    <2>3. CASE flight = Nil
      BY <1>4, <2>1, <2>3, BlockKeeps DEF Begin
    <2> QED
      BY <2>2, <2>3
  <1>5. ASSUME NEW r \in Requests, FlightOver(r)
        PROVE  IInv'
    <2>1. req[r].at = "await" /\ flight = Nil /\ Block(r)
      BY <1>5, <1>t DEF FlightOver, Alone
    <2> QED
      BY <2>1, BlockKeeps DEF InCourse
  <1>6. ASSUME NEW r \in Requests, Credential(r)
        PROVE  IInv'
    <2>1. req[r].at = "credentials" /\ InCourse(req, r)
      BY <1>6 DEF Credential, InCourse
    <2>2. Blocks(req, r)
      BY <1>t, <2>1, Course DEF Blocks
    <2>3. flight = Nil /\ ("models" \in req[r].writes => r \in models)
      BY <1>t, <2>2 DEF Alone, Files
    <2>4. CASE /\ creds' = creds \cup {r} /\ req' = [req EXCEPT ![r].at = "opening"]
               /\ UNCHANGED <<flight, tail, aborter, cached, models>>
      BY <2>1, <2>3, <2>4, CourseKeeps
    <2>5. CASE Refuse(r) /\ UNCHANGED models
      BY <2>1, <2>5, RefuseKeeps
    <2> QED
      BY <1>6, <2>4, <2>5 DEF Credential
  <1>7. ASSUME NEW r \in Requests, OpenAuth(r)
        PROVE  IInv'
    BY <1>7, OpenAuthKeeps
  <1>8. ASSUME NEW r \in Requests, ReadModels(r)
        PROVE  IInv'
    BY <1>8, BuiltKeeps DEF ReadModels, Building
  <1>9. ASSUME NEW r \in Requests, OpenFails(r)
        PROVE  IInv'
    <2>1. CASE req[r].op # "runtime"
      BY <1>9, <2>1, BuiltKeeps DEF OpenFails, Building
    <2>2. CASE req[r].op = "runtime"
      <3>1. /\ req[r].at = "opening" /\ req' = [req EXCEPT ![r].at = "over"]
            /\ UNCHANGED <<models, creds, flight, tail, aborter, cached>>
        BY <1>9, <2>2 DEF OpenFails
      <3>2. req[r].got = Nil
        BY <1>t, <3>1 DEF Shape
      <3>3. CacheFresh(req', cached')
        <4>1. Moves(req, req', r, "over")
          BY <1>t, <3>1, Move DEF Places, Ended
        <4>2. \A p \in Requests : Good(req', p) => p # r /\ req'[p] = req[p]
          BY <2>2, <4>1 DEF Moves, Good
        <4> QED
          BY <1>t, <3>1, <4>2 DEF CacheFresh, Good
      <3>4. "over" \in PlacesOf(req[r].op)
        BY <2>2 DEF PlacesOf
      <3> QED
        BY <1>y, <2>2, <3>1, <3>2, <3>3, <3>4, CalmMove DEF Ended, Flown
    <2> QED
      BY <2>1, <2>2
  <1>10. ASSUME NEW r \in Requests, CacheRuntime(r)
         PROVE  IInv'
    <2>1. /\ req[r].at = "reading" /\ req[r].op = "runtime" /\ req' = [req EXCEPT ![r].at = "over"]
          /\ cached' = models /\ UNCHANGED <<models, creds, flight, tail, aborter>>
      BY <1>10 DEF CacheRuntime
    <2>2. req[r].got = Nil
      BY <1>t, <2>1 DEF Shape
    <2>3. CacheFresh(req', cached')
      <3>1. Moves(req, req', r, "over")
        BY <1>t, <2>1, Move DEF Places, Ended
      <3>2. \A p \in Requests : Good(req', p) => p # r /\ req'[p] = req[p] /\ Good(req, p)
        BY <2>1, <3>1 DEF Moves, Good
      <3> QED
        BY <1>t, <2>1, <3>2 DEF CacheFresh, Files
    <2>4. "over" \in PlacesOf(req[r].op)
      BY <2>1 DEF PlacesOf
    <2> QED
      BY <1>y, <2>1, <2>2, <2>3, <2>4, CalmMove DEF Ended, Flown
  <1>11. ASSUME NEW r \in Requests, ClearCache(r)
         PROVE  IInv'
    <2>1. /\ req[r].at = "done" /\ req' = [req EXCEPT ![r].at = "fresh"]
          /\ cached' = Nil /\ UNCHANGED <<models, creds, flight, tail, aborter>>
      BY <1>11 DEF ClearCache
    <2>2. req[r].got # Nil /\ "fresh" \in PlacesOf(req[r].op)
      BY <1>t, <1>y, <2>1 DEF Shape, PlacesOf, Operations
    <2>3. CacheFresh(req', cached')
      BY <2>1 DEF CacheFresh
    <2>4. cached' \in (SUBSET Requests) \cup {Nil}
      BY <2>1, NilTyped, Zenon
    <2> QED
      BY <1>y, <2>1, <2>2, <2>3, <2>4, CalmMove DEF SettledPlaces, Ended, Building
  <1>12. ASSUME NEW r \in Requests, RenewRuntime(r)
         PROVE  IInv'
    <2>1. /\ req[r].at = "fresh" /\ req' = [req EXCEPT ![r].at = "answered"]
          /\ UNCHANGED <<models, creds, flight, tail, aborter, cached>>
      BY <1>12 DEF RenewRuntime
    <2>2. "answered" \in PlacesOf(req[r].op)
      BY <1>y, PlacesNext
    <2>3. CacheFresh(req', cached')
      <3>1. Moves(req, req', r, "answered")
        BY <1>t, <2>1, Move DEF Places, Ended
      <3>2. \A p \in Requests : Good(req', p) /\ req'[p].at # "done" => Good(req, p) /\ req[p].at # "done"
        BY <2>1, <3>1 DEF Moves, Good, SettledPlaces
      <3> QED
        BY <1>t, <2>1, <3>1, <3>2, MovesSame, CacheHolds
    <2> QED
      BY <1>y, <2>1, <2>2, <2>3, CalmMove DEF SettledPlaces, Ended, Building
  <1>13. ASSUME NEW r \in Requests, NEW a \in {"login", "prompt", "answered"},
                req[r].at \in {"starting", "login", "prompt"}, req' = [req EXCEPT ![r].at = a],
                UNCHANGED <<models, creds, flight, tail, cached>>, aborter' \in Requests \cup {Nil},
                a = "login" \/ a = "prompt" => req[r].op = "login" \/ req[r].at \in {"login", "prompt"}
         PROVE  IInv'
    <2>1. req[r].op \in {"login", "logout"} /\ req[r].got = Nil /\ a \in PlacesOf(req[r].op)
      BY <1>t, <1>y, <1>13 DEF Shape, PlacesOf, Operations
    <2>2. CacheFresh(req', cached')
      <3>1. Moves(req, req', r, a)
        BY <1>t, <1>13, Move DEF Places, Ended
      <3>2. \A p \in Requests : Good(req', p) => p # r /\ req'[p] = req[p]
        BY <2>1, <3>1 DEF Moves, Good
      <3> QED
        BY <1>t, <1>13, <3>2 DEF CacheFresh, Good
    <2> QED
      BY <1>y, <1>13, <2>1, <2>2, CalmMove DEF Ended, Building
  <1>14. ASSUME NEW r \in Requests, StartLogin(r)
         PROVE  IInv'
    BY <1>14, <1>13 DEF StartLogin
  <1>15. ASSUME NEW r \in Requests, Prompt(r) \/ Entered(r)
         PROVE  IInv'
    BY <1>15, <1>13, <1>y DEF Prompt, Entered
  <1>16. ASSUME NEW r \in Requests, Fails(r)
         PROVE  IInv'
    BY <1>16, <1>13, <1>y DEF Fails
  <1>17. CASE Cancel
    BY <1>16, <1>17, <1>y DEF Cancel
  <1>18. CASE Killed
    BY <1>18, KilledKeeps
  <1>19. CASE UNCHANGED vars
    <2>1. req' = req /\ models' = models /\ creds' = creds /\ flight' = flight /\ tail' = tail
          /\ cached' = cached /\ aborter' = aborter
      BY <1>19 DEF vars
    <2>2. TypeOK'
      BY <1>t, <2>1 DEF TypeOK
    <2> QED
      BY <2>1, <2>2 DEF IInv
  <1> QED
    BY <1>1, <1>2, <1>3, <1>4, <1>5, <1>6, <1>7, <1>8, <1>9, <1>10, <1>11, <1>12, <1>14, <1>15, <1>16,
       <1>17, <1>18, <1>19 DEF Next, AgentStep

(* IInv holds at first and every step preserves it.                        *)
LEMMA Invariant == Spec => []IInv
  <1>1. Init => IInv
    BY InitHolds
  <1>2. IInv /\ [Next]_vars => IInv'
    BY NextKeeps
  <1> QED
    BY <1>1, <1>2, PTL DEF Spec

(* The variables keep their types: a request stands at one of its places,  *)
(* and what it answers is a view of the two files or an error.             *)
THEOREM TypeCorrect == Spec => []TypeOK
  <1>1. IInv => TypeOK
    BY DEF IInv
  <1> QED
    BY <1>1, Invariant, PTL

(* What getProvidersSnapshot or a mutation answers shows both files of a   *)
(* patch or neither, however many patches, snapshots, logins and kills run *)
(* beside it: the patch excludes every build but its own (Alone, InTurn).  *)
THEOREM ViewsWhole == Spec => []NoHalfPatch
  <1>1. IInv => NoHalfPatch
    <2>1. SUFFICES ASSUME IInv, NEW r \in Requests, Answered(r), NEW p \in Requests,
                          req[p].writes = {"models", "creds"}, InBlock(p) \/ p \in Succeeded
                   PROVE  p \in req[r].got.models <=> p \in req[r].got.creds
      BY DEF NoHalfPatch
    <2>2. ~Failed(req, p)
      BY <2>1 DEF InBlock, Succeeded, Failed, Ended
    <2> QED
      BY <2>1, <2>2 DEF IInv, Views, WholeView, Answered
  <1> QED
    BY <1>1, Invariant, PTL

(* What was accepted before a request reached the agent, and did not fail, *)
(* is in its answer: getProvidersSnapshot waits for the tail before it     *)
(* joins a flight or builds (Due).                                         *)
THEOREM EarlierSeen == Spec => []PatchesSeen
  <1>1. IInv => PatchesSeen
    <2>1. SUFFICES ASSUME IInv, NEW r \in Requests, Answered(r), NEW p \in req[r].due \cap Succeeded
                   PROVE  /\ "models" \in req[p].writes => p \in req[r].got.models
                          /\ "creds" \in req[p].writes => p \in req[r].got.creds
      BY DEF PatchesSeen
    <2> QED
      BY <2>1 DEF IInv, Due, Shows, Answered, Succeeded
  <1> QED
    BY <1>1, Invariant, PTL

(* The runtime main.ts caches has the models of every patch that was       *)
(* answered, because the cache is cleared between the writing of the file  *)
(* and the answer (CacheFresh).                                            *)
THEOREM CacheRenewed == Spec => []RegistryFresh
  <1>1. IInv => RegistryFresh
    <2>1. SUFFICES ASSUME IInv, cached # Nil, NEW p \in Succeeded, req[p].at \in Ended, "models" \in req[p].writes
                   PROVE  p \in cached
      BY DEF RegistryFresh
    <2>2. p \in Requests /\ Good(req, p) /\ req[p].at # "done"
      BY <2>1 DEF Succeeded, Accepted, IsPatch, Settled, Good, SettledPlaces, Ended
    <2> QED
      BY <2>1, <2>2 DEF IInv, CacheFresh
  <1> QED
    BY <1>1, Invariant, PTL
====
