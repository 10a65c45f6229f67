--------------------------- MODULE ProviderConfig ---------------------------
(***************************************************************************)
(* The providers' configuration as the agent keeps it: models.yml and the  *)
(* credentials of agent.db (providerConfig.ts), login and logout           *)
(* (providerLogin.ts), the cached OMP runtime (ompRuntime.ts) and the      *)
(* handlers of main.ts that call them.                                     *)
(*                                                                         *)
(* The agent has one thread; a handler is cut at its awaits.  Patches run  *)
(* one after the other on providersMutationTails; a snapshot waits for the *)
(* patches asked for before it, or joins the flight under way.  Login and  *)
(* logout write agent.db beside both.  Opening AuthStorage is an await     *)
(* that ends with its rows loaded; models.yml is read later, in one go     *)
(* with what is built from it.                                             *)
(*                                                                         *)
(* The two files are the sets of the requests whose changes are in them.   *)
(* Requests are numbered in the order in which they reach the agent, which *)
(* may be killed and started again between any two steps.                  *)
(***************************************************************************)
EXTENDS Naturals

CONSTANTS
  MaxRequests,  \* bound: the requests of one behaviour
  Nil           \* no request, no view

ASSUME ConfigAssumption == MaxRequests \in Nat \ {0} /\ Nil \notin Nat

Requests == 1 .. MaxRequests

VARIABLES
  models,   \* models.yml
  creds,    \* agent.db
  req,      \* the requests
  flight,   \* providersSnapshotFlights: the request that builds, or Nil
  tail,     \* providersMutationTails: the last patch, or Nil
  aborter,  \* activeLoginAbort: the login it belongs to, or Nil
  cached    \* ompRuntime's cached runtime: what its registry read, or Nil

vars == <<models, creds, req, flight, tail, aborter, cached>>

Operations == {"snapshot", "patch", "login", "logout", "runtime"}
View == [models: SUBSET Requests, creds: SUBSET Requests]

(* writes  the files a patch changes                                       *)
(* at      where the request stands                                        *)
(* on      the request whose promise it waits for                          *)
(* rows    what its AuthStorage loaded                                     *)
(* got     what it answers: a view of the files, or Nil for an error       *)
(* due     (history) the patches accepted before it                        *)
Unused == [op |-> "snapshot", writes |-> {}, at |-> "unused", on |-> Nil,
           rows |-> {}, got |-> Nil, due |-> {}]

Ended == {"answered", "over"}
Places == {"unused", "tail", "joined", "opening", "reading", "queued", "await",
           "credentials", "done", "fresh", "starting", "login", "prompt"} \cup Ended

TypeOK ==
  /\ models \subseteq Requests /\ creds \subseteq Requests
  /\ req \in [Requests -> [op: Operations, writes: SUBSET {"models", "creds"},
                           at: Places, on: Requests \cup {Nil}, rows: SUBSET Requests,
                           got: View \cup {Nil}, due: SUBSET Requests]]
  /\ {flight, tail, aborter} \subseteq Requests \cup {Nil}
  /\ cached \in (SUBSET Requests) \cup {Nil}

IsPatch(r) == req[r].op = "patch"
(* The operation queueProvidersMutation made of a patch has settled.       *)
Settled(r) == req[r].at \in {"done", "fresh"} \cup Ended
(* Its block runs.                                                         *)
InBlock(r) == IsPatch(r) /\ req[r].at \in {"credentials", "opening", "reading"}
Accepted == {r \in Requests : IsPatch(r) /\ req[r].at # "unused"}
Succeeded == {r \in Accepted : Settled(r) /\ req[r].got # Nil}

(* getProvidersSnapshot for request r, otherwise q: wait for the tail, or  *)
(* join the flight, or build.  A mutation: the flight comes first.         *)
GetSnapshotJoining(r, q) ==
  /\ req' = [req EXCEPT ![r] =
       IF flight # Nil THEN [q EXCEPT !.at = "joined", !.on = flight]
       ELSE IF tail # Nil THEN [q EXCEPT !.at = "tail", !.on = tail]
       ELSE [q EXCEPT !.at = "opening"]]
  /\ flight' = IF tail = Nil /\ flight = Nil THEN r ELSE flight
  /\ UNCHANGED tail
GetSnapshot(r, q) ==
  /\ req' = [req EXCEPT ![r] =
       IF tail # Nil THEN [q EXCEPT !.at = "tail", !.on = tail]
       ELSE IF flight # Nil THEN [q EXCEPT !.at = "joined", !.on = flight]
       ELSE [q EXCEPT !.at = "opening"]]
  /\ flight' = IF tail = Nil /\ flight = Nil THEN r ELSE flight
  /\ UNCHANGED tail

(* queueProvidersMutation: after the previous operation, and the new tail. *)
Queue(r, q) ==
  /\ req' = [req EXCEPT ![r] = [q EXCEPT !.at = "queued", !.on = tail]]
  /\ tail' = r
  /\ UNCHANGED flight

(* The handlers of main.ts up to their first await.  A runtime is asked    *)
(* for by a chat session or a commit message (getOmpRuntime); what is      *)
(* cached answers at once.                                                 *)
Ask(r, op, writes) ==
  LET q == [Unused EXCEPT !.op = op, !.writes = writes, !.due = Accepted] IN
  /\ \A s \in Requests : req[s].at = "unused" <=> s >= r
  /\ CASE op = "snapshot" -> GetSnapshot(r, q)
       [] op = "patch" -> Queue(r, q)
       [] op \in {"login", "logout"} ->
            req' = [req EXCEPT ![r] = [q EXCEPT !.at = "starting"]] /\ UNCHANGED <<flight, tail>>
       [] op = "runtime" ->
            /\ req' = [req EXCEPT ![r] = [q EXCEPT !.at = IF cached = Nil THEN "opening" ELSE "over"]]
            /\ UNCHANGED <<flight, tail>>
  /\ UNCHANGED <<models, creds, aborter, cached>>

(* The tail a snapshot waited for has settled: ask again.                  *)
TailOver(r) ==
  /\ req[r].at = "tail" /\ Settled(req[r].on)
  /\ GetSnapshot(r, req[r])
  /\ UNCHANGED <<models, creds, aborter, cached>>

(* The operation settles, and leaves the map if it is still the last one.  *)
(* A mutation: it always leaves the map.                                   *)
SettleAll(r) == tail' = Nil
Settle(r) == tail' = IF tail = r THEN Nil ELSE tail

Refuse(r) ==
  /\ req' = [req EXCEPT ![r].at = "answered"]
  /\ Settle(r)
  /\ UNCHANGED <<creds, flight, aborter, cached>>

(* The block of a patch up to its first await: models.yml is read, edited  *)
(* and written.  A patch the form cannot rule out is refused before.       *)
Block(r) ==
  IF "models" \notin req[r].writes
  THEN /\ req' = [req EXCEPT ![r].at = "credentials"]
       /\ UNCHANGED <<models, creds, flight, tail, aborter, cached>>
  ELSE \/ /\ models' = models \cup {r}
          /\ req' = [req EXCEPT ![r].at = IF "creds" \in req[r].writes
                                          THEN "credentials" ELSE "opening"]
          /\ UNCHANGED <<creds, flight, tail, aborter, cached>>
       \/ Refuse(r) /\ UNCHANGED models

(* previous.then: a patch begins when the one before it has settled, and   *)
(* lets the snapshot under way finish first.                               *)
Begin(r) ==
  /\ req[r].at = "queued"
  /\ req[r].on # Nil => Settled(req[r].on)
  /\ IF flight # Nil
     THEN /\ req' = [req EXCEPT ![r].at = "await", ![r].on = flight]
          /\ UNCHANGED <<models, creds, flight, tail, aborter, cached>>
     ELSE Block(r)

FlightOver(r) ==
  /\ req[r].at = "await" /\ flight # req[r].on
  /\ Block(r)

(* applyCredentialAction; when it throws, models.yml stays written.  A     *)
(* mutation: the answer's snapshot is asked for instead of built.          *)
CredentialAsking(r) ==
  /\ req[r].at = "credentials"
  /\ creds' = creds \cup {r}
  /\ GetSnapshot(r, req[r])
  /\ UNCHANGED <<models, aborter, cached>>
Credential(r) ==
  /\ req[r].at = "credentials"
  /\ \/ /\ creds' = creds \cup {r}
        /\ req' = [req EXCEPT ![r].at = "opening"]
        /\ UNCHANGED <<flight, tail, aborter, cached>>
     \/ Refuse(r)
  /\ UNCHANGED models

(* buildProvidersSnapshot and getOmpRuntime: openAuthStorage is done.      *)
OpenAuth(r) ==
  /\ req[r].at = "opening"
  /\ req' = [req EXCEPT ![r].at = "reading", ![r].rows = creds]
  /\ UNCHANGED <<models, creds, flight, tail, aborter, cached>>

(* The requests that share the promise r settles.                          *)
Sharing(r) == {r} \cup {q \in Requests : req[q].at = "joined" /\ req[q].on = r}

(* r's build is over: a snapshot answers, the others go on to renew the    *)
(* runtime, and an error (Nil) answers whoever shares it.                  *)
Built(r, view) ==
  /\ req' = [q \in Requests |->
       IF q \notin Sharing(r) THEN req[q]
       ELSE [req[q] EXCEPT !.at = IF view = Nil \/ req[q].op = "snapshot"
                                  THEN "answered" ELSE "done",
                           !.got = view, !.on = Nil, !.rows = {}]]
  /\ IF IsPatch(r) THEN Settle(r) ELSE UNCHANGED tail
  /\ flight' = IF flight = r THEN Nil ELSE flight
  /\ aborter' = IF aborter \in Sharing(r) THEN Nil ELSE aborter
  /\ UNCHANGED <<models, creds>>

ReadModels(r) ==
  /\ req[r].at = "reading" /\ req[r].op # "runtime"
  /\ Built(r, [models |-> models, creds |-> req[r].rows])
  /\ UNCHANGED cached

OpenFails(r) ==
  /\ req[r].at = "opening"
  /\ IF req[r].op = "runtime"
     THEN req' = [req EXCEPT ![r].at = "over"] /\ UNCHANGED <<models, creds, flight, tail, aborter>>
     ELSE Built(r, Nil)
  /\ UNCHANGED cached

(* The ModelRegistry is made from the models of this moment and cached.    *)
CacheRuntime(r) ==
  /\ req[r].at = "reading" /\ req[r].op = "runtime"
  /\ cached' = models
  /\ req' = [req EXCEPT ![r].at = "over"]
  /\ UNCHANGED <<models, creds, flight, tail, aborter>>

(* main.ts, after a patch, a login or a logout that succeeded: the cache   *)
(* is cleared, and getOmpRuntime makes a runtime that is not cached.  A    *)
(* mutation: the cache is left alone.                                      *)
KeepCache(r) ==
  /\ req[r].at = "done"
  /\ req' = [req EXCEPT ![r].at = "fresh"]
  /\ UNCHANGED <<models, creds, flight, tail, aborter, cached>>
ClearCache(r) ==
  /\ req[r].at = "done"
  /\ cached' = Nil
  /\ req' = [req EXCEPT ![r].at = "fresh"]
  /\ UNCHANGED <<models, creds, flight, tail, aborter>>
RenewRuntime(r) ==
  /\ req[r].at = "fresh"
  /\ req' = [req EXCEPT ![r].at = "answered"]
  /\ UNCHANGED <<models, creds, flight, tail, aborter, cached>>

(* loginProvider has opened its storage and takes activeLoginAbort.        *)
StartLogin(r) ==
  /\ req[r].at = "starting" /\ req[r].op = "login"
  /\ aborter' = r
  /\ req' = [req EXCEPT ![r].at = "login"]
  /\ UNCHANGED <<models, creds, flight, tail, cached>>

(* The login stores its token, the logout removes what is stored; both     *)
(* then ask for a snapshot.                                                *)
Store(r) ==
  /\ creds' = creds \cup {r}
  /\ GetSnapshot(r, req[r])
  /\ UNCHANGED <<models, aborter, cached>>
LoggedIn(r) == req[r].at = "login" /\ Store(r)
Logout(r) == req[r].at = "starting" /\ req[r].op = "logout" /\ Store(r)

(* auth.login asks for a code; the user enters it, or cancels.             *)
Prompt(r) ==
  /\ req[r].at = "login"
  /\ req' = [req EXCEPT ![r].at = "prompt"]
  /\ UNCHANGED <<models, creds, flight, tail, aborter, cached>>
Entered(r) ==
  /\ req[r].at = "prompt"
  /\ req' = [req EXCEPT ![r].at = "login"]
  /\ UNCHANGED <<models, creds, flight, tail, aborter, cached>>

(* The login or logout fails, and takes its abort with it.                *)
Fails(r) ==
  /\ req[r].at \in {"starting", "login", "prompt"}
  /\ req' = [req EXCEPT ![r].at = "answered"]
  /\ aborter' = IF aborter = r THEN Nil ELSE aborter
  /\ UNCHANGED <<models, creds, flight, tail, cached>>
(* cancelActiveLogin aborts the last login that was started.               *)
Cancel == aborter # Nil /\ Fails(aborter)

(* The agent is killed: its memory is gone, and its requests fail.         *)
Killed ==
  /\ flight' = Nil /\ tail' = Nil /\ aborter' = Nil /\ cached' = Nil
  /\ req' = [r \in Requests |->
       IF req[r].at \in {"unused"} \cup Ended THEN req[r]
       ELSE [req[r] EXCEPT !.at = "answered", !.got = Nil]]
  /\ UNCHANGED <<models, creds>>

(* What the agent does by itself.                                          *)
AgentStep(r) ==
  \/ TailOver(r) \/ Begin(r) \/ FlightOver(r) \/ Credential(r)
  \/ OpenAuth(r) \/ ReadModels(r) \/ CacheRuntime(r) \/ ClearCache(r)
  \/ RenewRuntime(r) \/ StartLogin(r) \/ Logout(r)

Init ==
  /\ models = {} /\ creds = {}
  /\ req = [r \in Requests |-> Unused]
  /\ flight = Nil /\ tail = Nil /\ aborter = Nil /\ cached = Nil

Next ==
  \/ \E r \in Requests :
       \/ \E op \in Operations \ {"patch"} : Ask(r, op, {})
       \/ \E writes \in SUBSET {"models", "creds"} \ {{}} : Ask(r, "patch", writes)
       \/ AgentStep(r) \/ OpenFails(r)
       \/ LoggedIn(r) \/ Prompt(r) \/ Entered(r) \/ Fails(r)
  \/ Cancel \/ Killed

Fairness == \A r \in Requests : WF_vars(AgentStep(r))

Spec == Init /\ [][Next]_vars
FairSpec == Spec /\ Fairness
-----------------------------------------------------------------------------
Answered(r) == req[r].at \in Ended /\ req[r].got # Nil

(* What an answer shows of a patch is all of it or nothing, whatever       *)
(* snapshots, logins and other patches run beside it; only a patch that    *)
(* failed, or whose agent was killed, may stay half done.                  *)
NoHalfPatch ==
  \A r \in Requests : Answered(r) =>
    \A p \in Requests : req[p].writes = {"models", "creds"} /\ (InBlock(p) \/ p \in Succeeded)
      => (p \in req[r].got.models <=> p \in req[r].got.creds)

(* An answer shows every patch that was accepted before it was asked for   *)
(* and did not fail: no snapshot already under way is served instead.      *)
PatchesSeen ==
  \A r \in Requests : Answered(r) =>
    \A p \in req[r].due \cap Succeeded :
      /\ "models" \in req[p].writes => p \in req[r].got.models
      /\ "creds" \in req[p].writes => p \in req[r].got.creds

(* The registry chats and commit messages are given knows the models of    *)
(* every patch that was answered, also when the runtime was being made     *)
(* while the patch ran.                                                    *)
RegistryFresh ==
  cached # Nil => \A p \in Succeeded :
    req[p].at \in Ended /\ "models" \in req[p].writes => p \in cached

(* Every request but a login, which waits for the user, is answered: no    *)
(* patch, snapshot or logout waits for one that waits for it.              *)
RequestsAnswered ==
  \A r \in Requests :
    (req[r].at # "unused" /\ req[r].op # "login") ~> (req[r].at \in Ended)
=============================================================================
