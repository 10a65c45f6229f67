---------------------------- MODULE CommitMessage ----------------------------
(***************************************************************************)
(* Generating a commit message: the IDE action and its background task     *)
(* (GenerateCommitMessageAction.kt), the call with an idle timeout          *)
(* (VibeflyAgentService.kt), the one listener of progress reports           *)
(* (Agent2HostBridge.kt) and the agent's side (commitMessage.ts).           *)
(*                                                                          *)
(* A tick is one heartbeat interval.  Reports, calls and cancellations      *)
(* cross the pipe; the model provider is external: it may answer, fail or   *)
(* stay silent, and it ends its stream when the signal is aborted.          *)
(***************************************************************************)
EXTENDS CommitDiff

CONSTANTS
  Gens,       \* the generations of a run
  NoGen,
  Cases,      \* what may be ticked, logged and configured; the bounds clicks, cancels,
              \* cancelIn (in which phases of the task) and events (of a stream)
  Idle,       \* DEFAULT_COMMIT_MESSAGE_TIMEOUT_MS in ticks
  MaxAir      \* bound on progress reports on their way

ASSUME CommitAssumption ==
  /\ NoGen \notin Gens /\ Idle \in Nat \ {0, 1} /\ MaxAir \in Nat \ {0, 1}
  /\ \A c \in Cases : c.events \in Nat

VARIABLES
  case,        \* the inputs
  generating,  \* GenerateCommitMessageAction.generating, one for the whole IDE
  task,        \* the background task of a generation
  canceled,    \* its progress indicator was cancelled
  request,     \* the rows and examples it sends
  slot,        \* Agent2HostBridge.commitProgress
  prev,        \* the listener a generation found there
  quiet,       \* ticks since lastProgressAt, as its watchdog sees it
  air,         \* reportCommitMessageProgress calls on their way
  agent,       \* the agent's side of a generation
  aborted,     \* its AbortSignal
  cancelling,  \* a wire cancel is on its way
  beat,        \* a heartbeat is due
  fresh,       \* lastProgressAt of the stream is less than the throttle ago
  events,      \* stream events so far
  prompt,      \* what the model is asked
  silence,     \* ticks since the agent last reported for a generation; stays once it is Idle
  crossed      \* a later generation took the slot while this one held it

hostVars == <<generating, task, canceled, request, slot, prev, quiet, crossed>>
agentVars == <<agent, aborted, beat, fresh, events, prompt, silence>>
commitVars == <<case, hostVars, air, agentVars, cancelling>>

None == [none |-> TRUE]
Asked == {g \in Gens : agent[g] \in {"asked", "resolving", "waiting", "streaming"}}

CommitTypeOK ==
  /\ case \in Cases
  /\ generating \in BOOLEAN
  /\ task \in [Gens -> {"none", "queued", "collected", "calling", "ended", "gone"}]
  /\ canceled \in [Gens -> BOOLEAN] /\ aborted \in [Gens -> BOOLEAN]
  /\ cancelling \subseteq Gens
  /\ slot \in Gens \cup {NoGen} /\ prev \in [Gens -> Gens \cup {NoGen}]
  /\ quiet \in [Gens -> 0..Idle] /\ silence \in [Gens -> 0..Idle]
  /\ air \in 0..MaxAir
  /\ agent \in [Gens -> {"none", "asked", "resolving", "waiting", "streaming", "done", "stopped"}]
  /\ beat \in [Gens -> BOOLEAN] /\ fresh \in [Gens -> BOOLEAN] /\ crossed \in [Gens -> BOOLEAN]
  /\ events \in [Gens -> 0..case.events]

CommitInit ==
  /\ case \in Cases
  /\ generating = FALSE
  /\ task = [g \in Gens |-> "none"]
  /\ canceled = [g \in Gens |-> FALSE] /\ request = [g \in Gens |-> None]
  /\ slot = NoGen /\ prev = [g \in Gens |-> NoGen]
  /\ quiet = [g \in Gens |-> 0] /\ crossed = [g \in Gens |-> FALSE]
  /\ air = 0 /\ cancelling = {}
  /\ agent = [g \in Gens |-> "none"] /\ aborted = [g \in Gens |-> FALSE]
  /\ beat = [g \in Gens |-> FALSE] /\ fresh = [g \in Gens |-> FALSE]
  /\ events = [g \in Gens |-> 0] /\ prompt = [g \in Gens |-> None]
  /\ silence = [g \in Gens |-> 0]

-----------------------------------------------------------------------------
(* Host: the action and its task.                                          *)

\* actionPerformed.  Without a writer or a change it takes the flag back at once.
Click(g) ==
  /\ task[g] = "none" /\ g = CHOOSE h \in Gens : task[h] = "none"
  /\ Cardinality({h \in Gens : task[h] # "none"}) < case.clicks
  /\ ~generating
  /\ case.writer /\ case.changes # <<>>
  /\ generating' = TRUE
  /\ task' = [task EXCEPT ![g] = "queued"]
  /\ UNCHANGED <<case, canceled, request, slot, prev, quiet, crossed, air, agentVars, cancelling>>

\* The task's run returns or throws: its finally clause; the EDT has not finished the task yet.
Return(g) ==
  /\ task' = [task EXCEPT ![g] = "ended"]
  /\ generating' = FALSE

\* run, up to its two looks at the indicator.
Collect(g) ==
  /\ task[g] = "queued"
  /\ IF canceled[g]
     THEN Return(g) /\ UNCHANGED request
     ELSE /\ task' = [task EXCEPT ![g] = "collected"]
          /\ request' = [request EXCEPT ![g] = [files |-> Collected(case.changes),
                                                recent |-> RecentMessages(case.roots)]]
          /\ UNCHANGED generating
  /\ UNCHANGED <<case, canceled, slot, prev, quiet, crossed, air, agentVars, cancelling>>

\* ensureStarted has returned: withIdleTimeout takes the slot and the call is sent.
Call(g) ==
  /\ task[g] = "collected" /\ ~canceled[g]
  /\ task' = [task EXCEPT ![g] = "calling"]
  /\ slot' = g
  /\ prev' = [prev EXCEPT ![g] = slot]
  /\ quiet' = [quiet EXCEPT ![g] = 0]
  /\ crossed' = [h \in Gens |-> crossed[h] \/ (task[h] = "calling" /\ slot = h)]
  /\ agent' = [agent EXCEPT ![g] = "asked"]
  /\ silence' = [silence EXCEPT ![g] = 0]
  /\ UNCHANGED <<case, generating, canceled, request, air, aborted, beat, fresh, events, prompt, cancelling>>

\* The indicator was cancelled, or the agent does not start: nothing has been sent.
GiveUp(g) ==
  /\ task[g] = "collected"
  /\ Return(g)
  /\ UNCHANGED <<case, canceled, request, slot, prev, quiet, crossed, air, agentVars, cancelling>>

\* Mutation of Leave: the listener found there is put back whoever holds the slot.
LeaveBlindly(g, cancel) ==
  /\ Return(g)
  /\ slot' = prev[g]
  /\ prev' = [prev EXCEPT ![g] = NoGen]
  /\ quiet' = [quiet EXCEPT ![g] = 0]
  /\ cancelling' = cancelling \cup cancel

\* Mutation of Leave: the wire call is left running.
LeaveQuietly(g, cancel) ==
  /\ Return(g)
  /\ slot' = IF slot = g THEN prev[g] ELSE slot
  /\ prev' = [prev EXCEPT ![g] = NoGen]
  /\ quiet' = [quiet EXCEPT ![g] = 0]
  /\ UNCHANGED cancelling

\* withIdleTimeout ends: the call is answered, or its coroutine is cancelled and the wire call with it.
Leave(g, cancel) ==
  /\ Return(g)
  /\ slot' = IF slot = g THEN prev[g] ELSE slot
  /\ prev' = [prev EXCEPT ![g] = NoGen]
  /\ quiet' = [quiet EXCEPT ![g] = 0]
  /\ cancelling' = cancelling \cup cancel

\* The agent's answer arrives: a message or an error.
Answered(g) ==
  /\ task[g] = "calling" /\ agent[g] = "done"
  /\ Leave(g, {})
  /\ UNCHANGED <<case, canceled, request, crossed, air, agentVars>>

\* The watchdog of withIdleTimeout.
Watchdog(g) ==
  /\ task[g] = "calling" /\ quiet[g] >= Idle
  /\ Leave(g, {g})
  /\ UNCHANGED <<case, canceled, request, crossed, air, agentVars>>

\* awaitWithProgressCancel polls the indicator.
PollCancel(g) ==
  /\ task[g] = "calling" /\ canceled[g]
  /\ Leave(g, {g})
  /\ UNCHANGED <<case, canceled, request, crossed, air, agentVars>>

UserCancels(g) ==
  /\ task[g] \in case.cancelIn /\ ~canceled[g]
  /\ Cardinality({h \in Gens : canceled[h]}) < case.cancels
  /\ canceled' = [canceled EXCEPT ![g] = TRUE]
  /\ UNCHANGED <<case, generating, task, request, slot, prev, quiet, crossed, air, agentVars, cancelling>>

\* The EDT finishes the task: onCancel resets the flag, whoever has it by now.
Finish(g) ==
  /\ task[g] = "ended"
  /\ task' = [task EXCEPT ![g] = "gone"]
  /\ generating' = (generating /\ ~canceled[g])
  /\ UNCHANGED <<case, canceled, request, slot, prev, quiet, crossed, air, agentVars, cancelling>>

\* reportCommitMessageProgress: the listener in the slot, not the one the report is about.
Deliver ==
  /\ air > 0
  /\ air' = air - 1
  /\ quiet' = [g \in Gens |-> IF g = slot THEN 0 ELSE quiet[g]]
  /\ UNCHANGED <<case, generating, task, canceled, request, slot, prev, crossed, agentVars, cancelling>>

-----------------------------------------------------------------------------
(* Agent: generateCommitMessage.                                           *)

\* report, n times in one go.
Report(g, n) ==
  /\ air + n <= MaxAir
  /\ air' = air + n
  /\ silence' = [silence EXCEPT ![g] = IF @ < Idle THEN 0 ELSE @]

\* The call is answered, unless its signal is aborted; its stream and timer are gone.
Ends(g) ==
  /\ agent' = [agent EXCEPT ![g] = IF aborted[g] THEN "stopped" ELSE "done"]
  /\ beat' = [beat EXCEPT ![g] = FALSE]
  /\ fresh' = [fresh EXCEPT ![g] = FALSE]
  /\ events' = [events EXCEPT ![g] = 0]
  /\ prompt' = [prompt EXCEPT ![g] = None]
  /\ UNCHANGED <<case, hostVars, air, aborted, silence, cancelling>>

Resolving(g) ==
  /\ agent[g] = "asked"
  /\ agent' = [agent EXCEPT ![g] = "resolving"]
  /\ Report(g, 1)
  /\ UNCHANGED <<case, hostVars, aborted, beat, fresh, events, prompt, cancelling>>

\* resolveCommitModel throws, or the signal is seen aborted behind it.
ResolveFails(g) == agent[g] = "resolving" /\ Ends(g)

\* The prompt is built and the model called; the heartbeat starts.
CallModel(g) ==
  /\ agent[g] = "resolving" /\ ~aborted[g]
  /\ agent' = [agent EXCEPT ![g] = "waiting"]
  /\ prompt' = [prompt EXCEPT ![g] = Prompt(request[g].files, request[g].recent, case.budget)]
  /\ Report(g, 2)
  /\ UNCHANGED <<case, hostVars, aborted, beat, fresh, events, cancelling>>

Heartbeat(g) ==
  /\ agent[g] = "waiting" /\ beat[g]
  /\ beat' = [beat EXCEPT ![g] = FALSE]
  /\ Report(g, 1)
  /\ UNCHANGED <<case, hostVars, agent, aborted, fresh, events, prompt, cancelling>>

\* An event of the stream; it stops the heartbeat and is reported unless throttled.
StreamEvent(g) ==
  /\ agent[g] \in {"waiting", "streaming"} /\ ~aborted[g]
  /\ events[g] < case.events
  /\ events' = [events EXCEPT ![g] = @ + 1]
  /\ agent' = [agent EXCEPT ![g] = "streaming"]
  /\ beat' = [beat EXCEPT ![g] = FALSE]
  /\ \/ fresh[g] /\ UNCHANGED <<air, fresh, silence>>
     \/ Report(g, 1) /\ fresh' = [fresh EXCEPT ![g] = TRUE]
  /\ UNCHANGED <<case, hostVars, aborted, prompt, cancelling>>

\* The stream ends with a message, without one, with an error, or because of the signal.
StreamEnds(g) == agent[g] \in {"waiting", "streaming"} /\ Ends(g)

\* The wire cancel aborts the signal.
Abort(g) ==
  /\ g \in cancelling
  /\ cancelling' = cancelling \ {g}
  /\ aborted' = [aborted EXCEPT ![g] = TRUE]
  /\ UNCHANGED <<case, hostVars, air, agent, beat, fresh, events, prompt, silence>>

\* A tick passes once what was due in the last one is done.
Tick ==
  /\ air = 0 /\ cancelling = {}
  /\ \A g \in Gens : ~beat[g] /\ (task[g] = "calling" => quiet[g] < Idle)
  /\ \E g \in Gens : task[g] = "calling" \/ g \in Asked
  /\ quiet' = [g \in Gens |-> IF task[g] = "calling" THEN quiet[g] + 1 ELSE 0]
  /\ silence' = [g \in Gens |-> IF task[g] = "calling" THEN Least(Idle, silence[g] + 1) ELSE 0]
  /\ beat' = [g \in Gens |-> agent[g] = "waiting"]
  /\ fresh' = [g \in Gens |-> FALSE]
  /\ UNCHANGED <<case, generating, task, canceled, request, slot, prev, crossed, air, agent, aborted, events, prompt, cancelling>>

HostNext == \E g \in Gens :
  Click(g) \/ Collect(g) \/ Call(g) \/ GiveUp(g) \/ Answered(g) \/ Watchdog(g) \/ PollCancel(g) \/ UserCancels(g) \/ Finish(g)
AgentNext == \E g \in Gens :
  Resolving(g) \/ ResolveFails(g) \/ CallModel(g) \/ Heartbeat(g) \/ StreamEvent(g) \/ StreamEnds(g) \/ Abort(g)

CommitNext == HostNext \/ AgentNext \/ Deliver \/ Tick

\* The clock runs, timers and polls fire, messages arrive, the registry answers
\* a cancelled call some day and an aborted stream ends; a model need not answer.
CommitFairness ==
  /\ WF_commitVars(Deliver) /\ WF_commitVars(Tick)
  /\ \A g \in Gens : /\ WF_commitVars(Answered(g)) /\ WF_commitVars(Watchdog(g)) /\ WF_commitVars(PollCancel(g))
                     /\ WF_commitVars(Finish(g)) /\ WF_commitVars(Resolving(g)) /\ WF_commitVars(Heartbeat(g)) /\ WF_commitVars(Abort(g))
                     /\ WF_commitVars(aborted[g] /\ (ResolveFails(g) \/ StreamEnds(g)))

CommitSpec == CommitInit /\ [][CommitNext]_commitVars /\ CommitFairness

-----------------------------------------------------------------------------
(* Properties.                                                             *)

\* Applying a hunk to the text left by those before it: its old lines must be
\* there, and its new side must start where the header says.
Patched(before, done, h) ==
  LET old == SelectSeq(Tail(h), LAMBDA l : l[1] # "+")
      new == SelectSeq(Tail(h), LAMBDA l : l[1] # "-")
      from == Most(1, Head(h)[2])
      upTo == SubSeq(before, done.at, from - 1)
      text(lines) == [i \in DOMAIN lines |-> lines[i][2]]
  IN [at |-> from + Len(old),
      text |-> done.text \o upTo \o text(new),
      right |-> /\ done.right /\ done.at <= from
                /\ Head(h)[3] = Len(old) /\ Head(h)[5] = Len(new)
                /\ text(old) = SubSeq(before, from, from + Len(old) - 1)
                /\ new # <<>> => Head(h)[4] = Len(done.text) + Len(upTo) + 1]

Applies(c, hunks) ==
  LET start == [at |-> 1, text |-> <<>>, right |-> TRUE]
      end == FoldLeft(LAMBDA done, h : Patched(c.before, done, h), start, hunks)
  IN end.right /\ end.text \o SubSeq(c.before, end.at, Len(c.before)) = c.after

\* The hunks a request carries are a patch of the file: in order, disjoint,
\* with true headers, and they turn the old text into the new one
\* (CommitDiffCollector groupChanges and buildOneHunk).
HunksApply ==
  \A g \in Gens : request[g] # None =>
    \A row \in Range(request[g].files) :
      row.hunks # <<>> => Applies(case.changes[row.path], row.hunks)

\* The prompt tells the truth about the changes: every ticked change is in one
\* row of the request, and each row is a block, in a summary or counted as
\* skipped, those without hunks first (so the number of skipped "files" falls
\* short of the changes only by what a collapsed row stands for); the hunks fit
\* the budget; a block that says "full" carries all the hunks and one that lost
\* some says so; the examples are the newest distinct messages of what is read,
\* newest first, and as many as there are up to the limits (buildUserPrompt and
\* what it calls, RecentCommitCollector).
PromptTrue ==
  \A g \in Gens : prompt[g] # None =>
    LET files == request[g].files
        rows == prompt[g].expanded \o prompt[g].summaries
        sent(row) == CHOOSE r \in Range(files) : r.path = row.path
        left == {r \in Range(files) : \A row \in Range(rows) : row.path # r.path}
        examples == prompt[g].examples
        read == UNION {Range(SubSeq(log, 1, Least(MaxRecent, Len(log)))) : log \in Range(case.roots)}
        told == {c \in read : ~c.merge}
        last(m) == CHOOSE t \in {c.time : c \in {d \in told : d.message = m}} :
                     \A c \in told : c.message = m => c.time <= t
        messages == {c.message : c \in told}
    IN /\ Total([i \in DOMAIN files |-> files[i].stands]) = Len(case.changes)
       /\ Len(rows) + prompt[g].skipped = Len(files) /\ Cardinality(left) = prompt[g].skipped
       /\ \A r \in left, shown \in Range(prompt[g].expanded) :
            r.hunks # <<>> => sent(shown).hunks # <<>>
       /\ Total([i \in DOMAIN rows |-> Size(rows[i].hunks)]) <= case.budget
       /\ \A row \in Range(rows) :
            /\ PatchStatus(row) = "full" => row.hunks = sent(row).hunks
            /\ row.hunks # sent(row).hunks => PatchStatus(row) \in {"partial", "omitted"}
       /\ Len(examples) = Least(Least(MaxRecent, MaxExamples), Cardinality(messages))
       /\ Range(examples) \subseteq messages
       /\ \A i, k \in DOMAIN examples : i < k => last(examples[i]) > last(examples[k])
       /\ \A m \in messages \ Range(examples), shown \in Range(examples) : last(m) < last(shown)

\* Only silence is timed out: the agent has not reported for the whole idle time,
\* unless a generation that began later has taken its listener's place.
TimedOutIfSilent ==
  [][\A g \in Gens : Watchdog(g) => silence[g] >= Idle \/ crossed[g]]_commitVars

\* "Only a quiet gap of timeoutMs fails - ongoing generation is not cut off"
\* (VibeflyAgentService.kt:88).
NotCutOff == [][\A g \in Gens : Watchdog(g) => silence[g] >= Idle]_commitVars

\* A generation the host has given up, by the user's cancel or by the timeout,
\* stops at the agent too: no model call is left running for nobody.
AgentStops ==
  \A g \in Gens : (task[g] = "ended" /\ g \in Asked) ~> g \notin Asked
=============================================================================
