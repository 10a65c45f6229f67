----------------------------- MODULE CommitDiff -----------------------------
(***************************************************************************)
(* What a commit message is generated from: the changes the user has       *)
(* ticked become rows with unified hunks (CommitDiffCollector.kt), recent  *)
(* commits become examples (RecentCommitCollector.kt), and the agent fits  *)
(* the hunks into the model's context (commitMessage.ts).                  *)
(*                                                                         *)
(* A hunk is a sequence of lines: <<"@", ...>> its header, then <<" ", l>>, *)
(* <<"-", l>> or <<"+", l>>.  A line counts as one character: budgets are   *)
(* in lines.  A row stands for one change, or for all that are collapsed   *)
(* in it.                                                                  *)
(* Line numbers in a change are 0-based with an exclusive end, as in the   *)
(* platform's comparison, which is given with the change.                  *)
(***************************************************************************)
EXTENDS Integers, SequencesExt

CONSTANTS
  Context,     \* HUNK_CONTEXT_LINES
  MarkerSize,  \* the size of TRUNCATION_MARKER
  MaxBlocks,   \* MAX_PROMPT_FILE_BLOCKS
  MaxRecent,   \* DEFAULT_LIMIT of RecentCommitCollector
  MaxExamples  \* MAX_RECENT_MESSAGES

ASSUME DiffAssumption ==
  /\ Context \in Nat \ {0}
  /\ MarkerSize \in Nat \ {0} /\ MaxBlocks \in Nat /\ MaxRecent \in Nat /\ MaxExamples \in Nat

Least(a, b) == IF a < b THEN a ELSE b
Most(a, b) == IF a < b THEN b ELSE a
Total(sizes) == FoldSeq(LAMBDA a, b : a + b, 0, sizes)

-----------------------------------------------------------------------------
(* Host: unified hunks of one text file.                                   *)

Marked(sign, lines) == [i \in DOMAIN lines |-> <<sign, lines[i]>>]

\* groupChanges: changes whose gap is within twice the context share a hunk.
GroupWithin(edits, gap) ==
  LET add(groups, c) ==
        IF groups # <<>> /\ c.start1 - Last(Last(groups)).end1 <= gap
        THEN Append(Front(groups), Append(Last(groups), c))
        ELSE Append(groups, <<c>>)
  IN FoldLeft(add, <<>>, edits)

\* Mutation of GroupChanges: the context of one side only.
GroupClose(edits) == GroupWithin(edits, Context)

GroupChanges(edits) == GroupWithin(edits, 2 * Context)

\* buildOneHunk: common lines up to a change, its old lines, its new lines, ...
Walk(before, after, state, c) ==
  LET common == Least(c.start1 - state.i1, c.start2 - state.i2)
      i1 == state.i1 + common
      i2 == state.i2 + common
  IN [i1 |-> c.end1, i2 |-> c.end2,
      lines |-> state.lines \o Marked(" ", SubSeq(before, state.i1 + 1, i1))
                  \o Marked("-", SubSeq(before, i1 + 1, c.end1))
                  \o Marked("+", SubSeq(after, i2 + 1, c.end2))]

\* ... and the context behind the last one.
BuildOneHunk(before, after, group) ==
  LET start1 == Most(0, Head(group).start1 - Context)
      start2 == Most(0, Head(group).start2 - (Head(group).start1 - start1))
      end1 == Least(Len(before), Last(group).end1 + Context)
      end2 == Least(Len(after), Last(group).end2 + (end1 - Last(group).end1))
      walked == FoldLeft(LAMBDA s, c : Walk(before, after, s, c),
                         [i1 |-> start1, i2 |-> start2, lines |-> <<>>], group)
      common == Least(end1 - walked.i1, end2 - walked.i2)
      lines == walked.lines \o Marked(" ", SubSeq(before, walked.i1 + 1, walked.i1 + common))
      oldCount == Len(SelectSeq(lines, LAMBDA l : l[1] # "+"))
      newCount == Len(SelectSeq(lines, LAMBDA l : l[1] # "-"))
  IN <<<<"@", IF oldCount = 0 THEN 0 ELSE start1 + 1, oldCount,
              IF newCount = 0 THEN 0 ELSE start2 + 1, newCount>>>> \o lines

BuildHunks(before, after, edits) ==
  LET groups == GroupChanges(edits)
  IN [i \in DOMAIN groups |-> BuildOneHunk(before, after, groups[i])]

-----------------------------------------------------------------------------
(* Host: the rows of a request.                                            *)

Row(path, reason, hunks) ==
  [path |-> path, stands |-> 1, reason |-> reason, hunks |-> hunks, truncated |-> FALSE]

\* prepareFile: what kind of file it is decides before anything is read.
PrepareFile(path, c) ==
  CASE c.kind # "text" -> Row(path, c.kind, <<>>)
    [] c.kind = "text" /\ c.edits = <<>> -> Row(path, "empty", <<>>)
    [] OTHER -> Row(path, "none", BuildHunks(c.before, c.after, c.edits))

OfReason(rows, reason) == SelectSeq(rows, LAMBDA r : r.reason = reason)

\* collapseOmittedGroups: two or more rows of a kind become one, where the first was.
Collapse(rows, reason) ==
  LET many == Len(OfReason(rows, reason))
      place == SelectInSeq(rows, LAMBDA r : r.reason = reason)
      one == [rows[place] EXCEPT !.stands = many]
  IN IF many < 2
     THEN rows
     ELSE SubSeq(rows, 1, place - 1) \o <<one>>
            \o SelectSeq(SubSeq(rows, place + 1, Len(rows)), LAMBDA r : r.reason # reason)

Collected(changes) ==
  Collapse(Collapse([i \in DOMAIN changes |-> PrepareFile(i, changes[i])], "lockfile"), "sensitive")

\* toCandidates of one root: its commits, merges left out.
ToCandidates(commits) ==
  LET told == SelectSeq(commits, LAMBDA c : ~c.merge)
  IN SubSeq(told, 1, Least(MaxRecent, Len(told)))

\* The first of each message.
Distinct(messages) ==
  FoldLeft(LAMBDA seen, m : IF Contains(seen, m) THEN seen ELSE Append(seen, m), <<>>, messages)

\* rankCandidates: newest first, whatever root they come from.
RankCandidates(candidates) ==
  LET sorted == SortSeq(candidates, LAMBDA a, b : a.time > b.time)
      distinct == Distinct([i \in DOMAIN sorted |-> sorted[i].message])
  IN SubSeq(distinct, 1, Least(MaxRecent, Len(distinct)))

\* collect: a root's log is read as far as the limit, merges and repeated
\* messages included, so what is left of it may be less than the limit.
RecentMessages(roots) ==
  RankCandidates(FlattenSeq([r \in DOMAIN roots |->
    ToCandidates(SubSeq(roots[r], 1, Least(MaxRecent, Len(roots[r]))))]))

\* formatRecentExamples.
Examples(messages) == SubSeq(Distinct(messages), 1, Least(MaxExamples, Len(Distinct(messages))))

-----------------------------------------------------------------------------
(* Agent: hunks are made to fit.                                           *)

\* The loop of fairQuotas: in each round all that have room get one, as long as there is any left.
Redistribute(quotas, weights, budget, rounds) ==
  LET handOut(given, round) ==
        LET room == {i \in DOMAIN given : given[i] < weights[i]}
            leftover == budget - Total(given)
            served == {i \in room : Cardinality({k \in room : k <= i}) <= leftover}
        IN [i \in DOMAIN given |-> IF i \in served THEN given[i] + 1 ELSE given[i]]
  IN FoldLeft(handOut, quotas, [round \in 1..rounds |-> round])

\* fairQuotas: by weight, rounded down; the last one gets the rest; capped; redistributed.
FairQuotas(weights, budget) ==
  LET active == {i \in DOMAIN weights : weights[i] > 0}
      share(i) == (budget * weights[i]) \div Total(weights)
      others == Total([i \in DOMAIN weights |->
                         IF i \in active /\ \E k \in active : k > i THEN share(i) ELSE 0])
      raw(i) == IF \E k \in active : k > i THEN share(i) ELSE Most(0, budget - others)
      capped == [i \in DOMAIN weights |-> IF i \in active THEN Least(raw(i), weights[i]) ELSE 0]
  IN IF budget <= 0 \/ active = {}
     THEN [i \in DOMAIN weights |-> 0]
     ELSE Redistribute(capped, weights, budget, 4 * Len(weights))

Size(hunks) == Len(FlattenSeq(hunks))

\* shrinkHunkText: context lines go first, then the end.
ShrinkHunk(h, room) ==
  LET slim == SelectSeq(h, LAMBDA l : l[1] # " ")
  IN IF Len(h) <= room THEN h ELSE SubSeq(slim, 1, Least(room, Len(slim)))

Marker(size) == [i \in 1..size |-> <<"~">>]

\* fitHunksToBudget.
FitHunks(hunks, room) ==
  LET body == room - MarkerSize
      quotas == FairQuotas([i \in DOMAIN hunks |-> Len(hunks[i])], body)
      kept == SelectSeq([i \in DOMAIN hunks |-> <<hunks[i], quotas[i]>>], LAMBDA p : p[2] > 0)
  IN CASE room <= 0 -> [hunks |-> <<>>, truncated |-> hunks # <<>>]
       [] room > 0 /\ Size(hunks) <= room -> [hunks |-> hunks, truncated |-> FALSE]
       [] room > 0 /\ Size(hunks) > room /\ body <= 0 ->
            [hunks |-> <<Marker(room)>>, truncated |-> TRUE]
       [] OTHER ->
            [hunks |-> Append([i \in DOMAIN kept |-> ShrinkHunk(kept[i][1], kept[i][2])],
                              Marker(MarkerSize)),
             truncated |-> TRUE]

Omitted(row) ==
  [row EXCEPT !.hunks = <<>>, !.truncated = TRUE, !.reason = IF @ = "none" THEN "budget" ELSE @]

FitRow(row, quota) ==
  LET fitted == FitHunks(row.hunks, quota)
  IN IF row.hunks = <<>> THEN row
     ELSE IF quota <= 0 THEN Omitted(row)
     ELSE [row EXCEPT !.hunks = fitted.hunks, !.truncated = fitted.truncated]

\* Mutation of FitFiles: each row may use the whole budget.
FitEach(rows, budget) == [i \in DOMAIN rows |-> FitRow(rows[i], budget)]

\* fitFilesToDiffBudget.
FitFiles(rows, budget) ==
  LET weights == [i \in DOMAIN rows |-> Size(rows[i].hunks)]
      quotas == FairQuotas(weights, budget)
  IN IF Total(weights) <= budget
     THEN rows
     ELSE [i \in DOMAIN rows |-> FitRow(rows[i], IF budget <= 0 THEN 0 ELSE quotas[i])]

-----------------------------------------------------------------------------
(* Agent: what of it is spelled out.                                       *)

Score(row) ==
  CASE row.hunks # <<>> -> 0
    [] row.hunks = <<>> /\ (row.reason \in {"budget", "none"} \/ row.truncated) -> 1
    [] OTHER -> 2

Summarised(rows, reason) == IF Len(OfReason(rows, reason)) >= 2 THEN {reason} ELSE {}

\* partitionForPrompt: a stable order by score, cut at the number of blocks; of
\* what is left out the prompt has only the number of rows.
Partition(rows) ==
  LET summed == Summarised(rows, "lockfile") \cup Summarised(rows, "sensitive")
      rest == SelectSeq(rows, LAMBDA r : r.reason \notin summed)
      ranked == FlattenSeq([s \in 1..3 |-> SelectSeq(rest, LAMBDA r : Score(r) = s - 1)])
  IN [expanded |-> SubSeq(ranked, 1, Least(MaxBlocks, Len(ranked))),
      summaries |-> SelectSeq(rows, LAMBDA r : r.reason \in summed),
      skipped |-> Most(0, Len(ranked) - MaxBlocks)]

\* patchStatusOf.
PatchStatus(row) ==
  CASE row.reason = "budget" -> "omitted"
    [] row.reason \notin {"none", "budget"} -> row.reason
    [] row.reason = "none" /\ row.truncated -> "partial"
    [] row.reason = "none" /\ ~row.truncated /\ row.hunks # <<>> -> "full"
    [] OTHER -> "none"

\* buildUserPrompt.
Prompt(rows, messages, budget) ==
  Partition(FitFiles(rows, budget)) @@ [examples |-> Examples(messages)]
=============================================================================
