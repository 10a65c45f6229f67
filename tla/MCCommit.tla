------------------------------ MODULE MCCommit ------------------------------
(* Cases of CommitMessage for TLC: the inputs of one generation, where      *)
(* hunks, budgets and recent commits vary, and three overlapping ones.      *)
EXTENDS CommitMessage

\* A text file of lead + edit + gap + edit + tail lines, as its comparison gives it.
Common(text, n) ==
  LET ids == [i \in 1..n |-> 100 + Len(text.before) + Len(text.after) + i]
  IN [text EXCEPT !.before = @ \o ids, !.after = @ \o ids]

Edited(text, minus, plus) ==
  LET old == [i \in 1..minus |-> 200 + Len(text.before) + i]
      new == [i \in 1..plus |-> 300 + Len(text.after) + i]
      edit == [start1 |-> Len(text.before), end1 |-> Len(text.before) + minus,
               start2 |-> Len(text.after), end2 |-> Len(text.after) + plus]
  IN [before |-> text.before \o old, after |-> text.after \o new,
      kind |-> "text", edits |-> Append(text.edits, edit)]

Blank == [kind |-> "text", before |-> <<>>, after |-> <<>>, edits |-> <<>>]

Text(lead, minus, plus, gap, tail) ==
  Common(Edited(Common(Edited(Common(Blank, lead), minus, plus), gap), plus, minus), tail)

File(kind) == [Blank EXCEPT !.kind = kind]

Commit(message, time, merge) == [message |-> message, time |-> time, merge |-> merge]

Roots == <<<<Commit("a", 5, FALSE), Commit("m", 4, TRUE), Commit("b", 2, FALSE), Commit("c", 1, FALSE)>>,
           <<Commit("b", 6, FALSE), Commit("d", 3, FALSE)>>>>

\* Roots whose newest commits are merges, or say the same thing again.
RecentCases == {
  <<<<Commit("m", 9, TRUE), Commit("n", 8, TRUE), Commit("o", 7, TRUE), Commit("a", 6, FALSE)>>,
    <<Commit("b", 2, FALSE)>>>>,
  <<<<Commit("a", 9, FALSE), Commit("a", 8, FALSE), Commit("a", 7, FALSE), Commit("b", 6, FALSE)>>,
    <<Commit("c", 2, FALSE), Commit("a", 1, FALSE)>>>>,
  <<<<Commit("a", 4, FALSE), Commit("m", 3, TRUE), Commit("b", 1, FALSE)>>,
    <<Commit("c", 5, FALSE), Commit("b", 2, FALSE)>>, <<>>>>}

Case(changes, roots, budget, clicks) ==
  [writer |-> TRUE, changes |-> changes, roots |-> roots, budget |-> budget, clicks |-> clicks,
   events |-> 1, cancels |-> 1, cancelIn |-> {"queued", "collected", "calling", "ended"}]

HunkCases ==
  {Case(<<Text(lead, edit[1], edit[2], gap, tail)>>, <<>>, 99, 1) :
     lead \in {0, 3}, edit \in {<<1, 0>>, <<0, 2>>, <<2, 1>>}, gap \in 0..5, tail \in {0, 3}}
  \cup {Case(<<Edited(Blank, 0, 2)>>, <<>>, 99, 1), Case(<<Edited(Blank, 2, 0)>>, <<>>, 99, 1)}

Small == Text(2, 1, 0, 4, 2)
Large == Text(2, 2, 1, 1, 2)

Ticked == {<<Small, Large, File("binary")>>,
           <<File("lockfile"), Small, File("sensitive"), File("lockfile"), Large>>,
           <<File("lockfile"), File("read_error"), Blank, File("unavailable"), Large>>}

PromptCases == {Case(changes, Roots, budget, 1) : changes \in Ticked, budget \in 0..24}

\* Three generations: a late onCancel of the first lets the others overlap.
OverlapCases == {[Case(<<File("binary")>>, <<>>, 99, 3) EXCEPT !.cancelIn = {"queued"}]}

TheCases == HunkCases \cup PromptCases
  \cup {Case(<<File("binary")>>, roots, 99, 1) : roots \in RecentCases}
  \cup {Case(<<>>, <<>>, 99, 1), [Case(<<Small>>, <<>>, 99, 1) EXCEPT !.writer = FALSE],
        [Case(<<File("binary")>>, <<>>, 99, 1) EXCEPT !.events = 2]}
  \cup OverlapCases
=============================================================================
