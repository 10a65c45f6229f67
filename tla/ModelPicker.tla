----------------------------- MODULE ModelPicker -----------------------------
(***************************************************************************)
(* The model picker of the chat and of the settings pages: its list        *)
(* (modelPickerLogic.ts) and its panel (ModelPicker.tsx).                  *)
(*                                                                         *)
(* The panel copies pins and recents when it opens.  The list goes by the  *)
(* copies, so that rows stay where they are; stars and picks go by a live  *)
(* pair, handed to the parent with every change.  An effect keeps the      *)
(* active row on the list whenever the list changes.                       *)
(*                                                                         *)
(* The parents show pins and recents as they are handed.  A settings page  *)
(* shows the value as well, saves, and then shows what the host made of    *)
(* it: the host records default and commit model on top of the recents.    *)
(* The chat shows the value when the agent tells it.  Here one save is     *)
(* answered after the other; what saves do to each other is in Settings.   *)
(*                                                                         *)
(* A query is its tokens, and a token is what it scores for each model.    *)
(* Badges, labels, placement and scrolling are left out.                   *)
(***************************************************************************)
EXTENDS Integers, Sequences, FiniteSets, SequencesExt

CONSTANTS
  Order,      \* the models, as normalCompare sorts them
  Provider,   \* the provider of each
  Queries,    \* sequences of tokens [score: a number or Nil per model, special: BOOLEAN]
  MaxRecent,  \* MAX_RECENT
  MaxKeys,    \* bound: what the user and the parent do
  Nil         \* no model, no filter, no match

VARIABLES
  special,               \* the row above the models: "follow_default", "clear" or "none"
  connected,             \* the providers whose models the parent offers
  value, pins, recents,  \* the parent's other props
  other,                 \* settings: the model of the other page
  due,                   \* settings: the answers of the saves under way
  open, query, filter,   \* the panel
  opened, live,          \* openPinned, openRecent; livePinned, liveRecent
  active,                \* activeIndex, from 1; 0 if there is no row
  used,                  \* (history) the models used, the last one first
  before,                \* (history) those used before the panel opened; Nil if a save was under way
  marked,                \* (history) the model the user last saw highlighted
  keys                   \* (bound)

props == <<connected, value, pins, recents, other, due>>
panel == <<open, query, filter, opened, live, active>>
history == <<used, before, marked>>
vars == <<special, props, panel, history, keys>>

Offerable == ToSet(Order)
Providers == {Provider[m] : m \in Offerable}
Prefs == [pins: Seq(Offerable), recents: Seq(Offerable)]

TypeOK ==
  /\ special \in {"follow_default", "clear", "none"}
  /\ connected \subseteq Providers /\ {value, other, marked} \subseteq Offerable \cup {Nil}
  /\ pins \in Seq(Offerable) /\ recents \in Seq(Offerable)
  /\ open \in BOOLEAN /\ query \in Queries /\ filter \in Providers \cup {Nil}
  /\ opened \in Prefs /\ live \in Prefs /\ active \in Nat
  /\ used \in Seq(Offerable) /\ before \in Seq(Offerable) \cup {Nil}
-----------------------------------------------------------------------------
(* The list.                                                               *)
Position(s, m) == CHOOSE i \in DOMAIN s : s[i] = m

(* buildEntries and buildOptionEntries, sorted; the selected provider.     *)
Entries == SelectSeq(Order, LAMBDA m : Provider[m] \in connected)
InScope(m) == Provider[m] \in connected /\ filter \in {Nil, Provider[m]}
ListProviders == {Provider[m] : m \in ToSet(Entries)}

Distinct(s) == FoldLeft(LAMBDA d, m : IF Contains(d, m) THEN d ELSE Append(d, m), <<>>, s)
(* A mutation of PinnedIn: the list goes by the live stars.                *)
PinnedLive == Distinct(SelectSeq(live.pins, InScope))
PinnedIn == Distinct(SelectSeq(opened.pins, InScope))
RecentIn ==
  LET pinned == ToSet(PinnedIn)
  IN Distinct(SelectSeq(opened.recents, LAMBDA m : InScope(m) /\ m \notin pinned))

(* Every token must match; their scores add up.                            *)
ScoreEntry(m) ==
  FoldLeft(LAMBDA total, t : IF total = Nil \/ t.score[m] = Nil THEN Nil ELSE total + t.score[m],
           0, query)

Row(m, tier, first) == [model |-> m, tier |-> tier, first |-> first]
Tier(ms, tier) == [i \in DOMAIN ms |-> Row(ms[i], tier, i = 1)]

(* With a query: by score, then pinned before recent before others.        *)
Less(a, b) == \E i \in DOMAIN a : a[i] < b[i] /\ \A k \in 1..(i - 1) : a[k] = b[k]
Matched ==
  LET pinned == ToSet(PinnedIn)
      recent == ToSet(RecentIn)
      rank == [m \in {x \in Offerable : InScope(x) /\ ScoreEntry(x) # Nil} |->
                 <<-ScoreEntry(m), IF m \in pinned THEN 0 ELSE 1, IF m \in recent THEN 0 ELSE 1,
                   Position(Order, m)>>]
      ms == SetToSortSeq(DOMAIN rank, LAMBDA a, b : Less(rank[a], rank[b]))
  IN [i \in DOMAIN ms |-> Row(ms[i], "normal", FALSE)]

(* Without: in tiers; the last has a heading for each provider.            *)
Normal ==
  LET above == ToSet(PinnedIn \o RecentIn)
      ms == SelectSeq(Order, LAMBDA m : InScope(m) /\ m \notin above)
  IN [i \in DOMAIN ms |-> Row(ms[i], "normal",
        filter = Nil /\ (i = 1 \/ Provider[ms[i]] # Provider[ms[i - 1]]))]

(* matchesFollowDefault, matchesNoDefault.                                 *)
Special ==
  IF filter = Nil /\ special # "none" /\ \A i \in DOMAIN query : query[i].special
  THEN <<Row(Nil, special, TRUE)>> ELSE <<>>

Rows ==
  IF ~open THEN <<>>
  ELSE Special \o (IF query # <<>> THEN Matched
                   ELSE Tier(PinnedIn, "pinned") \o Tier(RecentIn, "recent") \o Normal)

(* recordUsed, of the page and of the host; togglePinned.                  *)
RecordUsed(s, m) ==
  LET next == <<m>> \o SelectSeq(s, LAMBDA x : x # m)
  IN SubSeq(next, 1, IF Len(next) < MaxRecent THEN Len(next) ELSE MaxRecent)
TogglePinned(s, m) == IF Contains(s, m) THEN SelectSeq(s, LAMBDA x : x # m) ELSE <<m>> \o s
-----------------------------------------------------------------------------
(* The panel.  Fit is the effect behind every change: an index that is not *)
(* on the list moves to the chosen model, or to the top.                   *)
Fit(i, rows) ==
  IF rows = <<>> THEN 0
  ELSE IF i \in DOMAIN rows THEN i
  ELSE LET at == {k \in DOMAIN rows : rows[k].model = value}
       IN IF at = {} THEN 1 ELSE CHOOSE k \in at : \A j \in at : k <= j

Key == keys < MaxKeys /\ keys' = keys + 1
Lands(i, rows) ==
  /\ active' = Fit(i, rows)
  /\ marked' = IF rows = <<>> THEN Nil ELSE rows[active'].model

OpenPicker(direction) ==
  /\ Key /\ ~open
  /\ open' = TRUE /\ query' = <<>> /\ filter' = Nil
  /\ opened' = [pins |-> pins, recents |-> recents] /\ live' = opened'
  /\ before' = IF due = <<>> THEN used ELSE Nil
  /\ UNCHANGED <<special, props, used>>
  /\ \E rows \in {Rows'} :
       Lands(CASE direction = "selected" -> 0 [] direction = "first" -> 1 [] direction = "last" -> Len(rows), rows)

(* By the user, or because the parent disables it.                         *)
Shut ==
  /\ open' = FALSE /\ active' = 0 /\ marked' = Nil /\ before' = Nil
  /\ UNCHANGED <<query, filter, opened, live>>
ClosePicker == Key /\ open /\ Shut /\ UNCHANGED <<special, props, used>>

(* updateQuery, updateProvider, clearFilters: back to the first row.       *)
Narrow(q, f) ==
  /\ Key /\ open /\ Entries # <<>>
  /\ query' = q /\ filter' = f
  /\ UNCHANGED <<special, props, open, opened, live, used, before>>
  /\ \E rows \in {Rows'} : Lands(1, rows)
UpdateQuery(q) == q # query /\ Narrow(q, filter)
UpdateProvider(f) == f # filter /\ Narrow(query, f)
ClearFilters == Rows = <<>> /\ (query # <<>> \/ filter # Nil) /\ Narrow(<<>>, Nil)

(* Arrows, Home, End, PageUp, PageDown; or the mouse.                      *)
MoveActive(delta) ==
  LET to == active + delta IN IF to < 1 THEN 1 ELSE IF to > Len(Rows) THEN Len(Rows) ELSE to
Move ==
  /\ Key /\ Rows # <<>> /\ Entries # <<>>
  /\ \E i \in {MoveActive(delta) : delta \in {1, -1, 5, -5}} \cup DOMAIN Rows : Lands(i, Rows)
  /\ UNCHANGED <<special, props, open, query, filter, opened, live, used, before>>

(* What the parent does with a change.  saveIdeSettings records the models *)
(* of both settings pages, the default first; the commit page's save       *)
(* replaces one that has not gone out in its 300 ms.                       *)
Chat == special = "none"
Recorded(v) ==
  SelectSeq(IF special = "clear" THEN <<v, other>> ELSE <<other, v>>, LAMBDA m : m # Nil)
Unsent ==
  {due} \cup IF special = "follow_default" /\ due # <<>> THEN {Front(due)} ELSE {}
Hand(v, p, list) ==
  /\ pins' = p /\ recents' = list
  /\ IF Chat THEN UNCHANGED <<value, due>>
     ELSE /\ value' = v
          /\ \E sent \in Unsent :
               due' = Append(sent, [value |-> v, pins |-> p,
                                  recents |-> FoldLeft(RecordUsed, list, Recorded(v))])

(* select: the model, the live pins and the new recents go to the parent.  *)
Use(s, m) == <<m>> \o SelectSeq(s, LAMBDA x : x # m)
Select(m) ==
  /\ Key /\ Shut
  /\ Hand(m, live.pins, IF m = Nil THEN live.recents ELSE RecordUsed(live.recents, m))
  /\ used' = IF m = Nil THEN used ELSE Use(used, m)
  /\ UNCHANGED <<special, connected, other>>
Enter == active \in DOMAIN Rows /\ Entries # <<>> /\ Select(Rows[active].model)
(* The button of a panel without models.                                   *)
SelectNone == open /\ Entries = <<>> /\ special # "none" /\ value # Nil /\ Select(Nil)

TogglePin ==
  /\ Key /\ active \in DOMAIN Rows /\ Rows[active].tier \notin {"follow_default", "clear"}
  /\ live' = [live EXCEPT !.pins = TogglePinned(@, Rows[active].model)]
  /\ Hand(value, live'.pins, live.recents)
  /\ UNCHANGED <<special, connected, other, open, query, filter, opened, active, history>>

(* The page shows what the host stored; or the save or its answer is lost, *)
(* and the page goes on with what it has.                                  *)
SaveAnswered ==
  /\ due # <<>> /\ due' = Tail(due)
  /\ \/ /\ value' = Head(due).value /\ pins' = Head(due).pins /\ recents' = Head(due).recents
        /\ used' = FoldLeft(Use, used, Recorded(value'))
     \/ used' = recents /\ UNCHANGED <<value, pins, recents>>
  /\ UNCHANGED <<special, connected, other, open, query, filter, opened, live, before, marked, keys>>
  /\ IF open THEN \E rows \in {Rows'} : active' = Fit(active, rows) ELSE UNCHANGED active

(* The chat's value: the agent has set the model, or another tab is shown. *)
ValueTold ==
  /\ Key /\ Chat
  /\ value' \in (Offerable \cup {Nil}) \ {value}
  /\ UNCHANGED <<special, connected, pins, recents, other, due, open, query, filter, opened, live, history>>
  /\ IF open THEN \E rows \in {Rows'} : active' = Fit(active, rows) ELSE UNCHANGED active

(* The parent offers other models.  The settings pages disable the picker  *)
(* for that, the chat does not.                                            *)
Reload ==
  /\ Key /\ (open => Chat)
  /\ connected' \in SUBSET Providers \ {connected}
  /\ UNCHANGED <<special, value, pins, recents, other, due, open, query, filter, opened, live, used, before>>
  /\ \E rows \in {Rows'} : Lands(active, rows)
-----------------------------------------------------------------------------
Init ==
  /\ special \in {"follow_default", "clear", "none"}
  /\ connected = Providers /\ value = Nil /\ pins = <<>> /\ recents = <<>> /\ due = <<>>
  /\ other \in {Nil} \cup (IF special = "none" THEN {} ELSE {Last(Order)})
  /\ open = FALSE /\ query = <<>> /\ filter = Nil
  /\ opened = [pins |-> <<>>, recents |-> <<>>] /\ live = opened
  /\ active = 0 /\ used = <<>> /\ before = Nil /\ marked = Nil /\ keys = 0

Next ==
  \/ \E direction \in {"selected", "first", "last"} : OpenPicker(direction)
  \/ \E q \in Queries : UpdateQuery(q)
  \/ \E f \in ListProviders \cup {Nil} : UpdateProvider(f)
  \/ ClosePicker \/ ClearFilters \/ Move \/ Enter \/ SelectNone \/ TogglePin \/ Reload
  \/ SaveAnswered \/ ValueTold

Spec == Init /\ [][Next]_vars
-----------------------------------------------------------------------------
(* The models used last have the first positions, MAX_RECENT at most; a    *)
(* model not among them has the last.                                      *)
Recency(m) ==
  LET at == {i \in DOMAIN before : i <= MaxRecent /\ before[i] = m}
  IN IF at = {} THEN MaxRecent + 1 ELSE CHOOSE i \in at : TRUE

(* What the panel shows: each model that is offered, of the selected       *)
(* provider and matched by every word of the query has one row, no other   *)
(* has any; without a query the starred ones come first, then the last     *)
(* used, newest first: the ones picked here and, in the settings, those    *)
(* the host recorded with each save, though the panel stars and picks from *)
(* copies that answers come too late for.  (Not for a panel opened while a *)
(* save was under way: it lacks what the host records with it.)  The row   *)
(* Enter and Alt+P act on is the one the user last saw highlighted: no     *)
(* star, answer or value of the parent moves it; only other models offered *)
(* do, which shows (modelPickerLogic.ts:406-522, ModelPicker.tsx:216-235). *)
RowsTrue ==
  open =>
    LET all == Rows
        rows == SelectSeq(all, LAMBDA r : r.model # Nil)
        wanted == {m \in Offerable : /\ Provider[m] \in connected /\ filter \in {Nil, Provider[m]}
                                  /\ \A i \in DOMAIN query : query[i].score[m] # Nil}
        star(m) == IF Contains(opened.pins, m) THEN Position(opened.pins, m) ELSE Len(Order) + 1
        place(m) == IF star(m) <= Len(Order) THEN <<star(m)>> ELSE <<star(m), Recency(m), Position(Order, m)>>
        Before(a, b) == IF before # Nil THEN Less(place(a), place(b)) ELSE star(a) <= star(b)
    IN /\ {rows[i].model : i \in DOMAIN rows} = wanted /\ Len(rows) = Cardinality(wanted)
       /\ query = <<>> => \A i \in 1..(Len(rows) - 1) : Before(rows[i].model, rows[i + 1].model)
       /\ IF all = <<>> THEN active = 0 ELSE active \in DOMAIN all /\ all[active].model = marked
=============================================================================
