----------------------------- MODULE MCSettings -----------------------------
(* Settings for TLC, and beside it the model picker that both of its pages  *)
(* open.  They share no state but the pins and the choice, which each has a *)
(* copy of, so a behaviour is one of the panel or one of the picker.        *)
EXTENDS Settings, TLC

VARIABLES
  part,  \* "panel" or "picker"
  special, connected, value, pins, recents, open, query, filter, opened, live, active,
  other, due, used, before, marked, keys

TheOrder == <<"a1", "a2", "b1">>
TheProvider == [m \in {"a1", "a2", "b1"} |-> IF m = "b1" THEN "b" ELSE "a"]

Token(a1, a2, b1, isSpecial) ==
  [score |-> [m \in {"a1", "a2", "b1"} |-> CASE m = "a1" -> a1 [] m = "a2" -> a2 [] m = "b1" -> b1],
   special |-> isSpecial]

\* A word that all have and "default" has, and two words of which some lack one.
TheQueries == {<<>>, <<Token(20, 60, 60, TRUE)>>,
               <<Token(40, Nil, 20, FALSE), Token(20, 60, 40, FALSE)>>}

Picker == INSTANCE ModelPicker WITH
  Order <- TheOrder, Provider <- TheProvider, Queries <- TheQueries, MaxRecent <- 2, MaxKeys <- 6

pickerVars == <<special, connected, value, pins, recents, open, query, filter, opened, live,
                active, other, due, used, before, marked, keys>>

MCInit ==
  /\ part \in {"panel", "picker"} /\ Init /\ Picker!Init
  /\ part = "panel" => special = "none"
MCNext ==
  \/ part = "panel" /\ Next /\ UNCHANGED <<part, pickerVars>>
  \/ part = "picker" /\ Picker!Next /\ UNCHANGED <<part, vars>>
MCSpec == MCInit /\ [][MCNext]_<<part, vars, pickerVars>>

\* Projects are alike, and so are saves.
Alike == Permutations(Projects) \cup Permutations(Chains)

(* The rows the picker shows, and the row the keys act on, are right:       *)
(* RowsTrue of ModelPicker (modelPickerLogic.ts:406-522).                   *)
RowsTrue == Picker!RowsTrue
=============================================================================
