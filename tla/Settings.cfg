\* Two values for each setting, two projects and two saves at once, two acts of the
\* user in the panel and the chat pages; three models of two providers and six keys in
\* the picker.
SPECIFICATION MCSpec
CONSTANTS
  Models = {m1, m2}
  Default = m1
  Pinned = {m2}
  Projects = {a, b}
  Chats = {w}
  Chains = {k1, k2}
  MaxActs = 2
  Nil = Nil
SYMMETRY Alike
CHECK_DEADLOCK FALSE
INVARIANTS AgentsCurrent CarefulEditsStored RowsTrue
