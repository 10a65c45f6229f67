--------------------------- MODULE SettingsProofs ---------------------------
(***************************************************************************)
(* For any models, projects, chat pages, saves at once and number of the   *)
(* user's acts: the agents that run have the default model that is stored, *)
(* and careful edits are stored as they were made.                         *)
(*                                                                         *)
(* Neither is inductive.  A save passes through places where the host has  *)
(* stored half of a form or stopped some of the agents, and what is true   *)
(* of the settings and of each agent depends on the place (AgentAt,        *)
(* FormAt).  That no other save is between (Alone) is what the user's      *)
(* patience gives: as long as "overlap" is not in hasty, a timer and a     *)
(* save exclude each other.  And every page's copy of the pins has to be   *)
(* accounted for, the copy a page fetches as well as the one it will yet   *)
(* fetch: it is what the user chose unless the page is behind (Fresh).     *)
(***************************************************************************)
EXTENDS Settings, TLAPS

\* One save at a time, and none while the timer holds the next.
Alone ==
  /\ timer # Nil => ~Saving
  /\ \A k, l \in Chains : chain[k].at # "idle" /\ chain[l].at # "idle" => k = l

\* What is known of an agent that runs or starts while the save of k is where it is.
AgentAt(k, p) ==
  /\ chain[k].at = "half" => agent[p].default \in {chain[k].prev, stored.default}
  /\ chain[k].at = "stopping" /\ p \notin chain[k].left => agent[p].default = stored.default

\* No save is between the two stores, or stopping agents.
Between == \E k \in Chains : chain[k].at \in {"half", "stopping"}

AgentKnown(p) ==
  /\ ~Between => agent[p].default = stored.default
  /\ \A k \in Chains : AgentAt(k, p)

AgentsKnown ==
  /\ \A k \in Chains : chain[k].at = "read" => chain[k].prev = stored.default
  /\ \A p \in Projects : agent[p].at # "off" => AgentKnown(p)

\* What the save of k carries, and how much of it is stored.
FormAt(k) ==
  /\ chain[k].at \in {"save", "read", "half", "got"} => chain[k].form = wish
  /\ chain[k].at = "half" => stored.default = wish.default
  /\ chain[k].at \in {"stopping", "saved", "got"} => stored = wish

\* Pins a page has, or would fetch now.
Fresh(who, pins) == who \notin behind => pins = wish.pins
\* What is as the user chose it whatever the pins are.
Rest(form) == form.default = wish.default /\ form.commit = wish.commit

\* The page shows what the user chose, and an open picker has its pins.
PageShows ==
  /\ page = "open" => Rest(shown) /\ Fresh("dialog", shown.pins)
  /\ picker # Nil => page = "open" /\ Fresh("dialog", picker.pins)

\* Nothing happens to the settings before the page has them, but in the chat.
Boots ==
  /\ timer = Nil /\ ~Saving
  /\ boot.at # "get" => Rest(boot.form)
  /\ Fresh("dialog", IF boot.at = "get" THEN stored.pins ELSE boot.form.pins)
  /\ "refresh" \in calls => boot.at = "wait"

\* A chat page's pins, and what it is alone in saving.
ChatShows(c) ==
  /\ Fresh(c, IF chat[c].at = "open" THEN chat[c].pins ELSE stored.pins)
  /\ chat[c].due # Nil => /\ chat[c].due = wish.pins /\ Rest(stored)
                         /\ timer = Nil /\ ~Saving
                         /\ \A d \in Chats \ {c} : chat[d].due = Nil

Careful ==
  /\ \A k \in Chains : FormAt(k)
  /\ timer # Nil => timer = wish
  /\ Quiet => stored = wish
  /\ PageShows
  /\ page = "loading" => Boots
  /\ \A c \in Chats : ChatShows(c)

SInv ==
  /\ TypeOK
  /\ "overlap" \notin hasty => Alone /\ AgentsKnown
  /\ hasty = {} => Careful

-----------------------------------------------------------------------------
(* Types. *)

Places == {"idle", "save", "read", "half", "stopping", "saved", "got"}
Hastes == {"loading", "overlap", "beside", "stale", "failed", "closed"}
ChatCopies == [at: {"loading", "open"}, pins: SUBSET Models, due: {Nil} \cup SUBSET Models]
Saves == [at: Places, form: Forms, prev: Models \cup {Nil}, left: SUBSET Projects]

LEMMA FormType ==
  ASSUME NEW f \in Forms, NEW v \in Models \cup {Nil}, NEW P \in SUBSET Models
  PROVE  /\ Empty \in Forms
         /\ [f EXCEPT !.default = v] \in Forms /\ [f EXCEPT !.commit = v] \in Forms
         /\ [f EXCEPT !.pins = P] \in Forms
         /\ [f EXCEPT !.default = v, !.pins = P] \in Forms
         /\ [f EXCEPT !.commit = v, !.pins = P] \in Forms
         /\ f.default \in Models \cup {Nil} /\ f.commit \in Models \cup {Nil}
         /\ f.pins \in SUBSET Models
  BY DEF Forms, Empty

LEMMA SameForm ==
  ASSUME NEW f \in Forms, NEW g \in Forms,
         f.default = g.default, f.commit = g.commit, f.pins = g.pins
  PROVE  f = g
  BY DEF Forms

LEMMA SaveType ==
  ASSUME TypeOK, NEW f \in Forms, Save(f)
  PROVE  chain' \in [Chains -> Saves]
  <1>1. PICK k \in Chains : chain' = [chain EXCEPT ![k] = [Idle EXCEPT !.at = "save", !.form = f]]
    BY DEF Save
  <1>2. [Idle EXCEPT !.at = "save", !.form = f] \in Saves
    BY FormType DEF Idle, Saves, Places
  <1>3. chain \in [Chains -> Saves]
    BY DEF TypeOK, Saves, Places
  <1> QED BY <1>1, <1>2, <1>3

LEMMA EditType ==
  ASSUME TypeOK, NEW f \in Forms, NEW on, Edit(on, f), wish' \in Forms, behind' \subseteq Pages,
         picker' \in [on: {"providers", "commit"}, pins: SUBSET Models] \cup {Nil}
  PROVE  TypeOK'
  <1>1. chain' \in [Chains -> Saves] /\ timer' \in Forms \cup {Nil}
    BY SaveType DEF Edit, TypeOK, Saves, Places
  <1>2. acts' \in 0 .. MaxActs
    BY SettingsAssumption DEF Edit, Act, TypeOK
  <1>3. hasty' \subseteq Hastes
    BY DEF Edit, TypeOK, Hastes
  <1>4. shown' = f /\ UNCHANGED <<stored, page, boot, calls, busy, agent, chat>>
    BY DEF Edit
  <1> QED BY <1>1, <1>2, <1>3, <1>4 DEF TypeOK, Saves, Places, Hastes

LEMMA PickerType ==
  ASSUME TypeOK, picker # Nil
  PROVE  picker.on \in {"providers", "commit"} /\ picker.pins \in SUBSET Models
  BY DEF TypeOK

LEMMA UserTypes ==
  ASSUME TypeOK, NEW v \in Models, EditCommit(v) \/ Select(v) \/ TogglePin(v)
  PROVE  TypeOK'
  <1> DEFINE Pickers == [on: {"providers", "commit"}, pins: SUBSET Models]
  <1>0. shown \in Forms /\ wish \in Forms /\ picker \in Pickers \cup {Nil}
    BY DEF TypeOK
  <1>1. CASE EditCommit(v)
    <2>1. [shown EXCEPT !.commit = v] \in Forms /\ wish' \in Forms
      BY <1>0, <1>1, FormType DEF EditCommit
    <2> QED BY <1>0, <1>1, <2>1, EditType DEF EditCommit, TypeOK
  <1>2. CASE Select(v)
    <2>1. Choice(v) \in Forms /\ wish' \in Forms
      BY <1>0, <1>2, FormType, PickerType DEF Select, Choice
    <2> QED BY <1>2, <2>1, EditType DEF Select, TypeOK
  <1>3. CASE TogglePin(v)
    <2> DEFINE P == Toggled(picker.pins, v, v \notin picker.pins)
               W == Toggled(wish.pins, v, v \in P)
    <2>1. picker # Nil /\ Edit(picker.on, [shown EXCEPT !.pins = P])
          /\ wish' = [wish EXCEPT !.pins = W] /\ picker' = [picker EXCEPT !.pins = P]
          /\ behind' = behind \cup Chats
      BY <1>3 DEF TogglePin
    <2>2. P \in SUBSET Models /\ W \in SUBSET Models
      BY <1>0, <2>1, FormType, PickerType DEF Toggled
    <2> HIDE DEF P, W
    <2>3. [shown EXCEPT !.pins = P] \in Forms /\ wish' \in Forms
      BY <1>0, <2>1, <2>2, FormType
    <2>4. picker' \in Pickers
      BY <1>0, <2>1, <2>2
    <2>5. behind' \subseteq Pages BY <2>1 DEF TypeOK, Pages
    <2> QED BY <2>1, <2>3, <2>4, <2>5, EditType
  <1> QED BY <1>1, <1>2, <1>3

LEMMA PageTypes ==
  ASSUME TypeOK,
         \/ \E on \in {"providers", "commit"} : OpenPicker(on)
         \/ \E op \in Requests : Request(op) \/ Returned(op)
         \/ ClosePicker \/ Close \/ BootGet \/ BootRefresh
  PROVE  TypeOK'
  <1>1. ASSUME NEW on \in {"providers", "commit"}, OpenPicker(on) PROVE TypeOK'
    <2>1. shown.pins \in SUBSET Models BY FormType DEF TypeOK
    <2> QED BY <1>1, <2>1 DEF OpenPicker, TypeOK
  <1>2. ASSUME NEW op \in Requests, Request(op) PROVE TypeOK'
    BY <1>2, SettingsAssumption DEF Request, Sends, Act, TypeOK
  <1>3. ASSUME NEW op \in Requests, Returned(op) PROVE TypeOK'
    BY <1>3 DEF Returned, TypeOK
  <1>4. CASE ClosePicker BY <1>4 DEF ClosePicker, TypeOK
  <1>5. CASE Close
    <2>1. acts' \in 0 .. MaxActs BY <1>5, SettingsAssumption DEF Close, Act, TypeOK
    <2>2. hasty' \subseteq Hastes BY <1>5 DEF Close, TypeOK, Hastes
    <2>3. /\ page' = "closed" /\ timer' = Nil /\ picker' = Nil /\ calls' = {}
          /\ UNCHANGED <<stored, shown, boot, busy, agent, chat, wish, behind>>
      BY <1>5 DEF Close
    <2>4. chain' \in [Chains -> Saves]
      <3>1. chain \in [Chains -> Saves] /\ Idle \in Saves
        BY FormType DEF TypeOK, Saves, Places, Idle
      <3> QED BY <1>5, <3>1 DEF Close
    <2> QED BY <2>1, <2>2, <2>3, <2>4 DEF TypeOK, Hastes, Saves, Places
  <1>6. CASE BootGet
    <2>1. boot' \in [at: {"get", "refresh", "wait"}, form: Forms]
      BY <1>6 DEF BootGet, TypeOK, Empty, Forms
    <2>2. hasty' \subseteq Hastes /\ behind' \subseteq Pages BY <1>6 DEF BootGet, TypeOK, Hastes
    <2> QED BY <1>6, <2>1, <2>2 DEF BootGet, TypeOK, Hastes
  <1>7. CASE BootRefresh BY <1>7 DEF BootRefresh, Sends, TypeOK, Requests
  <1> QED BY <1>1, <1>2, <1>3, <1>4, <1>5, <1>6, <1>7

LEMMA HostTypes ==
  ASSUME TypeOK, NEW k \in Chains,
         \/ HostReads(k) \/ HostWritesDefault(k) \/ HostWritesRest(k) \/ HostStops(k)
         \/ HostGets(k) \/ GetAnswered(k) \/ SaveFails(k) \/ GetFails(k)
  PROVE  TypeOK'
  <1>0. /\ chain \in [Chains -> Saves] /\ chain[k] \in Saves /\ chain[k].form \in Forms
        /\ stored \in Forms /\ Empty \in Forms /\ Idle \in Saves
    BY FormType DEF TypeOK, Saves, Places, Idle
  <1>1. CASE HostReads(k)
    <2>1. stored.default \in Models \cup {Nil} BY <1>0, FormType
    <2>2. chain' \in [Chains -> Saves]
      BY <1>0, <1>1, <2>1 DEF HostReads, Saves, Places
    <2> QED BY <1>1, <2>2 DEF HostReads, TypeOK, Saves, Places
  <1>2. CASE HostWritesDefault(k)
    <2>1. stored' \in Forms BY <1>0, <1>2, FormType DEF HostWritesDefault
    <2>2. chain' \in [Chains -> Saves]
      BY <1>0, <1>2 DEF HostWritesDefault, Saves, Places
    <2> QED BY <1>2, <2>1, <2>2 DEF HostWritesDefault, TypeOK, Saves, Places
  <1>3. CASE HostWritesRest(k)
    <2>1. stored' \in Forms BY <1>0, <1>3, FormType DEF HostWritesRest, Written
    <2>2. chain' \in [Chains -> Saves]
      BY <1>0, <1>3 DEF HostWritesRest, Saves, Places
    <2> QED BY <1>3, <2>1, <2>2 DEF HostWritesRest, TypeOK, Saves, Places
  <1>4. CASE HostStops(k)
    <2>1. PICK p \in chain[k].left :
            /\ Stop(p)
            /\ chain' = [chain EXCEPT ![k].left = chain[k].left \ {p},
                 ![k].at = IF chain[k].left \ {p} = {} THEN "saved" ELSE "stopping"]
      BY <1>4 DEF HostStops
    <2>2. chain' \in [Chains -> Saves]
      BY <1>0, <2>1 DEF Saves, Places
    <2>3. agent' \in [Projects -> [at: {"off", "starting", "on"}, default: Models \cup {Nil}]]
      BY <1>0, <2>1 DEF Stop, Off, TypeOK, Saves
    <2> QED BY <1>4, <2>2, <2>3 DEF HostStops, TypeOK, Saves, Places
  <1>5. CASE HostGets(k)
    <2>2. chain' \in [Chains -> Saves]
      BY <1>0, <1>5 DEF HostGets, Saves, Places
    <2> QED BY <1>5, <2>2 DEF HostGets, TypeOK, Saves, Places
  <1>6. CASE GetAnswered(k)
    <2>2. chain' \in [Chains -> Saves] /\ shown' \in Forms
      BY <1>0, <1>6 DEF GetAnswered, TypeOK
    <2> QED BY <1>6, <2>2 DEF GetAnswered, TypeOK, Saves, Places
  <1>7. CASE SaveFails(k) \/ GetFails(k)
    <2>1. chain' \in [Chains -> Saves]
      BY <1>0, <1>7 DEF SaveFails, GetFails
    <2>2. hasty' \subseteq Hastes BY <1>7 DEF SaveFails, GetFails, TypeOK, Hastes
    <2> QED BY <1>7, <2>1, <2>2 DEF SaveFails, GetFails, TypeOK, Saves, Places, Hastes
  <1> QED BY <1>1, <1>2, <1>3, <1>4, <1>5, <1>6, <1>7

ChatSteps(c) == \/ ChatLoads(c) \/ ChatPicks(c) \/ ChatStored(c) \/ ChatSaveFails(c)
                \/ \E m \in Models : ChatStars(c, m)

LEMMA ChatSavesType ==
  ASSUME TypeOK, NEW c \in Chats, NEW P \in SUBSET Models, ChatSaves(c, P),
         wish' \in Forms, behind' \subseteq Pages
  PROVE  TypeOK'
  <1>1. chat \in [Chats -> ChatCopies] BY DEF TypeOK, ChatCopies
  <1>2. chat' \in [Chats -> ChatCopies] BY <1>1 DEF ChatSaves, ChatCopies
  <1>3. acts' \in 0 .. MaxActs BY SettingsAssumption DEF ChatSaves, Act, TypeOK
  <1>4. hasty' \subseteq Hastes BY DEF ChatSaves, TypeOK, Hastes
  <1>5. UNCHANGED <<stored, page, shown, boot, timer, picker, chain, calls, busy, agent>>
    BY DEF ChatSaves
  <1> QED BY <1>2, <1>3, <1>4, <1>5 DEF TypeOK, ChatCopies, Hastes

LEMMA ChatTypes ==
  ASSUME TypeOK, NEW c \in Chats, ChatSteps(c)
  PROVE  TypeOK'
  <1>0. chat \in [Chats -> ChatCopies] /\ chat[c] \in ChatCopies /\ stored.pins \in SUBSET Models
        /\ wish \in Forms /\ wish.pins \in SUBSET Models
    BY FormType DEF TypeOK, ChatCopies
  <1>1. CASE ChatLoads(c)
    <2>1. chat' \in [Chats -> ChatCopies] BY <1>0, <1>1 DEF ChatLoads, ChatCopies
    <2>2. behind' \subseteq Pages BY <1>1 DEF ChatLoads, TypeOK, Pages
    <2> QED BY <1>1, <2>1, <2>2 DEF ChatLoads, TypeOK, ChatCopies
  <1>2. CASE ChatPicks(c)
    BY <1>0, <1>2, ChatSavesType DEF ChatPicks, TypeOK, ChatCopies
  <1>3. CASE ChatStored(c)
    <2>1. chat' \in [Chats -> ChatCopies] BY <1>0, <1>3 DEF ChatStored, ChatCopies
    <2>2. chat[c].due \in SUBSET Models BY <1>0, <1>3 DEF ChatStored, ChatCopies
    <2>3. stored' \in Forms BY <1>3, <2>2, FormType DEF ChatStored, TypeOK
    <2> QED BY <1>3, <2>1, <2>3 DEF ChatStored, TypeOK, ChatCopies
  <1>4. CASE ChatSaveFails(c)
    <2>1. chat' \in [Chats -> ChatCopies] BY <1>0, <1>4 DEF ChatSaveFails, ChatCopies
    <2> QED BY <1>4, <2>1 DEF ChatSaveFails, TypeOK, ChatCopies
  <1>5. ASSUME NEW m \in Models, ChatStars(c, m) PROVE TypeOK'
    <2> DEFINE P == Toggled(chat[c].pins, m, m \notin chat[c].pins)
               W == Toggled(wish.pins, m, m \in P)
    <2>1. ChatSaves(c, P) /\ wish' = [wish EXCEPT !.pins = W] /\ behind' \subseteq Pages
      BY <1>5 DEF ChatStars, TypeOK
    <2>2. P \in SUBSET Models /\ W \in SUBSET Models BY <1>0 DEF Toggled, ChatCopies
    <2> HIDE DEF P, W
    <2>3. wish' \in Forms BY <1>0, <2>1, <2>2, FormType
    <2> QED BY <2>1, <2>2, <2>3, ChatSavesType
  <1> QED BY <1>1, <1>2, <1>3, <1>4, <1>5 DEF ChatSteps

LEMMA OtherTypes ==
  ASSUME TypeOK, TimerFires \/ \E p \in Projects : StartAgent(p) \/ AgentUp(p)
  PROVE  TypeOK'
  <1>1. CASE TimerFires
    <2>1. timer \in Forms BY <1>1 DEF TimerFires, TypeOK
    <2>2. chain' \in [Chains -> Saves] BY <1>1, <2>1, SaveType DEF TimerFires
    <2> QED BY <1>1, <2>2 DEF TimerFires, TypeOK, Saves, Places
  <1>2. ASSUME NEW p \in Projects, StartAgent(p) PROVE TypeOK'
    <2>1. stored.default \in Models \cup {Nil} BY FormType DEF TypeOK
    <2> QED BY <1>2, <2>1 DEF StartAgent, TypeOK
  <1>3. ASSUME NEW p \in Projects, AgentUp(p) PROVE TypeOK'
    BY <1>3 DEF AgentUp, TypeOK
  <1> QED BY <1>1, <1>2, <1>3

-----------------------------------------------------------------------------
(* Agents. *)

\* A step that leaves the saves, the stored default model and the agents alone,
\* but for saves that have not begun and never will.
LEMMA ElsewhereAgents ==
  ASSUME Alone, AgentsKnown, stored'.default = stored.default, agent' = agent,
         \A k \in Chains : chain'[k] = chain[k] \/ (chain[k].at = "save" /\ chain'[k].at = "idle"),
         timer' \in {timer, Nil} \/ ~Saving
  PROVE  Alone' /\ AgentsKnown'
  <1>1. Alone' BY DEF Alone, Saving
  <1>2. Between' = Between BY DEF Between
  <1>3. AgentsKnown' BY <1>2 DEF AgentsKnown, AgentKnown, AgentAt
  <1> QED BY <1>1, <1>3

LEMMA SaveAgents ==
  ASSUME TypeOK, Alone, AgentsKnown, ~Saving, NEW f, Save(f), timer' = Nil,
         UNCHANGED <<stored, agent>>
  PROVE  Alone' /\ AgentsKnown'
  <1>1. PICK k \in Chains : chain' = [chain EXCEPT ![k] = [Idle EXCEPT !.at = "save", !.form = f]]
    BY DEF Save
  <1>2. chain'[k].at = "save" /\ \A l \in Chains \ {k} : chain'[l].at = "idle"
    BY <1>1 DEF Saving, Idle, TypeOK
  <1>3. ~Between BY DEF Between, Saving
  <1>4. Alone' BY <1>2 DEF Alone
  <1>5. AgentsKnown' BY <1>2, <1>3 DEF AgentsKnown, AgentKnown, Between, AgentAt
  <1> QED BY <1>4, <1>5

\* The one save under way goes from one place to the next.
LEMMA MovesAlone ==
  ASSUME TypeOK, Alone, NEW k \in Chains, chain[k].at # "idle", NEW c,
         chain' = [chain EXCEPT ![k] = c], UNCHANGED timer
  PROVE  /\ Alone' /\ timer = Nil /\ chain'[k] = c
         /\ \A l \in Chains \ {k} : chain[l].at = "idle" /\ chain'[l].at = "idle"
  <1>1. \A l \in Chains \ {k} : chain[l].at = "idle"
    BY DEF Alone
  <1>2. chain'[k] = c /\ \A l \in Chains \ {k} : chain'[l] = chain[l]
    BY DEF TypeOK
  <1>3. timer = Nil BY DEF Alone, Saving
  <1>4. Alone' BY <1>1, <1>2, <1>3 DEF Alone
  <1> QED BY <1>1, <1>2, <1>3, <1>4

LEMMA HostAgents ==
  ASSUME TypeOK, Alone, AgentsKnown, NEW k \in Chains,
         \/ HostReads(k) \/ HostWritesDefault(k) \/ HostWritesRest(k) \/ HostStops(k)
         \/ HostGets(k) \/ GetAnswered(k) \/ SaveFails(k) \/ GetFails(k)
  PROVE  Alone' /\ AgentsKnown'
  <1> DEFINE Others == \A l \in Chains \ {k} : chain[l].at = "idle" /\ chain'[l].at = "idle"
  <1>0. chain[k] \in Saves /\ stored \in Forms
    BY DEF TypeOK, Saves, Places
  <1>1. CASE HostReads(k)
    <2>1. chain' = [chain EXCEPT ![k] = [chain[k] EXCEPT !.at = "read", !.prev = stored.default]]
      BY <1>1 DEF HostReads, TypeOK
    <2>2. Alone' /\ Others /\ chain'[k] = [chain[k] EXCEPT !.at = "read", !.prev = stored.default]
      BY <1>1, <2>1, MovesAlone DEF HostReads
    <2>3. chain[k].at = "save" /\ chain'[k].at = "read" /\ chain'[k].prev = stored.default
      <3>1. chain[k].at = "save" BY <1>1 DEF HostReads
      <3> QED BY <1>0, <2>2, <3>1 DEF Saves
    <2>4. ~Between /\ ~Between' BY <2>2, <2>3 DEF Between
    <2>5. AgentsKnown'
      BY <1>1, <2>2, <2>3, <2>4 DEF AgentsKnown, AgentKnown, AgentAt, HostReads
    <2> QED BY <2>2, <2>5
  <1>2. CASE HostWritesDefault(k)
    <2>1. chain' = [chain EXCEPT ![k] = [chain[k] EXCEPT !.at = "half"]]
      BY <1>2 DEF HostWritesDefault, TypeOK
    <2>2. Alone' /\ Others /\ chain'[k] = [chain[k] EXCEPT !.at = "half"]
      BY <1>2, <2>1, MovesAlone DEF HostWritesDefault
    <2>3. chain[k].at = "read" /\ chain'[k].at = "half" /\ chain'[k].prev = chain[k].prev
      BY <1>0, <1>2, <2>2 DEF HostWritesDefault, Saves
    <2>4. ~Between /\ Between' BY <2>2, <2>3 DEF Between
    <2>5. ASSUME NEW p \in Projects, agent'[p].at # "off"
          PROVE  agent'[p].default = chain'[k].prev
      BY <1>2, <2>3, <2>4, <2>5 DEF AgentsKnown, AgentKnown, AgentAt, HostWritesDefault
    <2>6. AgentsKnown'
      BY <2>2, <2>3, <2>4, <2>5 DEF AgentsKnown, AgentKnown, AgentAt
    <2> QED BY <2>2, <2>6
  <1>3. CASE HostWritesRest(k)
    <2> DEFINE c == IF stored.default = chain[k].prev THEN [chain[k] EXCEPT !.at = "saved"]
                    ELSE [chain[k] EXCEPT !.at = "stopping", !.left = Projects]
    <2>1. chain' = [chain EXCEPT ![k] = c]
      BY <1>3 DEF HostWritesRest, TypeOK
    <2> HIDE DEF c
    <2>2. Alone' /\ Others /\ chain'[k] = c
      BY <1>3, <2>1, MovesAlone DEF HostWritesRest
    <2>3. chain[k].at = "half" /\ agent' = agent /\ stored'.default = stored.default
      BY <1>0, <1>3 DEF HostWritesRest, Written, Forms
    <2>4. CASE stored.default = chain[k].prev
      <3>1. chain'[k].at = "saved" BY <1>0, <2>2, <2>4 DEF c, Saves
      <3> QED BY <2>2, <2>3, <2>4, <3>1 DEF AgentsKnown, AgentKnown, AgentAt, Between
    <2>5. CASE stored.default # chain[k].prev
      <3>1. chain'[k].at = "stopping" /\ chain'[k].left = Projects
        BY <1>0, <2>2, <2>5 DEF c, Saves
      <3> QED BY <2>2, <2>3, <3>1 DEF AgentsKnown, AgentKnown, AgentAt, Between
    <2> QED BY <2>2, <2>4, <2>5
  <1>4. CASE HostStops(k)
    <2>1. PICK q \in chain[k].left :
            /\ Stop(q)
            /\ chain' = [chain EXCEPT ![k].left = chain[k].left \ {q},
                 ![k].at = IF chain[k].left \ {q} = {} THEN "saved" ELSE "stopping"]
      BY <1>4 DEF HostStops
    <2> DEFINE c == [chain[k] EXCEPT !.left = chain[k].left \ {q},
                 !.at = IF chain[k].left \ {q} = {} THEN "saved" ELSE "stopping"]
    <2>2. chain' = [chain EXCEPT ![k] = c]
      BY <2>1 DEF TypeOK
    <2> HIDE DEF c
    <2>3. Alone' /\ Others /\ chain'[k] = c
      BY <1>4, <2>2, MovesAlone DEF HostStops
    <2>4. /\ chain[k].at = "stopping" /\ stored' = stored
          /\ chain'[k].left = chain[k].left \ {q}
          /\ chain'[k].at = IF chain[k].left \ {q} = {} THEN "saved" ELSE "stopping"
      BY <1>0, <1>4, <2>3 DEF HostStops, c, Saves
    <2>5. ASSUME NEW p \in Projects, agent'[p].at # "off", p \notin chain'[k].left
          PROVE  agent'[p].default = stored'.default
      <3>1. p # q /\ agent'[p] = agent[p]
        BY <2>1, <2>5 DEF Stop, Off, TypeOK
      <3> QED BY <2>4, <2>5, <3>1 DEF AgentsKnown, AgentKnown, AgentAt
    <2>6. AgentsKnown'
      BY <2>3, <2>4, <2>5 DEF AgentsKnown, AgentKnown, AgentAt, Between
    <2> QED BY <2>3, <2>6
  <1>5. CASE HostGets(k) \/ GetAnswered(k)
    <2>1. PICK c \in {Idle, [chain[k] EXCEPT !.at = "got", !.form = stored]} :
            chain' = [chain EXCEPT ![k] = c]
      BY <1>5 DEF HostGets, GetAnswered
    <2>2. Alone' /\ Others /\ chain'[k] = c
      BY <1>5, <2>1, MovesAlone DEF HostGets, GetAnswered
    <2>3. chain[k].at \in {"saved", "got"} /\ chain'[k].at \in {"idle", "got"}
      <3>1. chain[k].at \in {"saved", "got"} BY <1>5 DEF HostGets, GetAnswered
      <3>2. Idle.at = "idle" BY DEF Idle
      <3>3. [chain[k] EXCEPT !.at = "got", !.form = stored].at = "got" BY <1>0 DEF Saves
      <3> QED BY <2>1, <2>2, <3>1, <3>2, <3>3
    <2>4. AgentsKnown'
      BY <1>5, <2>2, <2>3 DEF AgentsKnown, AgentKnown, AgentAt, Between, HostGets, GetAnswered
    <2> QED BY <2>2, <2>4
  <1>6. CASE SaveFails(k) \/ GetFails(k)
    <2>1. chain[k].at \in {"save", "saved", "got"} /\ chain' = [chain EXCEPT ![k] = Idle]
      BY <1>6 DEF SaveFails, GetFails
    <2>2. Alone' /\ Others /\ chain'[k] = Idle
      BY <1>6, <2>1, MovesAlone DEF SaveFails, GetFails
    <2>3. AgentsKnown'
      BY <1>6, <2>1, <2>2 DEF AgentsKnown, AgentKnown, AgentAt, Between, SaveFails, GetFails, Idle
    <2> QED BY <2>2, <2>3
  <1> QED BY <1>1, <1>2, <1>3, <1>4, <1>5, <1>6

LEMMA StartAgents ==
  ASSUME TypeOK, Alone, AgentsKnown, NEW p \in Projects, StartAgent(p) \/ AgentUp(p)
  PROVE  Alone' /\ AgentsKnown'
  <1>1. UNCHANGED <<stored, chain, timer>>
    BY DEF StartAgent, AgentUp
  <1>2. Alone' BY <1>1 DEF Alone, Saving
  <1>3. ASSUME NEW q \in Projects, agent'[q].at # "off"
        PROVE  AgentKnown(q)'
    <2>1. \/ agent'[q].default = stored.default
          \/ agent[q].at # "off" /\ agent'[q].default = agent[q].default
      BY <1>3 DEF StartAgent, AgentUp, TypeOK
    <2> QED BY <1>1, <2>1 DEF AgentsKnown, AgentKnown, AgentAt, Between
  <1> QED BY <1>1, <1>2, <1>3 DEF AgentsKnown

-----------------------------------------------------------------------------
(* Careful edits. *)

\* A step that leaves the pages' pins, the saves and the stored settings alone.
LEMMA ElsewhereCareful ==
  ASSUME Careful, UNCHANGED <<stored, chain, chat, wish, timer>>, behind' = behind,
         PageShows', page' = "loading" => Boots'
  PROVE  Careful'
  <1>1. ASSUME NEW c \in Chats PROVE ChatShows(c)'
    BY <1>1 DEF Careful, ChatShows, Fresh, Rest, Saving
  <1> QED BY <1>1 DEF Careful, FormAt, Quiet, Saving, Storing

\* An edit of an open page, with no save on its way.
LEMMA EditCareful ==
  ASSUME TypeOK, Careful, NEW on, NEW f \in Forms, Edit(on, f), wish' = f,
         page # "closed", hasty' = {},
         picker' # Nil => picker'.pins = wish'.pins,
         \A c \in Chats \ behind' : c \notin behind /\ wish'.pins = wish.pins
  PROVE  Careful'
  <1>1. /\ shown' = wish' /\ UNCHANGED <<stored, page, boot, calls, chat>>
        /\ hasty' = hasty \cup (IF page = "loading" THEN {"loading"} ELSE {})
             \cup (IF Saving \/ (on = "providers" /\ timer # Nil) THEN {"overlap"} ELSE {})
             \cup (IF Storing THEN {"beside"} ELSE {})
             \cup (IF "dialog" \in behind THEN {"stale"} ELSE {})
    BY DEF Edit
  <1>2. page # "loading" /\ ~Saving /\ ~Storing /\ (on = "providers" => timer = Nil)
    BY <1>1
  <1>3. page' = "open"
    BY <1>1, <1>2 DEF TypeOK
  <1>4. PageShows' BY <1>1, <1>3 DEF PageShows, Fresh, Rest
  <1>5. \A c \in Chats : ChatShows(c)'
    BY <1>1, <1>2 DEF Careful, ChatShows, Fresh, Storing
  <1>6. CASE on = "providers"
    <2>1. Save(f) /\ timer' = Nil BY <1>2, <1>6 DEF Edit
    <2>2. PICK k \in Chains : chain' = [chain EXCEPT ![k] = [Idle EXCEPT !.at = "save", !.form = f]]
      BY <2>1 DEF Save
    <2>3. /\ chain'[k].at = "save" /\ chain'[k].form = wish'
          /\ \A l \in Chains \ {k} : chain'[l].at = "idle"
      BY <1>2, <2>2 DEF Saving, Idle, TypeOK
    <2>4. \A l \in Chains : FormAt(l)' BY <2>3 DEF FormAt
    <2>5. Saving' BY <2>3 DEF Saving
    <2> QED BY <1>3, <1>4, <1>5, <2>1, <2>4, <2>5 DEF Careful, Quiet
  <1>7. CASE on # "providers"
    <2>1. timer' = wish' /\ chain' = chain BY <1>7 DEF Edit
    <2>2. timer' # Nil BY <2>1, SettingsAssumption
    <2>3. \A l \in Chains : FormAt(l)' BY <1>2, <2>1 DEF FormAt, Saving
    <2> QED BY <1>3, <1>4, <1>5, <2>1, <2>2, <2>3 DEF Careful, Quiet
  <1> QED BY <1>6, <1>7

LEMMA SamePins ==
  ASSUME NEW f \in Forms, NEW v
  PROVE  /\ [f EXCEPT !.default = v, !.pins = f.pins] = [f EXCEPT !.default = v]
         /\ [f EXCEPT !.commit = v, !.pins = f.pins] = [f EXCEPT !.commit = v]
  BY DEF Forms

LEMMA UserCareful ==
  ASSUME TypeOK, Careful, hasty' = {},
         NEW v \in Models, EditCommit(v) \/ Select(v) \/ TogglePin(v)
  PROVE  Careful'
  <1>0. page # "closed" => page = "open" /\ shown = wish
    <2>1. page # "loading" /\ "dialog" \notin behind
      BY DEF EditCommit, Select, TogglePin, Edit
    <2>2. shown \in Forms /\ wish \in Forms BY DEF TypeOK
    <2> QED BY <2>1, <2>2, SameForm DEF TypeOK, Careful, PageShows, Fresh, Rest
  <1>1. CASE EditCommit(v)
    <2>1. /\ page # "closed" /\ Edit("commit", [shown EXCEPT !.commit = v])
          /\ picker' = Nil /\ wish' = [wish EXCEPT !.commit = v] /\ behind' = behind
      BY <1>1 DEF EditCommit
    <2>2. shown = wish BY <1>0, <2>1
    <2>3. wish' \in Forms /\ wish'.pins = wish.pins BY <2>1, FormType DEF TypeOK, Forms
    <2> QED BY <2>1, <2>2, <2>3, EditCareful
  <1>2. CASE Select(v)
    <2>1. /\ picker # Nil /\ Edit(picker.on, Choice(v)) /\ picker' = Nil /\ behind' = behind
          /\ wish' = IF picker.on = "providers" THEN [wish EXCEPT !.default = v]
                     ELSE [wish EXCEPT !.commit = v]
      BY <1>2 DEF Select
    <2>2. page = "open" /\ shown = wish /\ picker.pins = wish.pins
      BY <1>0, <2>1 DEF Careful, PageShows, Fresh, Edit
    <2>3. wish \in Forms /\ wish' \in Forms /\ wish'.pins = wish.pins
      BY <2>1, FormType DEF TypeOK, Forms
    <2>4. CASE picker.on = "providers"
      <3>1. Choice(v) = [wish EXCEPT !.default = v, !.pins = picker.pins]
        BY <2>2, <2>4 DEF Choice
      <3>2. Choice(v) = [wish EXCEPT !.default = v] BY <2>2, <2>3, <3>1, SamePins
      <3>3. wish' = Choice(v) BY <2>1, <2>4, <3>2
      <3> QED BY <2>1, <2>2, <2>3, <3>3, EditCareful
    <2>5. CASE picker.on # "providers"
      <3>1. Choice(v) = [wish EXCEPT !.commit = v, !.pins = picker.pins]
        BY <2>2, <2>5 DEF Choice
      <3>2. Choice(v) = [wish EXCEPT !.commit = v] BY <2>2, <2>3, <3>1, SamePins
      <3>3. wish' = Choice(v) BY <2>1, <2>5, <3>2
      <3> QED BY <2>1, <2>2, <2>3, <3>3, EditCareful
    <2> QED BY <2>4, <2>5
  <1>3. CASE TogglePin(v)
    <2> DEFINE P == Toggled(picker.pins, v, v \notin picker.pins)
               W == Toggled(wish.pins, v, v \in P)
    <2>1. picker # Nil /\ Edit(picker.on, [shown EXCEPT !.pins = P])
          /\ wish' = [wish EXCEPT !.pins = W] /\ picker' = [picker EXCEPT !.pins = P]
          /\ behind' = behind \cup Chats
      BY <1>3 DEF TogglePin
    <2>2. page = "open" /\ shown = wish /\ picker.pins = wish.pins
      BY <1>0, <2>1 DEF Careful, PageShows, Fresh, Edit
    <2>3. W = P BY <2>2 DEF Toggled
    <2>4. P \in SUBSET Models BY <2>1, PickerType DEF Toggled
    <2> HIDE DEF P, W
    <2>5. wish' = [shown EXCEPT !.pins = P] /\ wish' \in Forms
      BY <2>1, <2>2, <2>3, <2>4, FormType DEF TypeOK
    <2>6. picker'.pins = P BY <2>1 DEF TypeOK
    <2>7. wish'.pins = P BY <2>5 DEF TypeOK, Forms
    <2> QED BY <2>1, <2>2, <2>5, <2>6, <2>7, EditCareful
  <1> QED BY <1>1, <1>2, <1>3

\* The page's other steps.
LEMMA PageCareful ==
  ASSUME TypeOK, Careful, hasty' = {},
         \/ \E on \in {"providers", "commit"} : OpenPicker(on)
         \/ \E op \in Requests : Request(op) \/ Returned(op)
         \/ ClosePicker \/ Close \/ BootGet \/ BootRefresh
  PROVE  Careful'
  <1>1. ASSUME NEW on \in {"providers", "commit"}, OpenPicker(on) PROVE Careful'
    <2>1. page # "loading" /\ page # "closed" BY <1>1 DEF OpenPicker
    <2>2. page = "open" /\ Fresh("dialog", shown.pins) BY <2>1 DEF TypeOK, Careful, PageShows
    <2>3. PageShows' BY <1>1, <2>2 DEF OpenPicker, Careful, PageShows, Fresh, Rest
    <2> QED BY <1>1, <2>1, <2>3, ElsewhereCareful DEF OpenPicker
  <1>2. ASSUME NEW op \in Requests, Request(op) PROVE Careful'
    <2>1. page = "loading" => op # "refresh" BY <1>2 DEF Request
    <2>2. page = "loading" => Boots'
      BY <1>2, <2>1 DEF Request, Sends, Careful, Boots, Saving, Fresh, Rest
    <2>3. PageShows' BY <1>2 DEF Request, Sends, Careful, PageShows, Fresh, Rest
    <2> QED BY <1>2, <2>2, <2>3, ElsewhereCareful DEF Request
  <1>3. ASSUME NEW op \in Requests, Returned(op) PROVE Careful'
    <2>1. CASE op = "refresh" /\ page = "loading"
      <3>1. Boots /\ boot.at = "wait"
        BY <1>3, <2>1 DEF Returned, Careful, Boots
      <3>2. Rest(boot.form) /\ Fresh("dialog", boot.form.pins) BY <3>1 DEF Boots
      <3>3. picker' = Nil BY <1>3, <2>1 DEF Returned, Careful, PageShows
      <3>4. page' = "open" /\ shown' = boot.form BY <1>3, <2>1 DEF Returned
      <3>5. PageShows' BY <1>3, <3>2, <3>3, <3>4 DEF Returned, PageShows, Fresh, Rest
      <3> QED BY <1>3, <3>4, <3>5, ElsewhereCareful DEF Returned
    <2>2. CASE ~(op = "refresh" /\ page = "loading")
      <3>1. PageShows' BY <1>3, <2>2 DEF Returned, Careful, PageShows, Fresh, Rest
      <3>2. page' = "loading" => Boots'
        BY <1>3, <2>2 DEF Returned, Careful, Boots, Saving, Fresh, Rest
      <3> QED BY <1>3, <3>1, <3>2, ElsewhereCareful DEF Returned
    <2> QED BY <2>1, <2>2
  <1>4. CASE ClosePicker
    <2>1. PageShows' /\ (page' = "loading" => Boots')
      BY <1>4 DEF ClosePicker, Careful, PageShows, Boots, Saving, Fresh, Rest
    <2> QED BY <1>4, <2>1, ElsewhereCareful DEF ClosePicker
  <1>5. CASE Close
    <2>1. PICK lost \in SUBSET {k \in Chains : chain[k].at = "save"} :
            /\ chain' = [k \in Chains |-> IF k \in lost THEN Idle ELSE chain[k]]
            /\ hasty' = IF timer # Nil \/ lost # {} THEN hasty \cup {"closed"} ELSE hasty
      BY <1>5 DEF Close
    <2>2. timer = Nil /\ lost = {} BY <2>1
    <2>3. chain' = chain BY <2>1, <2>2 DEF TypeOK
    <2>4. PageShows' /\ page' # "loading" BY <1>5 DEF Close, PageShows
    <2> QED BY <1>5, <2>2, <2>3, <2>4, ElsewhereCareful DEF Close
  <1>6. CASE BootGet
    <2>1. /\ page = "loading" /\ boot' = [at |-> "refresh", form |-> stored]
          /\ behind' = IF Storing THEN behind ELSE behind \ {"dialog"}
          /\ UNCHANGED <<stored, page, picker, shown, timer, chain, chat, calls, wish>>
      BY <1>6 DEF BootGet
    <2>2. Boots /\ boot.at = "get" BY <1>6, <2>1 DEF BootGet, Careful
    <2>3. ~Storing => stored = wish BY <2>2 DEF Boots, Careful, Quiet
    <2>4. Rest(stored)
      <3>1. ASSUME NEW c \in Chats, chat[c].due # Nil PROVE Rest(stored)
        BY <3>1 DEF Careful, ChatShows
      <3> QED BY <2>3, <3>1 DEF Rest, Storing
    <2>5. "dialog" \notin behind' => stored.pins = wish.pins
      BY <2>1, <2>2, <2>3 DEF Boots, Fresh
    <2>6. Boots' BY <2>1, <2>2, <2>4, <2>5 DEF BootGet, Boots, Saving, Fresh, Rest
    <2>7. PageShows' BY <2>1 DEF Careful, PageShows
    <2>8. ASSUME NEW c \in Chats PROVE ChatShows(c)'
      <3>1. c \notin behind' => c \notin behind
        BY <2>1, SettingsAssumption
      <3> QED BY <2>1, <3>1 DEF Careful, ChatShows, Fresh, Rest, Saving
    <2> QED BY <2>1, <2>6, <2>7, <2>8 DEF Careful, FormAt, Quiet, Saving, Storing
  <1>7. CASE BootRefresh
    <2>1. boot'.at = "wait" /\ boot'.form = boot.form
      BY <1>7 DEF BootRefresh, TypeOK
    <2>2. Boots' BY <1>7, <2>1 DEF BootRefresh, Sends, Careful, Boots, Saving, Fresh, Rest
    <2>3. PageShows' BY <1>7 DEF BootRefresh, Sends, Careful, PageShows
    <2> QED BY <1>7, <2>2, <2>3, ElsewhereCareful DEF BootRefresh, Sends
  <1> QED BY <1>1, <1>2, <1>3, <1>4, <1>5, <1>6, <1>7

LEMMA HostCareful ==
  ASSUME TypeOK, Alone, Careful, hasty' = {}, NEW k \in Chains,
         \/ HostReads(k) \/ HostWritesDefault(k) \/ HostWritesRest(k) \/ HostStops(k)
         \/ HostGets(k) \/ GetAnswered(k) \/ SaveFails(k) \/ GetFails(k)
  PROVE  Careful'
  <1> DEFINE Others == \A l \in Chains \ {k} : chain[l].at = "idle" /\ chain'[l].at = "idle"
  <1>0. chain[k] \in Saves /\ stored \in Forms /\ wish \in Forms /\ shown \in Forms
    BY DEF TypeOK, Saves, Places
  <1>1. chain[k].at # "idle" /\ UNCHANGED <<page, timer, picker, chat, wish, behind>>
    BY DEF HostReads, HostWritesDefault, HostWritesRest, HostStops, HostGets, GetAnswered,
           SaveFails, GetFails
  <1>2. timer = Nil /\ page # "loading" /\ ~Storing
    BY <1>1 DEF Careful, Boots, Saving, Alone, ChatShows, Storing
  <1>3. FormAt(k) BY DEF Careful
  <1>4. ASSUME \A l \in Chains : FormAt(l)', PageShows', Saving' \/ stored' = wish,
               stored'.pins = stored.pins \/ stored' = wish
        PROVE  Careful'
    <2>1. ASSUME NEW c \in Chats PROVE ChatShows(c)'
      BY <1>1, <1>2, <1>4 DEF Careful, ChatShows, Fresh, Storing
    <2> QED BY <1>1, <1>2, <1>4, <2>1 DEF Careful, Quiet
  <1>5. ASSUME shown' = shown \/ shown' = wish PROVE PageShows'
    BY <1>1, <1>5 DEF Careful, PageShows, Fresh, Rest
  <1>6. ASSUME Others, FormAt(k)' PROVE \A l \in Chains : FormAt(l)'
    BY <1>6 DEF FormAt
  <1>7. CASE HostReads(k)
    <2> DEFINE c == [chain[k] EXCEPT !.at = "read", !.prev = stored.default]
    <2>1. chain' = [chain EXCEPT ![k] = c] BY <1>7 DEF HostReads, TypeOK
    <2>2. Others /\ chain'[k] = c
      BY <1>1, <2>1, MovesAlone
    <2>3. chain[k].at = "save" BY <1>7 DEF HostReads
    <2>4. chain'[k].at = "read" /\ chain'[k].form = wish
      BY <1>0, <1>3, <2>2, <2>3 DEF FormAt, Saves
    <2>5. FormAt(k)' /\ Saving' BY <1>1, <2>4 DEF FormAt, Saving
    <2> QED BY <1>4, <1>5, <1>6, <1>7, <2>2, <2>5 DEF HostReads
  <1>8. CASE HostWritesDefault(k)
    <2> DEFINE c == [chain[k] EXCEPT !.at = "half"]
    <2>1. chain' = [chain EXCEPT ![k] = c] BY <1>8 DEF HostWritesDefault, TypeOK
    <2>2. Others /\ chain'[k] = c
      BY <1>1, <2>1, MovesAlone
    <2>3. chain[k].at = "read" /\ stored' = [stored EXCEPT !.default = chain[k].form.default]
      BY <1>8 DEF HostWritesDefault
    <2>4. chain'[k].at = "half" /\ chain'[k].form = wish
      BY <1>0, <1>3, <2>2, <2>3 DEF FormAt, Saves
    <2>5. stored'.default = wish.default /\ stored'.pins = stored.pins
      BY <1>0, <1>3, <2>3 DEF FormAt, Forms
    <2>6. FormAt(k)' /\ Saving' BY <1>1, <2>4, <2>5 DEF FormAt, Saving
    <2> QED BY <1>4, <1>5, <1>6, <1>8, <2>2, <2>5, <2>6 DEF HostWritesDefault
  <1>9. CASE HostWritesRest(k)
    <2> DEFINE c == IF stored.default = chain[k].prev THEN [chain[k] EXCEPT !.at = "saved"]
                    ELSE [chain[k] EXCEPT !.at = "stopping", !.left = Projects]
    <2>1. chain' = [chain EXCEPT ![k] = c] BY <1>9 DEF HostWritesRest, TypeOK
    <2>2. c.at \in {"saved", "stopping"} BY <1>0 DEF Saves
    <2> HIDE DEF c
    <2>3. Others /\ chain'[k] = c
      BY <1>1, <2>1, MovesAlone
    <2>4. chain[k].form = wish /\ stored.default = wish.default
      BY <1>3, <1>9 DEF HostWritesRest, FormAt
    <2>5. stored' = [wish EXCEPT !.default = wish.default]
      BY <1>9, <2>4 DEF HostWritesRest, Written
    <2>6. stored' = wish BY <1>0, <2>5 DEF Forms
    <2>7. FormAt(k)' /\ Saving' BY <1>1, <2>2, <2>3, <2>6 DEF FormAt, Saving
    <2> QED BY <1>4, <1>5, <1>6, <1>9, <2>3, <2>6, <2>7 DEF HostWritesRest
  <1>10. CASE HostStops(k)
    <2>1. PICK q \in chain[k].left :
            chain' = [chain EXCEPT ![k].left = chain[k].left \ {q},
                 ![k].at = IF chain[k].left \ {q} = {} THEN "saved" ELSE "stopping"]
      BY <1>10 DEF HostStops
    <2> DEFINE c == [chain[k] EXCEPT !.left = chain[k].left \ {q},
                 !.at = IF chain[k].left \ {q} = {} THEN "saved" ELSE "stopping"]
    <2>2. chain' = [chain EXCEPT ![k] = c]
      BY <2>1 DEF TypeOK
    <2>3. c.at \in {"saved", "stopping"} BY <1>0 DEF Saves
    <2> HIDE DEF c
    <2>4. Others /\ chain'[k] = c
      BY <1>1, <2>2, MovesAlone
    <2>5. stored = wish /\ stored' = stored /\ shown' = shown
      BY <1>3, <1>10 DEF HostStops, FormAt
    <2>6. FormAt(k)' /\ Saving' BY <1>1, <2>3, <2>4, <2>5 DEF FormAt, Saving
    <2> QED BY <1>4, <1>5, <1>6, <2>4, <2>5, <2>6
  <1>11. CASE HostGets(k)
    <2> DEFINE c == IF page = "closed" THEN Idle ELSE [chain[k] EXCEPT !.at = "got", !.form = stored]
    <2>1. chain' = [chain EXCEPT ![k] = c] /\ UNCHANGED <<stored, shown>> /\ stored = wish
      BY <1>3, <1>11 DEF HostGets, TypeOK, FormAt
    <2>2. c.at = "idle" \/ (c.at = "got" /\ c.form = stored) BY <1>0 DEF Saves, Idle
    <2> HIDE DEF c
    <2>3. Others /\ chain'[k] = c
      BY <1>1, <2>1, MovesAlone
    <2>4. FormAt(k)' BY <1>1, <2>1, <2>2, <2>3 DEF FormAt
    <2> QED BY <1>4, <1>5, <1>6, <2>1, <2>3, <2>4
  <1>12. CASE GetAnswered(k)
    <2>1. /\ chain' = [chain EXCEPT ![k] = Idle] /\ stored' = stored /\ stored = wish
          /\ shown' = IF page = "closed" THEN shown ELSE wish
      BY <1>3, <1>12 DEF GetAnswered, FormAt
    <2>2. Others /\ chain'[k] = Idle
      BY <1>1, <2>1, MovesAlone
    <2>3. FormAt(k)' BY <2>2 DEF FormAt, Idle
    <2> QED BY <1>4, <1>5, <1>6, <2>1, <2>2, <2>3
  <1>13. CASE SaveFails(k) \/ GetFails(k)
    <2>1. GetFails(k) BY <1>13 DEF SaveFails
    <2>2. /\ chain' = [chain EXCEPT ![k] = Idle] /\ UNCHANGED <<stored, shown>> /\ stored = wish
      BY <1>3, <2>1 DEF GetFails, FormAt
    <2>3. Others /\ chain'[k] = Idle
      BY <1>1, <2>2, MovesAlone
    <2>4. FormAt(k)' BY <2>3 DEF FormAt, Idle
    <2> QED BY <1>4, <1>5, <1>6, <2>2, <2>3, <2>4
  <1> QED BY <1>7, <1>8, <1>9, <1>10, <1>11, <1>12, <1>13

\* A chat page's steps leave the dialog, its saves and the agents alone.
LEMMA ChatElsewhere ==
  ASSUME NEW c \in Chats, ChatSteps(c)
  PROVE  /\ UNCHANGED <<page, shown, boot, timer, picker, chain, calls, busy, agent>>
         /\ stored' = stored \/ ChatStored(c)
  BY DEF ChatSteps, ChatLoads, ChatPicks, ChatStars, ChatSaves, ChatStored, ChatSaveFails

LEMMA ChatCareful ==
  ASSUME TypeOK, Careful, hasty' = {}, NEW c \in Chats, ChatSteps(c)
  PROVE  Careful'
  <1>0. /\ chat[c] \in ChatCopies /\ chat \in [Chats -> ChatCopies]
        /\ stored \in Forms /\ wish \in Forms /\ shown \in Forms /\ boot.form \in Forms
    BY DEF TypeOK, ChatCopies
  <1>1. UNCHANGED <<page, shown, boot, timer, picker, chain, calls, busy, agent>>
    BY ChatElsewhere
  <1>2. Saving' = Saving BY <1>1 DEF Saving
  <1>3. CASE ChatLoads(c)
    <2>1. /\ UNCHANGED <<stored, wish>> /\ chat[c].at = "loading"
          /\ \/ /\ chat' = [chat EXCEPT ![c].at = "open", ![c].pins = stored.pins]
                /\ behind' = IF timer = Nil /\ ~Saving /\ ~Storing THEN behind \ {c} ELSE behind
             \/ /\ chat' = [chat EXCEPT ![c].at = "open"]
                /\ behind' = behind \cup {c}
      BY <1>3 DEF ChatLoads
    <2>2. "dialog" \in behind' <=> "dialog" \in behind
      BY <2>1, SettingsAssumption
    <2>3. \A d \in Chats : chat'[d].due = chat[d].due /\ (d # c => chat'[d] = chat[d])
      BY <1>0, <2>1 DEF ChatCopies
    <2>4. ASSUME NEW d \in Chats \ {c} PROVE ChatShows(d)'
      BY <1>1, <1>2, <2>1, <2>3 DEF Careful, ChatShows, Fresh, Rest
    <2>5. ChatShows(c)'
      <3>1. chat'[c].at = "open" BY <1>0, <2>1 DEF ChatCopies
      <3>2. c \notin behind' => chat'[c].pins = stored.pins BY <1>0, <2>1 DEF ChatCopies
      <3>3. c \notin behind' => stored.pins = wish.pins
        BY <2>1 DEF Careful, ChatShows, Fresh, Quiet
      <3> QED BY <1>1, <1>2, <2>1, <2>3, <3>1, <3>2, <3>3 DEF Careful, ChatShows, Fresh, Rest
    <2>6. PageShows' /\ (page' = "loading" => Boots')
      BY <1>1, <1>2, <2>1, <2>2 DEF Careful, PageShows, Boots, Fresh, Rest
    <2>7. Storing' = Storing BY <2>3 DEF Storing
    <2> QED BY <1>1, <1>2, <2>1, <2>4, <2>5, <2>6, <2>7 DEF Careful, FormAt, Quiet
  <1>4. ASSUME NEW P \in SUBSET Models, ChatSaves(c, P), wish'.pins = P, Rest(wish)',
               [wish EXCEPT !.pins = P] = wish',
               \A w \in Pages \ behind' : w = c \/ (w \notin behind /\ wish'.pins = wish.pins)
        PROVE  Careful'
    <2>1. /\ chat' = [chat EXCEPT ![c].pins = P, ![c].due = P] /\ chat[c].at = "open"
          /\ timer = Nil /\ ~Saving /\ ~Storing /\ stored' = stored
      BY <1>4 DEF ChatSaves
    <2>2. stored = wish BY <2>1 DEF Careful, Quiet
    <2>3. Storing'
      <3>1. chat'[c].due = P /\ P # Nil BY <1>0, <1>4, <2>1, SettingsAssumption DEF ChatCopies
      <3> QED BY <3>1 DEF Storing
    <2>4. \A f \in Forms : Rest(f) => Rest(f)'
      BY <1>0, <1>4 DEF Rest, Forms
    <2>5. \A d \in Chats \ {c} : chat'[d] = chat[d] /\ chat'[d].due = Nil
      BY <1>0, <2>1 DEF Storing, ChatCopies
    <2>6. ASSUME NEW d \in Chats \ {c} PROVE ChatShows(d)'
      BY <1>4, <2>1, <2>5 DEF Careful, ChatShows, Fresh, Pages
    <2>7. ChatShows(c)'
      <3>1. chat'[c].at = "open" /\ chat'[c].pins = P /\ chat'[c].due = P
        BY <1>0, <2>1 DEF ChatCopies
      <3>2. Rest(stored)' BY <1>0, <2>1, <2>2, <2>4 DEF Rest
      <3> QED BY <1>1, <1>2, <1>4, <2>1, <2>5, <3>1, <3>2 DEF ChatShows, Fresh
    <2>8. "dialog" \notin behind' => "dialog" \notin behind /\ wish'.pins = wish.pins
      BY <1>4, SettingsAssumption DEF Pages
    <2>9. PageShows'
      BY <1>0, <1>1, <2>4, <2>8 DEF Careful, PageShows, Fresh, Rest
    <2>10. page' = "loading" => Boots'
      BY <1>0, <1>1, <1>2, <2>1, <2>4, <2>8 DEF Careful, Boots, Fresh, Rest
    <2>11. \A k \in Chains : FormAt(k)' BY <1>1, <2>1 DEF FormAt, Saving
    <2> QED BY <1>1, <2>1, <2>3, <2>6, <2>7, <2>9, <2>10, <2>11 DEF Careful, Quiet
  <1>5. CASE ChatPicks(c)
    <2>1. ChatSaves(c, chat[c].pins) /\ UNCHANGED <<wish, behind>> BY <1>5 DEF ChatPicks
    <2>2. chat[c].pins = wish.pins BY <2>1 DEF ChatSaves, Careful, ChatShows, Fresh
    <2>3. chat[c].pins \in SUBSET Models BY <1>0 DEF ChatCopies
    <2>4. [wish EXCEPT !.pins = wish.pins] = wish BY <1>0 DEF Forms
    <2> QED BY <1>4, <2>1, <2>2, <2>3, <2>4 DEF Rest
  <1>6. ASSUME NEW m \in Models, ChatStars(c, m) PROVE Careful'
    <2> DEFINE P == Toggled(chat[c].pins, m, m \notin chat[c].pins)
               W == Toggled(wish.pins, m, m \in P)
    <2>1. ChatSaves(c, P) /\ wish' = [wish EXCEPT !.pins = W] /\ behind' = behind \cup (Pages \ {c})
      BY <1>6 DEF ChatStars
    <2>2. chat[c].pins = wish.pins BY <2>1 DEF ChatSaves, Careful, ChatShows, Fresh
    <2>3. W = P /\ P \in SUBSET Models BY <1>0, <2>2 DEF Toggled, ChatCopies
    <2> HIDE DEF P, W
    <2>4. wish'.pins = P BY <1>0, <2>1, <2>3 DEF Forms
    <2> QED BY <1>4, <2>1, <2>3, <2>4 DEF Rest
  <1>7. CASE ChatStored(c)
    <2>1. /\ chat[c].due # Nil /\ stored' = [stored EXCEPT !.pins = chat[c].due]
          /\ chat' = [chat EXCEPT ![c].due = Nil] /\ UNCHANGED <<wish, behind>>
      BY <1>7 DEF ChatStored
    <2>2. /\ chat[c].due = wish.pins /\ Rest(stored) /\ timer = Nil /\ ~Saving
          /\ \A d \in Chats \ {c} : chat[d].due = Nil
      BY <2>1 DEF Careful, ChatShows
    <2>3. stored' = wish
      <3>1. /\ stored' \in Forms /\ stored'.pins = wish.pins
            /\ stored'.default = wish.default /\ stored'.commit = wish.commit
        BY <1>0, <2>1, <2>2 DEF Rest, Forms
      <3> QED BY <1>0, <3>1, SameForm
    <2>4. ASSUME NEW d \in Chats PROVE ChatShows(d)'
      <3>1. chat'[d].due = Nil /\ chat'[d].at = chat[d].at /\ chat'[d].pins = chat[d].pins
        BY <1>0, <2>1, <2>2 DEF ChatCopies
      <3> QED BY <2>1, <2>3, <3>1 DEF Careful, ChatShows, Fresh
    <2>5. PageShows' BY <1>1, <2>1 DEF Careful, PageShows, Fresh, Rest
    <2>6. page' = "loading" => Boots'
      BY <1>1, <1>2, <2>1, <2>3 DEF Careful, Boots, Fresh, Rest
    <2>7. \A k \in Chains : FormAt(k)' BY <1>1, <2>2 DEF FormAt, Saving
    <2> QED BY <1>1, <2>1, <2>2, <2>3, <2>4, <2>5, <2>6, <2>7 DEF Careful
  <1>8. ~ChatSaveFails(c) BY DEF ChatSaveFails
  <1> QED BY <1>3, <1>5, <1>6, <1>7, <1>8 DEF ChatSteps

LEMMA OtherCareful ==
  ASSUME TypeOK, Alone, Careful,
         TimerFires \/ \E p \in Projects : StartAgent(p) \/ AgentUp(p)
  PROVE  Careful'
  <1>1. CASE TimerFires
    <2>1. /\ timer # Nil /\ timer' = Nil /\ Save(timer)
          /\ UNCHANGED <<stored, page, shown, picker, chat, wish, behind>>
      BY <1>1 DEF TimerFires
    <2>2. timer = wish /\ ~Saving /\ page # "loading"
      BY <2>1 DEF Careful, Alone, Boots
    <2>3. PICK k \in Chains :
            chain' = [chain EXCEPT ![k] = [Idle EXCEPT !.at = "save", !.form = timer]]
      BY <2>1 DEF Save
    <2>4. /\ chain'[k].at = "save" /\ chain'[k].form = wish'
          /\ \A l \in Chains \ {k} : chain'[l].at = "idle"
      BY <2>1, <2>2, <2>3 DEF Saving, Idle, TypeOK
    <2>5. (\A l \in Chains : FormAt(l)') /\ Saving' BY <2>4 DEF FormAt, Saving
    <2>6. \A c \in Chats : ChatShows(c)'
      BY <2>1 DEF Careful, ChatShows, Fresh
    <2>7. PageShows' BY <2>1 DEF Careful, PageShows, Fresh, Rest
    <2> QED BY <2>1, <2>2, <2>5, <2>6, <2>7 DEF Careful, Quiet
  <1>2. ASSUME NEW p \in Projects, StartAgent(p) \/ AgentUp(p) PROVE Careful'
    <2>1. UNCHANGED <<stored, page, shown, boot, timer, picker, chain, calls, chat, wish, behind>>
      BY <1>2 DEF StartAgent, AgentUp
    <2>2. PageShows' /\ (page' = "loading" => Boots')
      BY <2>1 DEF Careful, PageShows, Boots, Saving, Fresh, Rest
    <2> QED BY <2>1, <2>2, ElsewhereCareful
  <1> QED BY <1>1, <1>2

-----------------------------------------------------------------------------
(* The invariant. *)

LEMMA InitSInv == Init => SInv
  <1> SUFFICES ASSUME Init PROVE SInv
    OBVIOUS
  <1>1. stored \in Forms /\ Empty \in Forms
    BY SettingsAssumption DEF Init, Forms, Empty
  <1>2. \A k \in Chains : chain[k] = Idle /\ chain[k].at = "idle"
    BY DEF Init, Idle
  <1>3. chain \in [Chains -> Saves]
    BY <1>1 DEF Init, Idle, Saves, Places
  <1>4. TypeOK
    BY <1>1, <1>3, SettingsAssumption DEF Init, TypeOK, Saves, Places, Off, Pages
  <1>5. Alone /\ AgentsKnown
    BY <1>2 DEF Init, Alone, AgentsKnown, Off
  <1>6. Careful
    BY <1>2 DEF Init, Careful, FormAt, Quiet, Saving, PageShows, Boots, ChatShows, Fresh, Rest
  <1> QED BY <1>4, <1>5, <1>6 DEF SInv

LEMMA NextTypes == TypeOK /\ [Next]_vars => TypeOK'
  <1> SUFFICES ASSUME TypeOK, [Next]_vars PROVE TypeOK'
    OBVIOUS
  <1>1. CASE UNCHANGED vars BY <1>1 DEF vars, TypeOK
  <1>2. CASE Next
    BY <1>2, UserTypes, PageTypes, OtherTypes, HostTypes, ChatTypes DEF Next, ChatSteps
  <1> QED BY <1>1, <1>2

\* The user's haste is remembered.
LEMMA Remembered == [Next]_vars => hasty \subseteq hasty'
  <1> SUFFICES ASSUME [Next]_vars PROVE hasty \subseteq hasty'
    OBVIOUS
  <1>1. ASSUME NEW v \in Models, EditCommit(v) \/ Select(v) \/ TogglePin(v)
        PROVE  hasty \subseteq hasty'
    <2>1. ASSUME NEW on, NEW f, Edit(on, f) PROVE hasty \subseteq hasty'
      BY <2>1 DEF Edit
    <2> QED BY <1>1, <2>1 DEF EditCommit, Select, TogglePin
  <1>2. CASE \/ \E on \in {"providers", "commit"} : OpenPicker(on)
             \/ \E op \in Requests : Request(op) \/ Returned(op)
             \/ ClosePicker \/ Close \/ BootGet \/ BootRefresh \/ TimerFires
    BY <1>2 DEF OpenPicker, Request, Returned, ClosePicker, Close, BootGet, BootRefresh, TimerFires
  <1>3. ASSUME NEW p \in Projects, StartAgent(p) \/ AgentUp(p) PROVE hasty \subseteq hasty'
    BY <1>3 DEF StartAgent, AgentUp
  <1>4. ASSUME NEW k \in Chains,
               \/ HostReads(k) \/ HostWritesDefault(k) \/ HostWritesRest(k) \/ HostStops(k)
               \/ HostGets(k) \/ GetAnswered(k) \/ SaveFails(k) \/ GetFails(k)
        PROVE  hasty \subseteq hasty'
    BY <1>4 DEF HostReads, HostWritesDefault, HostWritesRest, HostStops, HostGets, GetAnswered,
                SaveFails, GetFails
  <1>5. CASE UNCHANGED vars BY <1>5 DEF vars
  <1>6. ASSUME NEW c \in Chats, ChatSteps(c) PROVE hasty \subseteq hasty'
    BY <1>6 DEF ChatSteps, ChatLoads, ChatPicks, ChatStars, ChatSaves, ChatStored, ChatSaveFails
  <1> QED BY <1>1, <1>2, <1>3, <1>4, <1>5, <1>6 DEF Next, ChatSteps

LEMMA UserAgents ==
  ASSUME TypeOK, Alone, AgentsKnown, "overlap" \notin hasty',
         NEW v \in Models, EditCommit(v) \/ Select(v) \/ TogglePin(v)
  PROVE  Alone' /\ AgentsKnown'
  <1>1. ASSUME NEW on, NEW f, Edit(on, f) PROVE Alone' /\ AgentsKnown'
    <2>1. ~Saving /\ (on = "providers" => timer = Nil) /\ UNCHANGED <<stored, agent>>
      BY <1>1 DEF Edit
    <2>2. CASE on = "providers"
      BY <1>1, <2>1, <2>2, SaveAgents DEF Edit
    <2>3. CASE on # "providers"
      BY <1>1, <2>1, <2>3, ElsewhereAgents DEF Edit
    <2> QED BY <2>2, <2>3
  <1> QED BY <1>1 DEF EditCommit, Select, TogglePin

LEMMA NextAgents ==
  ASSUME TypeOK, Alone, AgentsKnown, "overlap" \notin hasty', [Next]_vars
  PROVE  Alone' /\ AgentsKnown'
  <1>1. CASE \/ \E on \in {"providers", "commit"} : OpenPicker(on)
             \/ \E op \in Requests : Request(op) \/ Returned(op)
             \/ ClosePicker \/ BootGet \/ BootRefresh
    <2>1. UNCHANGED <<stored, chain, agent, timer>>
      BY <1>1 DEF OpenPicker, Request, Returned, ClosePicker, BootGet, BootRefresh
    <2> QED BY <2>1, ElsewhereAgents
  <1>2. CASE Close
    <2>1. UNCHANGED <<stored, agent>> /\ timer' = Nil BY <1>2 DEF Close
    <2>2. \A k \in Chains : chain'[k] = chain[k] \/ (chain[k].at = "save" /\ chain'[k].at = "idle")
      BY <1>2 DEF Close, Idle
    <2> QED BY <2>1, <2>2, ElsewhereAgents
  <1>3. CASE TimerFires
    BY <1>3, SaveAgents DEF TimerFires, Alone
  <1>4. CASE UNCHANGED vars
    BY <1>4, ElsewhereAgents DEF vars
  <1>5. ASSUME NEW c \in Chats, ChatSteps(c) PROVE Alone' /\ AgentsKnown'
    <2>1. UNCHANGED <<timer, chain, agent>> BY <1>5, ChatElsewhere
    <2>2. stored'.default = stored.default
      BY <1>5, ChatElsewhere DEF ChatStored, TypeOK, Forms
    <2> QED BY <2>1, <2>2, ElsewhereAgents
  <1> QED BY <1>1, <1>2, <1>3, <1>4, <1>5, UserAgents, HostAgents, StartAgents DEF Next, ChatSteps

LEMMA NextCareful ==
  ASSUME TypeOK, Alone, Careful, hasty' = {}, [Next]_vars
  PROVE  Careful'
  <1>1. CASE UNCHANGED vars
    <2>1. PageShows' /\ (page' = "loading" => Boots')
      BY <1>1 DEF vars, Careful, PageShows, Boots, Saving, Fresh, Rest
    <2> QED BY <1>1, <2>1, ElsewhereCareful DEF vars
  <1> QED BY <1>1, UserCareful, PageCareful, HostCareful, OtherCareful, ChatCareful DEF Next, ChatSteps

LEMMA NextSInv == SInv /\ [Next]_vars => SInv'
  <1> SUFFICES ASSUME SInv, [Next]_vars PROVE SInv'
    OBVIOUS
  <1>1. TypeOK /\ TypeOK' BY NextTypes DEF SInv
  <1>2. hasty \subseteq hasty' BY Remembered
  <1>3. ASSUME "overlap" \notin hasty' PROVE Alone' /\ AgentsKnown'
    BY <1>1, <1>2, <1>3, NextAgents DEF SInv
  <1>4. ASSUME hasty' = {} PROVE Careful'
    BY <1>1, <1>2, <1>4, NextCareful DEF SInv
  <1> QED BY <1>1, <1>3, <1>4 DEF SInv

\* What saveIdeSettings has done of a save, and what the page and the agents know
\* of it, at every place of the save (SettingsUi2Host.kt:75-110).
THEOREM SettingsInvariant == Spec => []SInv
  BY InitSInv, NextSInv, PTL DEF Spec

\* Type correctness of the settings.
THEOREM SettingsTypes == Spec => []TypeOK
  <1>1. SInv => TypeOK BY DEF SInv
  <1> QED BY <1>1, SettingsInvariant, PTL

\* While no save is stopping them, the agents that run have the default model that
\* is stored, for any number of projects (SettingsUi2Host.kt:79-92).
THEOREM AgentsCurrentHolds == Spec => []AgentsCurrent
  <1>1. SInv => AgentsCurrent
    BY DEF SInv, AgentsCurrent, AgentsKnown, AgentKnown, Between
  <1> QED BY <1>1, SettingsInvariant, PTL

\* For any number of chat pages beside the dialog, a careful edit is stored as it was
\* made and shown where no star has passed by (SettingsShell.tsx:138-151,
\* App.tsx:788-809).
THEOREM CarefulEditsStoredHolds == Spec => []CarefulEditsStored
  <1>1. ASSUME SInv PROVE CarefulEditsStored
    <2> SUFFICES ASSUME hasty = {}, Quiet
                 PROVE  /\ stored = wish
                        /\ page = "open" => /\ [shown EXCEPT !.pins = stored.pins] = stored
                                            /\ "dialog" \notin behind => shown = stored
                        /\ \A c \in Chats \ behind : chat[c].at = "open" => chat[c].pins = stored.pins
      BY DEF CarefulEditsStored
    <2>1. Careful /\ stored = wish /\ shown \in Forms /\ wish \in Forms
      BY <1>1 DEF SInv, Careful, TypeOK
    <2>2. ASSUME page = "open" PROVE [shown EXCEPT !.pins = wish.pins] = wish
      BY <2>1, <2>2 DEF Careful, PageShows, Rest, Forms
    <2>3. ASSUME page = "open", "dialog" \notin behind PROVE shown = wish
      BY <2>1, <2>3, SameForm DEF Careful, PageShows, Rest, Fresh
    <2>4. ASSUME NEW c \in Chats \ behind, chat[c].at = "open" PROVE chat[c].pins = wish.pins
      BY <2>1, <2>4 DEF Careful, ChatShows, Fresh
    <2> QED BY <2>1, <2>2, <2>3, <2>4
  <1> QED BY <1>1, SettingsInvariant, PTL
=============================================================================
