------------------------------ MODULE Settings ------------------------------
(***************************************************************************)
(* The settings panel: its page (SettingsShell, ProvidersPage,             *)
(* CommitMessagePage, ModelPicker), the host that stores the IDE settings  *)
(* (SettingsUi2Host), the projects' agents, which the host stops when the  *)
(* default model changes, and the projects' chat pages (App), whose model  *)
(* pickers store the pins too.                                             *)
(*                                                                         *)
(* The page replaces the settings as a whole: an edit is applied to what   *)
(* the page shows, saved at once or 300 ms later, and what the host then   *)
(* stores is fetched and shown.  A chat page replaces the pins as a whole, *)
(* from a copy it fetched once.  RPCs are handled by threads of their own: *)
(* in any order, beside each other, and answered in any order.  What the   *)
(* agent does with the page's provider requests is in ProviderConfig; here *)
(* a request is under way until it is answered.  The models last used,     *)
(* stored beside the pins, are in ModelPicker.                             *)
(***************************************************************************)
EXTENDS Naturals

CONSTANTS
  Models,    \* values of the default model, of the commit form, and of pins
  Default,   \* the default model stored at first
  Pinned,    \* the pins stored at first
  Projects,  \* open projects, one agent each
  Chats,     \* their chat pages
  Chains,    \* bound: saves the page has under way at once
  MaxActs,   \* bound: what the user does
  Nil        \* no model, no timer, no picker

VARIABLES
  stored,   \* the host's persistent settings
  page,     \* "loading", "open" or "closed"
  shown,    \* the settings the page shows
  boot,     \* how far bootstrap is, and the settings it fetched
  timer,    \* debounceSave: the settings to save, or Nil
  picker,   \* an open ModelPicker: its page and its livePinned, or Nil
  chain,    \* saveSettings: the save, and the get behind it
  calls, busy,  \* the provider requests the page awaits, and its busy flag
  agent,    \* the projects' agents
  chat,     \* the chat pages: their pins, and those being saved, or Nil
  wish,     \* (history) what the user last chose, field by field
  behind,   \* (history) the pages whose pins another page's star has passed by
  hasty,    \* (history) how a page was not given its time
  acts      \* (bound) what the user has done

vars == <<stored, page, shown, boot, timer, picker, chain, calls, busy, agent,
          chat, wish, behind, hasty, acts>>

Forms == [default: Models \cup {Nil}, commit: Models \cup {Nil}, pins: SUBSET Models]

ASSUME SettingsAssumption ==
  /\ Default \in Models /\ Pinned \subseteq Models /\ MaxActs \in Nat
  /\ Nil \notin Models \cup Forms /\ (\A pins \in SUBSET Models : Nil # pins)
  /\ "dialog" \notin Chats

(* emptySettings.                                                          *)
Empty == [default |-> Nil, commit |-> Nil, pins |-> {}]
Idle == [at |-> "idle", form |-> Empty, prev |-> Nil, left |-> {}]
Off == [at |-> "off", default |-> Nil]
Requests == {"refresh", "patch", "login"}
Pages == Chats \cup {"dialog"}

TypeOK ==
  /\ stored \in Forms /\ shown \in Forms /\ wish \in Forms
  /\ page \in {"loading", "open", "closed"}
  /\ boot \in [at: {"get", "refresh", "wait"}, form: Forms]
  /\ timer \in Forms \cup {Nil}
  /\ picker \in [on: {"providers", "commit"}, pins: SUBSET Models] \cup {Nil}
  /\ chain \in [Chains -> [at: {"idle", "save", "read", "half", "stopping", "saved", "got"},
                           form: Forms, prev: Models \cup {Nil}, left: SUBSET Projects]]
  /\ calls \subseteq Requests /\ busy \in BOOLEAN
  /\ agent \in [Projects -> [at: {"off", "starting", "on"}, default: Models \cup {Nil}]]
  /\ chat \in [Chats -> [at: {"loading", "open"}, pins: SUBSET Models,
                            due: {Nil} \cup SUBSET Models]]
  /\ behind \subseteq Pages
  /\ hasty \subseteq {"loading", "overlap", "beside", "stale", "failed", "closed"}
  /\ acts \in 0 .. MaxActs

Act == acts < MaxActs /\ acts' = acts + 1
Saving == \E k \in Chains : chain[k].at # "idle"
Storing == \E c \in Chats : chat[c].due # Nil
-----------------------------------------------------------------------------
(* Agents.  startLocked reads the default model under the mutex and starts *)
(* a process with it; a stop waits for the mutex.                          *)
StartAgent(p) ==
  /\ agent[p].at = "off"
  /\ agent' = [agent EXCEPT ![p] = [at |-> "starting", default |-> stored.default]]
  /\ UNCHANGED <<stored, page, shown, boot, timer, picker, chain, calls, busy, chat, wish, behind, hasty, acts>>
AgentUp(p) ==
  /\ agent[p].at = "starting"
  /\ agent' = [agent EXCEPT ![p].at = "on"]
  /\ UNCHANGED <<stored, page, shown, boot, timer, picker, chain, calls, busy, chat, wish, behind, hasty, acts>>

(* stopIfRunning.  A mutation: it does not take the mutex, and finds no    *)
(* process to stop.                                                        *)
StopUnlocked(p) == agent' = IF agent[p].at = "on" THEN [agent EXCEPT ![p] = Off] ELSE agent
Stop(p) ==
  /\ agent[p].at # "starting"
  /\ agent' = [agent EXCEPT ![p] = Off]
-----------------------------------------------------------------------------
(* saveSettings: the page's call, the host's handler, and the              *)
(* getIdeSettings that follows its answer.                                 *)
Save(form) ==
  \E k \in Chains : /\ chain[k].at = "idle"
                    /\ chain' = [chain EXCEPT ![k] = [Idle EXCEPT !.at = "save", !.form = form]]

(* saveIdeSettings, field by field: the previous default model is read,    *)
(* the new one written,                                                    *)
HostReads(k) ==
  /\ chain[k].at = "save"
  /\ chain' = [chain EXCEPT ![k].at = "read", ![k].prev = stored.default]
  /\ UNCHANGED <<stored, page, shown, boot, timer, picker, calls, busy, agent, chat, wish, behind, hasty, acts>>
HostWritesDefault(k) ==
  /\ chain[k].at = "read"
  /\ stored' = [stored EXCEPT !.default = chain[k].form.default]
  /\ chain' = [chain EXCEPT ![k].at = "half"]
  /\ UNCHANGED <<page, shown, boot, timer, picker, calls, busy, agent, chat, wish, behind, hasty, acts>>

(* then the rest; and the agents are stopped if the default model that is  *)
(* now stored is not the previous one.  A mutation: pins are merged.       *)
WrittenMerging(form) == [form EXCEPT !.default = stored.default, !.pins = @ \cup stored.pins]
Written(form) == [form EXCEPT !.default = stored.default]
HostWritesRest(k) ==
  /\ chain[k].at = "half"
  /\ stored' = Written(chain[k].form)
  /\ chain' = [chain EXCEPT ![k] =
       IF stored.default = chain[k].prev THEN [@ EXCEPT !.at = "saved"]
       ELSE [@ EXCEPT !.at = "stopping", !.left = Projects]]
  /\ UNCHANGED <<page, shown, boot, timer, picker, calls, busy, agent, chat, wish, behind, hasty, acts>>

(* stopAllOpenProjects, one project after the other.                       *)
HostStops(k) ==
  /\ chain[k].at = "stopping"
  /\ \E p \in chain[k].left :
       /\ Stop(p)
       /\ LET left == chain[k].left \ {p}
          IN chain' = [chain EXCEPT ![k].left = left,
                                    ![k].at = IF left = {} THEN "saved" ELSE "stopping"]
  /\ UNCHANGED <<stored, page, shown, boot, timer, picker, calls, busy, chat, wish, behind, hasty, acts>>

HostGets(k) ==
  /\ chain[k].at = "saved"
  /\ chain' = [chain EXCEPT ![k] = IF page = "closed" THEN Idle
                                   ELSE [@ EXCEPT !.at = "got", !.form = stored]]
  /\ UNCHANGED <<stored, page, shown, boot, timer, picker, calls, busy, agent, chat, wish, behind, hasty, acts>>
GetAnswered(k) ==
  /\ chain[k].at = "got"
  /\ shown' = IF page = "closed" THEN shown ELSE chain[k].form
  /\ chain' = [chain EXCEPT ![k] = Idle]
  /\ UNCHANGED <<stored, page, boot, timer, picker, calls, busy, agent, chat, wish, behind, hasty, acts>>

(* Either call may fail: the page then goes on showing what it shows.      *)
SaveFails(k) ==
  /\ chain[k].at = "save"
  /\ chain' = [chain EXCEPT ![k] = Idle]
  /\ hasty' = hasty \cup {"failed"}
  /\ UNCHANGED <<stored, page, shown, boot, timer, picker, calls, busy, agent, chat, wish, behind, acts>>
GetFails(k) ==
  /\ chain[k].at \in {"saved", "got"}
  /\ chain' = [chain EXCEPT ![k] = Idle]
  /\ UNCHANGED <<stored, page, shown, boot, timer, picker, calls, busy, agent, chat, wish, behind, hasty, acts>>
-----------------------------------------------------------------------------
(* Edits.  scheduleSave of ProvidersPage saves at once, debounceSave of    *)
(* CommitMessagePage replaces the timer.                                   *)
Edit(on, form) ==
  /\ Act
  /\ shown' = form
  /\ IF on = "providers" THEN Save(form) /\ UNCHANGED timer
     ELSE timer' = form /\ UNCHANGED chain
  /\ hasty' = hasty
       \cup (IF page = "loading" THEN {"loading"} ELSE {})
       \cup (IF Saving \/ (on = "providers" /\ timer # Nil) THEN {"overlap"} ELSE {})
       \cup (IF Storing THEN {"beside"} ELSE {})
       \cup (IF "dialog" \in behind THEN {"stale"} ELSE {})
  /\ UNCHANGED <<stored, page, boot, calls, busy, agent, chat>>

(* Language and prompt can be edited as soon as there is a page.           *)
EditCommit(v) ==
  /\ page # "closed" /\ picker = Nil
  /\ Edit("commit", [shown EXCEPT !.commit = v])
  /\ wish' = [wish EXCEPT !.commit = v]
  /\ UNCHANGED <<picker, behind>>

(* A picker captures the pins when it opens; being busy closes it.  While  *)
(* the page loads it is busy, until a patch of the user's is answered.     *)
OpenPicker(on) ==
  /\ page # "closed" /\ picker = Nil /\ ~busy /\ "login" \notin calls
  /\ picker' = [on |-> on, pins |-> shown.pins]
  /\ hasty' = IF page = "loading" THEN hasty \cup {"loading"} ELSE hasty
  /\ UNCHANGED <<stored, page, shown, boot, timer, chain, calls, busy, agent, chat, wish, behind, acts>>
ClosePicker ==
  /\ picker # Nil
  /\ picker' = Nil
  /\ UNCHANGED <<stored, page, shown, boot, timer, chain, calls, busy, agent, chat, wish, behind, hasty, acts>>

(* select: the choice and the live pins replace what is shown.             *)
Choice(v) == IF picker.on = "providers" THEN [shown EXCEPT !.default = v, !.pins = picker.pins]
             ELSE [shown EXCEPT !.commit = v, !.pins = picker.pins]
Select(v) ==
  /\ picker # Nil
  /\ Edit(picker.on, Choice(v))
  /\ wish' = IF picker.on = "providers" THEN [wish EXCEPT !.default = v]
             ELSE [wish EXCEPT !.commit = v]
  /\ picker' = Nil
  /\ UNCHANGED behind

(* togglePinned on the live list.                                          *)
Toggled(pins, m, on) == IF on THEN pins \cup {m} ELSE pins \ {m}
TogglePin(m) ==
  LET pins == Toggled(picker.pins, m, m \notin picker.pins) IN
  /\ picker # Nil
  /\ Edit(picker.on, [shown EXCEPT !.pins = pins])
  /\ wish' = [wish EXCEPT !.pins = Toggled(@, m, m \in pins)]
  /\ picker' = [picker EXCEPT !.pins = pins]
  /\ behind' = behind \cup Chats

(* The timer outlives the page of the router that set it.                  *)
TimerFires ==
  /\ timer # Nil
  /\ Save(timer)
  /\ timer' = Nil
  /\ UNCHANGED <<stored, page, shown, boot, picker, calls, busy, agent, chat, wish, behind, hasty, acts>>
-----------------------------------------------------------------------------
(* bootstrap: the settings, or empty ones when that fails; then the        *)
(* providers; only then is any of it shown.                                *)
BootGet ==
  /\ page = "loading" /\ boot.at = "get"
  /\ \/ boot' = [at |-> "refresh", form |-> stored] /\ UNCHANGED hasty
     \/ boot' = [at |-> "refresh", form |-> Empty] /\ hasty' = hasty \cup {"loading"}
  /\ behind' = IF Storing THEN behind ELSE behind \ {"dialog"}
  /\ UNCHANGED <<stored, page, shown, timer, picker, chain, calls, busy, agent, chat, wish, acts>>

Sends(op) ==
  /\ op \notin calls
  /\ calls' = calls \cup {op} /\ busy' = TRUE /\ picker' = Nil
BootRefresh ==
  /\ page = "loading" /\ boot.at = "refresh"
  /\ Sends("refresh")
  /\ boot' = [boot EXCEPT !.at = "wait"]
  /\ UNCHANGED <<stored, page, shown, timer, chain, agent, chat, wish, behind, hasty, acts>>

(* The reload button, the provider dialogs and rows; the login's dialog    *)
(* covers them.                                                            *)
Request(op) ==
  /\ "login" \notin calls /\ Act
  /\ \/ op = "refresh" /\ page = "open" /\ ~busy
     \/ op = "patch" /\ page # "closed"  \* and disconnect, for a provider shown
     \/ op = "login" /\ page = "open"
  /\ Sends(op)
  /\ UNCHANGED <<stored, page, shown, boot, timer, chain, agent, chat, wish, behind, hasty>>

(* The answer, or the host's or the page's timeout.                        *)
Returned(op) ==
  /\ op \in calls
  /\ calls' = calls \ {op} /\ busy' = FALSE
  /\ IF op = "refresh" /\ page = "loading"
     THEN page' = "open" /\ shown' = boot.form
     ELSE UNCHANGED <<page, shown>>
  /\ UNCHANGED <<stored, boot, timer, picker, chain, agent, chat, wish, behind, hasty, acts>>

(* Closing the dialog disposes the browser with everything in it, and the  *)
(* saves whose handlers have not begun: RpcSession.close cancels the jobs, *)
(* and saveIdeSettings, once begun, never suspends.                        *)
Close ==
  /\ page # "closed" /\ Act
  /\ page' = "closed" /\ timer' = Nil /\ picker' = Nil /\ calls' = {}
  /\ \E lost \in SUBSET {k \in Chains : chain[k].at = "save"} :
       /\ chain' = [k \in Chains |-> IF k \in lost THEN Idle ELSE chain[k]]
       /\ hasty' = IF timer # Nil \/ lost # {} THEN hasty \cup {"closed"} ELSE hasty
  /\ UNCHANGED <<stored, shown, boot, busy, agent, chat, wish, behind>>
-----------------------------------------------------------------------------
(* The chat pages.  loadModelPreferences, once, or no pins when it fails.  *)
ChatLoads(c) ==
  /\ chat[c].at = "loading"
  /\ \/ /\ chat' = [chat EXCEPT ![c].at = "open", ![c].pins = stored.pins]
        /\ behind' = IF timer = Nil /\ ~Saving /\ ~Storing THEN behind \ {c} ELSE behind
     \/ /\ chat' = [chat EXCEPT ![c].at = "open"]
        /\ behind' = behind \cup {c}
  /\ UNCHANGED <<stored, page, shown, boot, timer, picker, chain, calls, busy, agent, wish, hasty, acts>>

(* onChatModelChange: the page's pins are saved, whether a model was       *)
(* picked or starred.  Bound: one save of a page at a time, as the page    *)
(* itself sees to; the edits that would wait for it are left out.          *)
ChatSaves(c, pins) ==
  /\ chat[c].at = "open" /\ chat[c].due = Nil /\ Act
  /\ chat' = [chat EXCEPT ![c].pins = pins, ![c].due = pins]
  /\ hasty' = hasty
       \cup (IF timer # Nil \/ Saving \/ Storing THEN {"beside"} ELSE {})
       \cup (IF c \in behind THEN {"stale"} ELSE {})
  /\ UNCHANGED <<stored, page, shown, boot, timer, picker, chain, calls, busy, agent>>
ChatPicks(c) ==
  /\ ChatSaves(c, chat[c].pins)
  /\ UNCHANGED <<wish, behind>>
ChatStars(c, m) ==
  LET pins == Toggled(chat[c].pins, m, m \notin chat[c].pins) IN
  /\ ChatSaves(c, pins)
  /\ wish' = [wish EXCEPT !.pins = Toggled(@, m, m \in pins)]
  /\ behind' = behind \cup (Pages \ {c})

(* Its host replaces the pins, or the call fails.                          *)
ChatStored(c) ==
  /\ chat[c].due # Nil
  /\ stored' = [stored EXCEPT !.pins = chat[c].due]
  /\ chat' = [chat EXCEPT ![c].due = Nil]
  /\ UNCHANGED <<page, shown, boot, timer, picker, chain, calls, busy, agent, wish, behind, hasty, acts>>
ChatSaveFails(c) ==
  /\ chat[c].due # Nil
  /\ chat' = [chat EXCEPT ![c].due = Nil]
  /\ hasty' = hasty \cup {"failed"}
  /\ UNCHANGED <<stored, page, shown, boot, timer, picker, chain, calls, busy, agent, wish, behind, acts>>
-----------------------------------------------------------------------------
Init ==
  /\ stored = [default |-> Default, commit |-> Nil, pins |-> Pinned] /\ wish = stored
  /\ page = "loading" /\ shown = Empty /\ boot = [at |-> "get", form |-> Empty]
  /\ timer = Nil /\ picker = Nil /\ calls = {} /\ busy = TRUE
  /\ chain = [k \in Chains |-> Idle]
  /\ agent = [p \in Projects |-> Off]
  /\ chat = [c \in Chats |-> [at |-> "loading", pins |-> {}, due |-> Nil]] /\ behind = {}
  /\ hasty = {} /\ acts = 0

Next ==
  \/ \E v \in Models : EditCommit(v) \/ Select(v) \/ TogglePin(v)
  \/ \E on \in {"providers", "commit"} : OpenPicker(on)
  \/ \E op \in Requests : Request(op) \/ Returned(op)
  \/ ClosePicker \/ Close \/ BootGet \/ BootRefresh \/ TimerFires
  \/ \E p \in Projects : StartAgent(p) \/ AgentUp(p)
  \/ \E k \in Chains :
       \/ HostReads(k) \/ HostWritesDefault(k) \/ HostWritesRest(k) \/ HostStops(k)
       \/ HostGets(k) \/ GetAnswered(k) \/ SaveFails(k) \/ GetFails(k)
  \/ \E c \in Chats :
       \/ ChatLoads(c) \/ ChatPicks(c) \/ ChatStored(c) \/ ChatSaveFails(c)
       \/ \E m \in Models : ChatStars(c, m)

Spec == Init /\ [][Next]_vars
-----------------------------------------------------------------------------
(* Nothing is on its way to the host.                                      *)
Quiet == timer = Nil /\ ~Saving /\ ~Storing

(* While no save is stopping them, the agents that run were started with   *)
(* the default model that is stored, however starts and stops of several   *)
(* projects overlap, as long as no two saves of the dialog do.             *)
AgentsCurrent ==
  "overlap" \notin hasty /\ (\A k \in Chains : chain[k].at \in {"idle", "save", "read", "saved", "got"}) =>
    \A p \in Projects : agent[p].at # "off" => agent[p].default = stored.default

(* With several pages that store whole copies, a careful edit is stored as *)
(* it was made, leaves alone what it does not touch, and is shown by the   *)
(* pages that no star has passed by (SettingsShell.tsx:138-151,            *)
(* App.tsx:788-809).  Careful is an edit of a page that has loaded the     *)
(* settings and that no star on another page has passed by, made while no  *)
(* save is on its way (typing on is allowed) and none that fails, in a     *)
(* dialog that is then left open until the save has begun.                 *)
CarefulEditsStored ==
  hasty = {} /\ Quiet =>
    /\ stored = wish
    /\ page = "open" => /\ [shown EXCEPT !.pins = stored.pins] = stored
                        /\ "dialog" \notin behind => shown = stored
    /\ \A c \in Chats \ behind : chat[c].at = "open" => chat[c].pins = stored.pins
=============================================================================
