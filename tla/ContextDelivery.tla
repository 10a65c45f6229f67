--------------------------- MODULE ContextDelivery ---------------------------
(***************************************************************************)
(* ChatContextDeliveryService (plugin, chat/ChatContextDeliveryService.kt) *)
(* between the editor, which offers contexts, and the JCEF page, which     *)
(* consumes them by the reverse RPC addChatContexts.                       *)
(*                                                                         *)
(* offer, bind and retry launch a coroutine each on Dispatchers.IO; the    *)
(* coroutines interleave at the mutex and at the RPC.  A call to a page    *)
(* that does not listen yet is lost and fails by its timeout (30 s), while *)
(* the page may load and report ready.  The answer of a page that listens   *)
(* may come too late as well, and what is shown is then offered again.     *)
(*                                                                         *)
(* dispose() is not modelled: it ends everything with the project.         *)
(***************************************************************************)
EXTENDS Naturals, Sequences

CONSTANTS Items,  \* offers of the editor: a session id and its contexts
          Jobs,   \* coroutines that may be alive at the same time
          NoItem  \* a coroutine without one

ASSUME DeliveryAssumption == NoItem \notin Items

VARIABLES
    bound,    \* is `consumer` set?
    pending,  \* the ArrayDeque
    job,      \* the coroutines, and the item each has in its hands
    page,     \* the page: "loading", "listening" (its RPC peer is there), "ready"
    offered,  \* items of the offer calls so far
    shown,    \* items that the page has appended
    late      \* (history) those of them that its answer came too late for

deliveryVars == <<bound, pending, job, page, offered, shown, late>>

-----------------------------------------------------------------------------
NoJob == [at |-> "none", item |-> NoItem]

InLine == {pending[i] : i \in DOMAIN pending}

InHands == {job[j].item : j \in Jobs} \ {NoItem}

DeliveryTypeOK ==
    /\ bound \in BOOLEAN
    /\ pending \in Seq(Items)
    /\ job \in [Jobs -> [at : {"none", "adding", "flushing", "taking", "calling", "answering", "lost", "failed"},
                         item : Items \cup {NoItem}]]
    /\ page \in {"loading", "listening", "ready"}
    /\ offered \subseteq Items
    /\ shown \subseteq Items /\ late \subseteq Items

DeliveryInit ==
    /\ bound = FALSE
    /\ pending = <<>>
    /\ job = [j \in Jobs |-> NoJob]
    /\ page = "loading"
    /\ offered = {}
    /\ shown = {} /\ late = {}

(* scope.launch                                                            *)
Launch(j, at, item) ==
    /\ job[j] = NoJob
    /\ job' = [job EXCEPT ![j] = [at |-> at, item |-> item]]

-----------------------------------------------------------------------------
(* The tool window binds the service to its panel, whose page loads.       *)
Bind(j) ==
    /\ ~bound
    /\ bound' = TRUE
    /\ Launch(j, "flushing", NoItem)
    /\ UNCHANGED <<pending, page, offered, shown, late>>

(* offer of contexts, for a session that is active.                        *)
Offer(j, item) ==
    /\ item \notin offered
    /\ offered' = offered \cup {item}
    /\ Launch(j, "adding", item)
    /\ UNCHANGED <<bound, pending, page, shown, late>>

(* Mutation of Add: the coroutine adds and does not flush.                 *)
AddOnly(j) ==
    /\ job[j].at = "adding"
    /\ pending' = Append(pending, job[j].item)
    /\ job' = [job EXCEPT ![j] = NoJob]
    /\ UNCHANGED <<bound, page, offered, shown, late>>

(* Its coroutine appends under the mutex, and flushes.                     *)
Add(j) ==
    /\ job[j].at = "adding"
    /\ pending' = Append(pending, job[j].item)
    /\ job' = [job EXCEPT ![j] = [at |-> "flushing", item |-> NoItem]]
    /\ UNCHANGED <<bound, page, offered, shown, late>>

(* `consumer ?: return`                                                    *)
Flush(j) ==
    /\ job[j].at = "flushing"
    /\ job' = [job EXCEPT ![j] = IF bound THEN [at |-> "taking", item |-> NoItem] ELSE NoJob]
    /\ UNCHANGED <<bound, pending, page, offered, shown, late>>

(* removeFirstOrNull under the mutex.                                      *)
Take(j) ==
    /\ job[j].at = "taking"
    /\ IF pending = <<>>
         THEN job' = [job EXCEPT ![j] = NoJob] /\ UNCHANGED pending
         ELSE /\ job' = [job EXCEPT ![j] = [at |-> "calling", item |-> Head(pending)]]
              /\ pending' = Tail(pending)
    /\ UNCHANGED <<bound, page, offered, shown, late>>

(* The RPC: a page that listens appends the contexts, one that does not    *)
(* never learns of the call.                                               *)
CallPage(j) ==
    /\ job[j].at = "calling"
    /\ IF page = "loading"
         THEN job' = [job EXCEPT ![j].at = "lost"] /\ UNCHANGED shown
         ELSE /\ job' = [job EXCEPT ![j].at = "answering"]
              /\ shown' = shown \cup {job[j].item}
    /\ UNCHANGED <<bound, pending, page, offered, late>>

(* Its answer, and the loop of flush goes on.                              *)
PageAnswers(j) ==
    /\ job[j].at = "answering"
    /\ job' = [job EXCEPT ![j] = [at |-> "taking", item |-> NoItem]]
    /\ UNCHANGED <<bound, pending, page, offered, shown, late>>

(* The timeout, of a call that was lost or of one whose answer is not here.*)
TimeOut(j) ==
    /\ job[j].at \in {"lost", "answering"}
    /\ job' = [job EXCEPT ![j].at = "failed"]
    /\ late' = IF job[j].at = "answering" THEN late \cup {job[j].item} ELSE late
    /\ UNCHANGED <<bound, pending, page, offered, shown>>

(* A mutation of PutBack: the item is forgotten.                           *)
LoseItem(j) ==
    /\ job[j].at = "failed"
    /\ job' = [job EXCEPT ![j] = NoJob]
    /\ UNCHANGED <<bound, pending, page, offered, shown, late>>

(* addFirst under the mutex, and return.                                   *)
PutBack(j) ==
    /\ job[j].at = "failed"
    /\ pending' = <<job[j].item>> \o pending
    /\ job' = [job EXCEPT ![j] = NoJob]
    /\ UNCHANGED <<bound, page, offered, shown, late>>

(* The page of the bound panel has created its RPC peer.                   *)
PageListens ==
    /\ bound
    /\ page = "loading"
    /\ page' = "listening"
    /\ UNCHANGED <<bound, pending, job, offered, shown, late>>

(* Its bootstrap calls chatUiReady, whose handler calls retry.             *)
ChatUiReady(j) ==
    /\ page = "listening"
    /\ page' = "ready"
    /\ Launch(j, "flushing", NoItem)
    /\ UNCHANGED <<bound, pending, offered, shown, late>>

-----------------------------------------------------------------------------
JobStep(j) == Add(j) \/ Flush(j) \/ Take(j) \/ CallPage(j) \/ PageAnswers(j) \/ TimeOut(j) \/ PutBack(j)

DeliveryNext ==
    \/ \E j \in Jobs : Bind(j) \/ JobStep(j) \/ ChatUiReady(j)
    \/ \E j \in Jobs, item \in Items : Offer(j, item)
    \/ PageListens

DeliverySpec == DeliveryInit /\ [][DeliveryNext]_deliveryVars

(* Coroutines run, timeouts pass, the page of a bound panel loads and      *)
(* reports ready.  Nothing makes the user offer or open the tool window.   *)
DeliveryFairness ==
    /\ \A j \in Jobs : WF_deliveryVars(JobStep(j))
    /\ WF_deliveryVars(PageListens)
    /\ WF_deliveryVars(\E j \in Jobs : ChatUiReady(j))

DeliveryFairSpec == DeliverySpec /\ DeliveryFairness

-----------------------------------------------------------------------------
(* Nothing that was offered is lost or doubled: an item is in the queue or *)
(* in one coroutine's hands until the page has it, and after that only     *)
(* while its answer is awaited, or because the answer came too late.       *)
Conserved ==
    /\ offered \subseteq InLine \cup InHands \cup shown
    /\ \A i, k \in DOMAIN pending : pending[i] = pending[k] => i = k
    /\ \A j, k \in Jobs : job[j].item = job[k].item /\ job[j].item # NoItem => j = k
    /\ InLine \cap InHands = {}
    /\ InLine \cap shown \subseteq late
    /\ \A j \in Jobs : job[j].item \in shown \ late => job[j].at = "answering"

(* What is offered to a page that is ready is shown, even when the         *)
(* coroutine of an earlier item still waits for its timeout, as long as    *)
(* the page answers in time.                                               *)
ReadyOffersShown ==
    \A item \in Items :
        (page = "ready" /\ \E j \in Jobs : job[j] = [at |-> "adding", item |-> item])
            ~> item \in shown \/ late # {}

(* The service "queues editor/drag contexts until the JCEF page has        *)
(* installed its reverse-RPC consumer": what was offered before the panel  *)
(* was bound reaches the page after all.                                   *)
QueuedUntilReady ==
    \A item \in Items : (item \in offered /\ bound) ~> item \in shown

=============================================================================
