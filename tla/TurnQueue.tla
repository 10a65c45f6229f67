------------------------------ MODULE TurnQueue ------------------------------
(***************************************************************************)
(* What the chat registry promises its clients about turns, whatever the   *)
(* sessions, runtimes and connections around them do: one turn runs at a   *)
(* time, the others wait in the order they were submitted, a turn leaves   *)
(* the line only by running or by being dropped, and it never returns.     *)
(* The slot passes to the first turn of the line whose session is not gone.*)
(*                                                                         *)
(* This is the abstract specification of SerialTurnScheduler               *)
(* (vibefly-agent/src/chatScheduler.ts) as its owner uses it: drainQueue   *)
(* always follows finish, so a free slot is refilled in the same step.     *)
(***************************************************************************)
EXTENDS Naturals, Sequences

CONSTANTS Turns,  \* the turns a client may submit
          Nil     \* "no turn", not one of them

VARIABLES waiting,  \* the FIFO line of submitted turns
          running,  \* the turn that has the slot, or Nil
          over,     \* turns that finished or were dropped
          gone      \* turns whose session has been closed, by whoever owns it

tvars == <<waiting, running, over, gone>>

Line == {waiting[i] : i \in DOMAIN waiting}

Seen == Line \cup over \cup {running}

-----------------------------------------------------------------------------

Init == /\ waiting = <<>>
        /\ running = Nil
        /\ over = {}
        /\ gone = {}

(* A new turn takes the free slot, or the end of the line.                 *)
Submit(t) ==
    /\ t \notin Seen
    /\ UNCHANGED over
    /\ \/ /\ running = Nil
          /\ running' = t
          /\ UNCHANGED waiting
       \/ /\ running # Nil
          /\ waiting' = Append(waiting, t)
          /\ UNCHANGED running

(* One waiting turn is withdrawn; the others keep their order.             *)
Withdraw(i) ==
    /\ i \in DOMAIN waiting
    /\ waiting' = SubSeq(waiting, 1, i - 1) \o SubSeq(waiting, i + 1, Len(waiting))
    /\ over' = over \cup {waiting[i]}
    /\ UNCHANGED running

(* All waiting turns are dropped; the running one is not touched.          *)
Clear ==
    /\ waiting # <<>>
    /\ waiting' = <<>>
    /\ over' = over \cup Line
    /\ UNCHANGED running

(* The running turn ends and the first waiting turn whose session is not   *)
(* gone takes the slot; the ones before it are dropped.                    *)
Finish ==
    /\ running # Nil
    /\ \/ /\ Line \subseteq gone
          /\ running' = Nil
          /\ waiting' = <<>>
          /\ over' = over \cup {running} \cup Line
       \/ \E i \in DOMAIN waiting :
             LET before == {waiting[j] : j \in 1..(i - 1)}
             IN /\ waiting[i] \notin gone
                /\ before \subseteq gone
                /\ running' = waiting[i]
                /\ waiting' = SubSeq(waiting, i + 1, Len(waiting))
                /\ over' = over \cup {running} \cup before

(* Sessions come and go; the line does not follow at once.                 *)
SessionsChange == UNCHANGED <<waiting, running, over>>

Next == /\ gone' \in SUBSET Turns
        /\ \/ \E t \in Turns : Submit(t)
           \/ \E i \in DOMAIN waiting : Withdraw(i)
           \/ Clear
           \/ Finish
           \/ SessionsChange

Spec == Init /\ [][Next]_tvars

=============================================================================
