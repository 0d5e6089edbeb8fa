------------------------------ MODULE Rendezvous ------------------------------
(***************************************************************************)
(* What a sync point of heat promises the convergence engine, with no      *)
(* mention of database rows or versions: a meeting place that opens, that  *)
(* collects what each call brings in one indivisible step, that makes a    *)
(* call the notifier exactly when that call found every predecessor        *)
(* present, and that closes for good when the traversal is superseded.     *)
(***************************************************************************)
EXTENDS Naturals

CONSTANTS Keys,          \* names under which senders leave their data
          Predecessors,  \* the keys the meeting waits for
          Calls,         \* invocations of sync(), each made once
          KeyOf,         \* the sender_key each call brings
          NoCall         \* "nothing left under this key yet"

VARIABLES place,         \* "absent", "open" or "closed"
          input,         \* input[k]: the call whose data stands under key k
          over,          \* the calls that have had their effect, or none
          notifiers      \* the calls that found the set complete

rendezvousVars == <<place, input, over, notifiers>>

Nothing == [k \in Keys |-> NoCall]

Init ==
  /\ place = "absent"
  /\ input = Nothing
  /\ over = {}
  /\ notifiers = {}

Open ==
  /\ place = "absent"
  /\ place' = "open"
  /\ UNCHANGED <<input, over, notifiers>>

Complete(in) == \A p \in Predecessors : in[p] # NoCall

(* The whole of a successful call, in one step. *)
Arrive(c) ==
  /\ place = "open"
  /\ c \notin over
  /\ over' = over \cup {c}
  /\ input' = [input EXCEPT ![KeyOf[c]] = c]
  /\ notifiers' = IF Complete(input') THEN notifiers \cup {c} ELSE notifiers
  /\ UNCHANGED place

(* A call that finds no meeting place, or whose worker dies before it      *)
(* could leave anything, has no effect at all.                             *)
GiveUp(c) ==
  /\ c \notin over
  /\ over' = over \cup {c}
  /\ UNCHANGED <<place, input, notifiers>>

Close ==
  /\ place = "open"
  /\ place' = "closed"
  /\ input' = Nothing
  /\ UNCHANGED <<over, notifiers>>

Next ==
  \/ Open
  \/ Close
  \/ \E c \in Calls : Arrive(c) \/ GiveUp(c)

Spec == Init /\ [][Next]_rendezvousVars
===============================================================================
