------------------------------- MODULE SyncPoint -------------------------------
(***************************************************************************)
(* One sync point of the heat convergence engine: the row of table         *)
(* sync_point that belongs to one node of one traversal, and the calls of  *)
(* sync_point.sync() made on it by workers of any engine.  A call reads    *)
(* the row, merges what it brings into its own copy, and writes the copy   *)
(* back only if the row's atomic_key has not moved since the read; else it *)
(* starts over.  The call that finds every predecessor in what it wrote    *)
(* sends the check_resource message of the node.                           *)
(***************************************************************************)
EXTENDS Naturals

CONSTANTS Keys,          \* sender keys (resource_id, is_update)
          Predecessors,  \* argument predecessors: the graph's edges into the node
          Calls,         \* invocations of sync() on this row
          KeyOf,         \* the key of new_data in each invocation
          NoCall,        \* "this key is not in input_data"
          Mortal         \* the calls whose engine may die while they run

ASSUME KeysAssumption   == Predecessors \subseteq Keys /\ KeyOf \in [Calls -> Keys]
ASSUME CallsAssumption  == NoCall \notin Calls /\ Mortal \subseteq Calls

VARIABLES row,         \* "absent", "present" or "deleted"
          atomic_key,  \* the version column of the row
          input_data,  \* input_data[k]: the call whose data stands under key k
          pc,          \* where each call stands in sync()
          copy,        \* sync_point.atomic_key and input_data held by each call
          dead         \* the calls whose engine went away

vars == <<row, atomic_key, input_data, pc, copy, dead>>

Slot == Calls \cup {NoCall}
Data == [Keys -> Slot]

NoData == [k \in Keys |-> NoCall]

(* Seeded faults: ready on the first arrival; the sender's name stored in  *)
(* place of its data; a merge that drops what the others had brought.      *)
ReadyAny(data) == \E p \in Predecessors : data[p] # NoCall
MergeSenderKey(data, c) == [data EXCEPT ![KeyOf[c]] = KeyOf[c]]
MergeOwnOnly(data, c) == [NoData EXCEPT ![KeyOf[c]] = c]

(* waiting = predecessors - set(input_data) is empty. *)
Ready(data) == \A p \in Predecessors : data[p] # NoCall

(* input_data.update(new_data) *)
Merge(data, c) == [data EXCEPT ![KeyOf[c]] = c]

Init ==
  /\ row = "absent"
  /\ atomic_key = 0
  /\ input_data = NoData
  /\ pc = [c \in Calls |-> "get"]
  /\ copy = [c \in Calls |-> [key |-> 0, data |-> NoData]]
  /\ dead = {}

(* converge_stack makes the rows of a traversal before it triggers a leaf. *)
Create ==
  /\ row = "absent"
  /\ row' = "present"
  /\ UNCHANGED <<atomic_key, input_data, pc, copy, dead>>

(* converge_stack drops the rows of the traversal it supersedes, purge_db  *)
(* those of the traversal it ends.  What stood in the row is gone.         *)
DeleteAll ==
  /\ row = "present"
  /\ row' = "deleted"
  /\ input_data' = NoData
  /\ UNCHANGED <<atomic_key, pc, copy, dead>>

(* get() and the merge: EntityNotFound ends the call without any effect. *)
Get(c) ==
  /\ pc[c] = "get"
  /\ c \notin dead
  /\ \/ /\ row = "present"
        /\ copy' = [copy EXCEPT ![c] = [key |-> atomic_key, data |-> Merge(input_data, c)]]
        /\ pc' = [pc EXCEPT ![c] = "update"]
     \/ /\ row # "present"
        /\ pc' = [pc EXCEPT ![c] = "missing"]
        /\ UNCHANGED copy
  /\ UNCHANGED <<row, atomic_key, input_data, dead>>

(* A write that goes through: one row updated. *)
Write(c) ==
  /\ row = "present"
  /\ input_data' = copy[c].data
  /\ atomic_key' = copy[c].key + 1
  /\ pc' = [pc EXCEPT ![c] = IF Ready(copy[c].data) THEN "propagate" ELSE "waiting"]
  /\ UNCHANGED <<row, copy, dead>>

Unmoved(c) == row = "present" /\ copy[c].key = atomic_key

(* Seeded faults of Update, used by no specification: the write without    *)
(* the filter on atomic_key; the version left as it was; a retry that      *)
(* reads the version again but not the data; a retry that reads nothing.   *)
UpdateUnfiltered(c) == pc[c] = "update" /\ c \notin dead /\ Write(c)
UpdateKeepsKey(c) ==
  /\ pc[c] = "update" /\ c \notin dead /\ Unmoved(c)
  /\ input_data' = copy[c].data
  /\ pc' = [pc EXCEPT ![c] = "waiting"]
  /\ UNCHANGED <<row, atomic_key, copy, dead>>
UpdateRereadsKey(c) ==
  /\ pc[c] = "update" /\ c \notin dead
  /\ \/ Unmoved(c) /\ Write(c)
     \/ /\ row = "present" /\ ~Unmoved(c)
        /\ copy' = [copy EXCEPT ![c].key = atomic_key]
        /\ UNCHANGED <<row, atomic_key, input_data, pc, dead>>
UpdateSpins(c) ==
  /\ pc[c] = "update" /\ c \notin dead
  /\ \/ Unmoved(c) /\ Write(c)
     \/ ~Unmoved(c) /\ UNCHANGED vars

(* update_input_data(): the filter on atomic_key makes the write succeed   *)
(* on an unchanged row only; no row updated sends the call back to get().  *)
Update(c) ==
  /\ pc[c] = "update"
  /\ c \notin dead
  /\ \/ Unmoved(c) /\ Write(c)
     \/ /\ ~Unmoved(c)
        /\ pc' = [pc EXCEPT ![c] = "get"]
        /\ UNCHANGED <<row, atomic_key, input_data, copy, dead>>

(* propagate(entity_id, input_data): the check_resource message leaves. *)
Propagate(c) ==
  /\ pc[c] = "propagate"
  /\ c \notin dead
  /\ pc' = [pc EXCEPT ![c] = "propagated"]
  /\ UNCHANGED <<row, atomic_key, input_data, copy, dead>>

(* The engine that runs the call dies; nothing it did is undone. *)
Crash(c) ==
  /\ c \in Mortal \ dead
  /\ pc[c] \notin {"waiting", "propagated", "missing"}
  /\ dead' = dead \cup {c}
  /\ UNCHANGED <<row, atomic_key, input_data, pc, copy>>

Sync(c) == Get(c) \/ Update(c) \/ Propagate(c)

Next ==
  \/ Create
  \/ DeleteAll
  \/ \E c \in Calls : Sync(c) \/ Crash(c)

(* A worker thread that is alive keeps running: the only wait in the loop  *)
(* is a bounded random sleep.  Nothing forces the row to be made.          *)
Spec == Init /\ [][Next]_vars /\ \A c \in Calls : WF_vars(Sync(c))
--------------------------------------------------------------------------------
Written   == {c \in Calls : pc[c] \in {"waiting", "propagate", "propagated"}}
Notifiers == {c \in Calls : pc[c] \in {"propagate", "propagated"}}

(* Shape of the state. *)
TypeOK ==
  /\ row \in {"absent", "present", "deleted"}
  /\ atomic_key \in Nat
  /\ input_data \in Data
  /\ pc \in [Calls -> {"get", "update", "waiting", "propagate", "propagated", "missing"}]
  /\ copy \in [Calls -> [key : Nat, data : Data]]
  /\ dead \subseteq Mortal

(* atomic_key stands for the contents: a call whose key still matches      *)
(* holds exactly the row, plus what it brings itself.  This is what makes  *)
(* the retry loop of sync() an atomic read-modify-write.                   *)
VersionGuardsData ==
  \A c \in Calls :
    (pc[c] = "update" /\ row = "present" /\ copy[c].key = atomic_key)
      => copy[c].data = Merge(input_data, c)

(* No arrival is lost while the row lives: whatever other calls wrote      *)
(* meanwhile, a key a finished call brought is filled, and by a call that  *)
(* really finished (also when its engine died right after the write).      *)
NoLostArrival ==
  row = "present" =>
    /\ \A c \in Written : input_data[KeyOf[c]] # NoCall
    /\ \A k \in Keys : input_data[k] # NoCall => input_data[k] \in Written

(* The message of the node leaves with the data of every predecessor, each *)
(* brought by a call that was made under that very key.                    *)
NotifierIsComplete ==
  \A c \in Notifiers : \A p \in Predecessors :
    copy[c].data[p] \in Written /\ KeyOf[copy[c].data[p]] = p

(* If every predecessor reports once, one of them at most starts the node, *)
(* whatever re-triggers (calls under the node's own key) do besides.       *)
ReportOnce ==
  \A c, d \in Calls : (KeyOf[c] = KeyOf[d] /\ KeyOf[c] \in Predecessors) => c = d
OnePredecessorNotifies ==
  ReportOnce =>
    \A c, d \in Notifiers :
      (KeyOf[c] \in Predecessors /\ KeyOf[d] \in Predecessors) => c = d

(* Once the last predecessor has written, somebody starts the node, unless *)
(* the traversal was superseded or the engine of a notifier died between   *)
(* its write and its message.  A call that dies anywhere else, or that     *)
(* found the set incomplete, excuses nothing.                              *)
LostNotifier(c) == pc[c] = "propagate" /\ c \in dead
CompleteIsPropagated ==
  (row = "present" /\ \A p \in Predecessors : \E c \in Written : KeyOf[c] = p)
    ~> (row = "deleted" \/ \E c \in Calls : pc[c] = "propagated" \/ LostNotifier(c))

(* sync() ends: the retry loop cannot go on for ever, since each conflict  *)
(* is the success of another call.                                         *)
EveryCallEnds ==
  \A c \in Calls :
    pc[c] = "get" ~> (c \in dead \/ pc[c] \in {"waiting", "propagated", "missing"})
--------------------------------------------------------------------------------
(* What the loop implements: each call is a single indivisible arrival. *)
Meeting ==
  INSTANCE Rendezvous WITH
    place     <- IF row = "absent" THEN "absent" ELSE IF row = "present" THEN "open" ELSE "closed",
    input     <- input_data,
    over      <- Written \cup {c \in Calls : pc[c] = "missing"} \cup dead,
    notifiers <- Notifiers

(* Every behaviour of the row and its callers is one of the meeting place. *)
ImplementsRendezvous == Meeting!Spec
===============================================================================
