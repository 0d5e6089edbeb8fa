---------------------------- MODULE SyncPointProof ----------------------------
(***************************************************************************)
(* Proofs about SyncPoint: its invariants hold, and it implements          *)
(* Rendezvous, for any set of keys, predecessors and calls.                *)
(***************************************************************************)
EXTENDS SyncPoint, TLAPS

(* The calls whose copy of the row is in use. *)
Started == {c \in Calls : pc[c] \notin {"get", "missing"}}

(* Before the row exists no call has read it, and it is empty. *)
AbsentIsUntouched == row = "absent" => Started = {} /\ input_data = NoData

(* A version once read is never ahead of the row. *)
VersionsGrow == \A c \in Calls : pc[c] = "update" => copy[c].key <= atomic_key

(* Who stands in the row: finished calls, each under its own key. *)
RowHoldsWritten ==
  \A k \in Keys : input_data[k] # NoCall => input_data[k] \in Written /\ KeyOf[input_data[k]] = k

(* Who stands in a copy: the same, and the call itself. *)
CopyHoldsWritten ==
  \A c \in Started :
    /\ copy[c].data[KeyOf[c]] = c
    /\ \A k \in Keys : copy[c].data[k] # NoCall =>
         copy[c].data[k] \in Written \cup {c} /\ KeyOf[copy[c].data[k]] = k

ArrivalsStay == row = "present" => \A c \in Written : input_data[KeyOf[c]] # NoCall

NotifiersAreReady == \A c \in Notifiers : Ready(copy[c].data)

(* The inductive invariant. *)
IInv ==
  /\ TypeOK
  /\ AbsentIsUntouched
  /\ VersionsGrow
  /\ VersionGuardsData
  /\ RowHoldsWritten
  /\ CopyHoldsWritten
  /\ ArrivalsStay
  /\ NotifiersAreReady
  /\ OnePredecessorNotifies

USE KeysAssumption, CallsAssumption

(* Merging is the record update of one slot. *)
LEMMA MergeLemma ==
  ASSUME NEW data \in Data, NEW c \in Calls
  PROVE  /\ Merge(data, c) \in Data
         /\ Merge(data, c)[KeyOf[c]] = c
         /\ \A k \in Keys \ {KeyOf[c]} : Merge(data, c)[k] = data[k]
BY DEF Merge, Data, Slot

LEMMA InitIInv == Init => IInv
BY DEF Init, IInv, TypeOK, AbsentIsUntouched, VersionsGrow, VersionGuardsData,
       RowHoldsWritten, CopyHoldsWritten, ArrivalsStay, NotifiersAreReady,
       OnePredecessorNotifies, Started, Written, Notifiers, NoData, Data, Slot

(* get() only refreshes the caller's own copy. *)
LEMMA GetIInv == ASSUME IInv, NEW c \in Calls, Get(c) PROVE IInv'
<1> USE DEF IInv
<1>0. input_data \in Data /\ Merge(input_data, c) \in Data
  BY MergeLemma DEF TypeOK
<1>1. TypeOK'
  BY <1>0 DEF Get, TypeOK
<1>2. Written' = Written /\ Notifiers' = Notifiers
  BY DEF Get, TypeOK, Written, Notifiers
<1>3. AbsentIsUntouched'
  BY DEF Get, AbsentIsUntouched, Started, TypeOK
<1>4. VersionsGrow'
  BY DEF Get, VersionsGrow, TypeOK
<1>5. VersionGuardsData'
  <2> SUFFICES ASSUME NEW d \in Calls, pc'[d] = "update", row = "present",
                      copy'[d].key = atomic_key
               PROVE  copy'[d].data = [input_data EXCEPT ![KeyOf[d]] = d]
    BY DEF Get, VersionGuardsData, Merge
  <2>1. CASE d = c
    BY <2>1 DEF Get, TypeOK, Merge
  <2>2. CASE d # c
    BY <2>2 DEF Get, VersionGuardsData, TypeOK, Merge
  <2> QED
    BY <2>1, <2>2
<1>6. RowHoldsWritten' /\ ArrivalsStay'
  BY <1>2 DEF Get, RowHoldsWritten, ArrivalsStay
<1>7. CopyHoldsWritten'
  <2> SUFFICES ASSUME NEW d \in Started'
               PROVE  /\ copy'[d].data[KeyOf[d]] = d
                      /\ \A k \in Keys : copy'[d].data[k] # NoCall =>
                           copy'[d].data[k] \in Written \cup {d} /\ KeyOf[copy'[d].data[k]] = k
    BY <1>2 DEF CopyHoldsWritten
  <2>1. CASE d = c
    <3>1. copy'[c].data = Merge(input_data, c)
      BY <2>1 DEF Get, Started, TypeOK
    <3> QED
      BY <2>1, <3>1, <1>0, MergeLemma DEF RowHoldsWritten
  <2>2. CASE d # c
    BY <2>2 DEF Get, Started, TypeOK, CopyHoldsWritten
  <2> QED
    BY <2>1, <2>2
<1>8. \A d \in Notifiers : copy'[d] = copy[d]
  BY DEF Get, Notifiers, TypeOK
<1>9. NotifiersAreReady' /\ OnePredecessorNotifies'
  BY <1>2, <1>8 DEF NotifiersAreReady, OnePredecessorNotifies, ReportOnce, Ready
<1> QED
  BY <1>1, <1>3, <1>4, <1>5, <1>6, <1>7, <1>9

(* A write that goes through turns the row into what it was, plus the      *)
(* caller's own contribution.                                              *)
LEMMA WriteMerges ==
  ASSUME IInv, NEW c \in Calls, pc[c] = "update", Unmoved(c), Write(c)
  PROVE  /\ input_data' = Merge(input_data, c)
         /\ Written' = Written \cup {c}
         /\ Notifiers' = IF Ready(input_data') THEN Notifiers \cup {c} ELSE Notifiers
         /\ c \notin Written
BY DEF IInv, TypeOK, VersionGuardsData, Unmoved, Write, Written, Notifiers

(* The successful write of update_input_data(). *)
LEMMA WriteIInv ==
  ASSUME IInv, NEW c \in Calls, pc[c] = "update", Unmoved(c), Write(c)
  PROVE  IInv'
<1> USE DEF IInv
<1>0. /\ input_data' = Merge(input_data, c)
      /\ Written' = Written \cup {c}
      /\ Notifiers' = IF Ready(input_data') THEN Notifiers \cup {c} ELSE Notifiers
      /\ c \notin Written
  BY WriteMerges
<1>m. /\ input_data' \in Data
      /\ input_data'[KeyOf[c]] = c
      /\ \A k \in Keys \ {KeyOf[c]} : input_data'[k] = input_data[k]
  BY <1>0, MergeLemma DEF TypeOK
<1>1. TypeOK'
  BY <1>m DEF Write, TypeOK
<1>2. Started' = Started /\ copy' = copy
  BY DEF Write, Started, TypeOK
<1>3. AbsentIsUntouched'
  BY DEF Write, AbsentIsUntouched
<1>4. VersionsGrow' /\ VersionGuardsData'
  <2> SUFFICES ASSUME NEW d \in Calls, pc'[d] = "update"
               PROVE  copy[d].key < atomic_key'
    BY <1>1, <1>2 DEF VersionsGrow, VersionGuardsData, TypeOK
  <2>1. pc[d] = "update"
    BY DEF Write, TypeOK
  <2> QED
    BY <2>1 DEF VersionsGrow, Write, Unmoved, TypeOK
<1>5. RowHoldsWritten'
  BY <1>0, <1>m DEF RowHoldsWritten
<1>6. CopyHoldsWritten'
  BY <1>0, <1>2 DEF CopyHoldsWritten
<1>7. ArrivalsStay'
  BY <1>0, <1>m DEF ArrivalsStay, Write, Written
<1>8. NotifiersAreReady'
  BY <1>0, <1>2 DEF NotifiersAreReady, Write
<1>9. OnePredecessorNotifies'
  <2> SUFFICES ASSUME ReportOnce, Ready(input_data'), KeyOf[c] \in Predecessors,
                      NEW d \in Notifiers, KeyOf[d] \in Predecessors
               PROVE  FALSE
    BY <1>0 DEF OnePredecessorNotifies, ReportOnce
  <2>1. d \in Calls /\ d \in Started /\ d # c /\ d \in Written
    BY <1>0 DEF Notifiers, Started, Written
  (* The earlier notifier had found something under c's key: not c. *)
  <2>2. copy[d].data[KeyOf[c]] # NoCall
    BY <2>1 DEF NotifiersAreReady, Ready
  <2>3. /\ copy[d].data[KeyOf[c]] \in Written
        /\ KeyOf[copy[d].data[KeyOf[c]]] = KeyOf[c]
    BY <2>1, <2>2 DEF CopyHoldsWritten
  <2> QED
    BY <2>3, <1>0 DEF ReportOnce, Written
<1> QED
  BY <1>1, <1>3, <1>4, <1>5, <1>6, <1>7, <1>8, <1>9

(* Steps that leave the row and every copy in use alone. *)
LEMMA QuietIInv ==
  ASSUME IInv, TypeOK', row' = row, UNCHANGED <<atomic_key, input_data, copy>>,
         Written' = Written, Notifiers' = Notifiers, Started' \subseteq Started,
         \A c \in Calls : pc'[c] = "update" => pc[c] = "update"
  PROVE  IInv'
BY DEF IInv, AbsentIsUntouched, VersionsGrow, VersionGuardsData, RowHoldsWritten,
       CopyHoldsWritten, ArrivalsStay, NotifiersAreReady, OnePredecessorNotifies, ReportOnce

LEMMA NextIInv == IInv /\ [Next]_vars => IInv'
<1> SUFFICES ASSUME IInv, [Next]_vars PROVE IInv'
  OBVIOUS
<1>t. TypeOK
  BY DEF IInv
<1>1. CASE Create
  <2>1. TypeOK'
    BY <1>1, <1>t DEF Create, TypeOK
  <2> QED
    BY <1>1, <2>1 DEF Create, IInv, AbsentIsUntouched, VersionsGrow, VersionGuardsData,
       RowHoldsWritten, CopyHoldsWritten, ArrivalsStay, NotifiersAreReady,
       OnePredecessorNotifies, ReportOnce, Started, Written, Notifiers
<1>2. CASE DeleteAll
  <2>1. TypeOK'
    BY <1>2, <1>t DEF DeleteAll, TypeOK, NoData, Data, Slot
  <2>2. RowHoldsWritten'
    BY <1>2 DEF DeleteAll, RowHoldsWritten, NoData
  <2> QED
    BY <1>2, <2>1, <2>2 DEF DeleteAll, IInv, AbsentIsUntouched, VersionsGrow, VersionGuardsData,
       CopyHoldsWritten, ArrivalsStay, NotifiersAreReady,
       OnePredecessorNotifies, ReportOnce, Started, Written, Notifiers
<1>3. ASSUME NEW c \in Calls, Get(c) PROVE IInv'
  BY <1>3, GetIInv
<1>4. ASSUME NEW c \in Calls, Update(c) PROVE IInv'
  <2>1. CASE Unmoved(c) /\ Write(c)
    BY <1>4, <2>1, WriteIInv DEF Update
  <2>2. CASE ~Unmoved(c) /\ pc' = [pc EXCEPT ![c] = "get"]
             /\ UNCHANGED <<row, atomic_key, input_data, copy, dead>>
    BY <1>4, <2>2, <1>t, QuietIInv DEF Update, TypeOK, Written, Notifiers, Started
  <2> QED
    BY <1>4, <2>1, <2>2 DEF Update
<1>5. ASSUME NEW c \in Calls, Propagate(c) PROVE IInv'
  BY <1>5, <1>t, QuietIInv DEF Propagate, TypeOK, Written, Notifiers, Started
<1>6. ASSUME NEW c \in Calls, Crash(c) PROVE IInv'
  BY <1>6, <1>t, QuietIInv DEF Crash, TypeOK, Written, Notifiers, Started
<1>7. CASE UNCHANGED vars
  BY <1>7, <1>t, QuietIInv DEF vars, TypeOK, Written, Notifiers, Started
<1> QED
  BY <1>1, <1>2, <1>3, <1>4, <1>5, <1>6, <1>7 DEF Next, Sync

LEMMA AlwaysIInv == Spec => []IInv
BY InitIInv, NextIInv, PTL DEF Spec

(* The state of a sync point and of its callers keeps its shape. *)
THEOREM TypeCorrect == Spec => []TypeOK
BY AlwaysIInv, PTL DEF IInv

(* A matching atomic_key means an unchanged row: sync() is atomic. *)
THEOREM VersionsGuard == Spec => []VersionGuardsData
BY AlwaysIInv, PTL DEF IInv

(* However many workers write at once, no arrival is overwritten away. *)
THEOREM ArrivalsKept == Spec => []NoLostArrival
<1>1. IInv => NoLostArrival
  BY DEF IInv, NoLostArrival, ArrivalsStay, RowHoldsWritten
<1> QED
  BY <1>1, AlwaysIInv, PTL

(* The node starts with the data of every predecessor. *)
THEOREM NotifiersComplete == Spec => []NotifierIsComplete
<1>1. IInv => NotifierIsComplete
  BY DEF IInv, NotifierIsComplete, NotifiersAreReady, CopyHoldsWritten, Ready, Notifiers,
         Started, Written
<1> QED
  BY <1>1, AlwaysIInv, PTL

(* Predecessors that report once start the node once. *)
THEOREM NotifiedOnce == Spec => []OnePredecessorNotifies
BY AlwaysIInv, PTL DEF IInv
--------------------------------------------------------------------------------
LEMMA InitMeets == Init => Meeting!Init
BY DEF Init, Meeting!Init, Meeting!Nothing, NoData, Written, Notifiers

(* Every step of the loop is a step of the meeting place, or none. *)
LEMMA StepMeets == IInv /\ [Next]_vars => [Meeting!Next]_Meeting!rendezvousVars
<1> SUFFICES ASSUME IInv, [Next]_vars
             PROVE  Meeting!Next \/ UNCHANGED Meeting!rendezvousVars
  OBVIOUS
<1> DEFINE Over == Written \cup {c \in Calls : pc[c] = "missing"} \cup dead
<1>t. TypeOK
  BY DEF IInv
<1> USE DEF Meeting!rendezvousVars
<1>1. CASE Create
  BY <1>1 DEF Create, Meeting!Next, Meeting!Open, Written, Notifiers
<1>2. CASE DeleteAll
  BY <1>2 DEF DeleteAll, Meeting!Next, Meeting!Close, Meeting!Nothing, NoData, Written, Notifiers
<1>3. ASSUME NEW c \in Calls, Get(c) PROVE Meeting!Next \/ UNCHANGED Meeting!rendezvousVars
  <2>1. UNCHANGED <<row, input_data>> /\ Written' = Written /\ Notifiers' = Notifiers
    BY <1>3, <1>t DEF Get, TypeOK, Written, Notifiers
  <2>2. CASE row = "present"
    <3>1. Over' = Over
      BY <1>3, <2>2, <1>t DEF Get, TypeOK, Written
    <3> QED
      BY <2>1, <3>1
  <2>3. CASE row # "present"
    <3>1. Over' = Over \cup {c} /\ c \notin Over
      BY <1>3, <2>3, <1>t DEF Get, TypeOK, Written
    <3> QED
      BY <2>1, <3>1 DEF Meeting!Next, Meeting!GiveUp
  <2> QED
    BY <2>2, <2>3
<1>4. ASSUME NEW c \in Calls, Update(c) PROVE Meeting!Next \/ UNCHANGED Meeting!rendezvousVars
  <2>1. CASE Unmoved(c) /\ Write(c)
    <3>1. /\ input_data' = Merge(input_data, c)
          /\ Written' = Written \cup {c}
          /\ Notifiers' = IF Ready(input_data') THEN Notifiers \cup {c} ELSE Notifiers
          /\ c \notin Written
      BY <1>4, <2>1, WriteMerges DEF Update
    <3>2. Over' = Over \cup {c} /\ c \notin Over /\ row = "present" /\ row' = row
      BY <1>4, <2>1, <1>t, <3>1 DEF Update, Write, TypeOK, Written
    <3>3. Meeting!Arrive(c)
      BY <3>1, <3>2 DEF Meeting!Arrive, Meeting!Complete, Ready, Merge
    <3> QED
      BY <3>3 DEF Meeting!Next
  <2>2. CASE ~Unmoved(c)
    <3>1. UNCHANGED <<row, input_data>> /\ Written' = Written /\ Notifiers' = Notifiers
      BY <1>4, <2>2, <1>t DEF Update, TypeOK, Written, Notifiers
    <3>2. Over' = Over
      BY <1>4, <2>2, <1>t DEF Update, TypeOK, Written
    <3> QED
      BY <3>1, <3>2
  <2> QED
    BY <1>4, <2>1, <2>2 DEF Update
<1>5. ASSUME NEW c \in Calls, Propagate(c) PROVE UNCHANGED Meeting!rendezvousVars
  BY <1>5, <1>t DEF Propagate, TypeOK, Written, Notifiers
<1>6. ASSUME NEW c \in Calls, Crash(c) PROVE Meeting!Next \/ UNCHANGED Meeting!rendezvousVars
  <2>1. UNCHANGED <<row, input_data>> /\ Written' = Written /\ Notifiers' = Notifiers
    BY <1>6 DEF Crash, Written, Notifiers
  <2>2. Over' = Over \cup {c}
    BY <1>6, <1>t DEF Crash, TypeOK, Written
  <2>3. CASE c \in Over
    BY <2>1, <2>2, <2>3
  <2>4. CASE c \notin Over
    BY <2>1, <2>2, <2>4 DEF Meeting!Next, Meeting!GiveUp
  <2> QED
    BY <2>3, <2>4
<1>7. CASE UNCHANGED vars
  BY <1>7 DEF vars, Written, Notifiers
<1> QED
  BY <1>1, <1>2, <1>3, <1>4, <1>5, <1>6, <1>7 DEF Next, Sync

(* The retry loop over rows and versions implements the meeting place. *)
THEOREM SyncImplementsRendezvous == Spec => ImplementsRendezvous
BY InitMeets, StepMeets, AlwaysIInv, PTL DEF Spec, ImplementsRendezvous, Meeting!Spec
===============================================================================
