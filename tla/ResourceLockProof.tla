--------------------------- MODULE ResourceLockProof ---------------------------
(***************************************************************************)
(* Proofs about ResourceLock.  For any engines, threads and messages: only *)
(* a write of the metadata in the middle of a release takes a lock from    *)
(* the thread that would free it, whatever crashes or is taken for dead.   *)
(* While no engine dies and all answer in time, the lock excludes, and     *)
(* nobody but its holder frees it.                                         *)
(***************************************************************************)
EXTENDS ResourceLock, TLAPS

USE EnginesAssumption, FaultsAssumption, BoundsAssumption

LEMMA InitTypeOK == Init => TypeOK
BY DEF Init, TypeOK, Stored, States, Actions, Statuses, Holding, Inside

(* What is stored is a state. *)
LEMMA StateSetTypeOK ==
  ASSUME TypeOK, NEW w \in Workers, NEW a \in Actions, NEW s \in Statuses, StateSet(w, a, s)
  PROVE  state' \in States /\ rsrc' \in [Workers -> States]
BY DEF TypeOK, StateSet, States

LEMMA NextTypeOK == TypeOK /\ [Next]_vars => TypeOK'
<1> SUFFICES ASSUME TypeOK, [Next]_vars PROVE TypeOK'
  OBVIOUS
<1> USE DEF TypeOK, Holding, Inside
<1>0. Stored \in States
  BY DEF Stored, States, Actions, Statuses
<1>a. {"CREATE", "UPDATE"} \subseteq Actions /\ {"IN_PROGRESS", "COMPLETE", "FAILED"} \subseteq Statuses
  BY DEF Actions, Statuses
<1>r. \A w \in Workers : rsrc[w].action \in Actions /\ rsrc[w].status \in Statuses
  BY DEF States
<1>1. ASSUME NEW w \in Workers, Load(w) PROVE TypeOK'
  BY <1>1 DEF Load, Goto, rowVars
<1>2. ASSUME NEW w \in Workers, AcquireGet(w) \/ ReleaseGet(w) PROVE TypeOK'
  BY <1>2 DEF AcquireGet, ReleaseGet, ReadKey, Goto, rowVars, envVars
<1>3. ASSUME NEW w \in Workers, Acquire(w) PROVE TypeOK'
  BY <1>3 DEF Acquire, Goto, rowVars, envVars
<1>4. ASSUME NEW w \in Workers, BeginCreate(w) PROVE TypeOK'
  <2>1. state' \in States /\ rsrc' \in [Workers -> States]
    BY <1>4, <1>a, StateSetTypeOK DEF BeginCreate
  <2> QED
    BY <1>4, <2>1 DEF BeginCreate, Goto, envVars
<1>5. ASSUME NEW w \in Workers, BeginUpdate(w) PROVE TypeOK'
  <2>1. state' \in States /\ rsrc' \in [Workers -> States]
    BY <1>5, <1>a, <1>r, StateSetTypeOK DEF BeginUpdate
  <2> QED
    BY <1>5, <2>1 DEF BeginUpdate, Goto, envVars
<1>6. ASSUME NEW w \in Workers, Finish(w) PROVE TypeOK'
  <2>1. state' \in States /\ rsrc' \in [Workers -> States]
    BY <1>6, <1>a, <1>r, StateSetTypeOK DEF Finish
  <2>2. created' \in Nat
    BY <1>6 DEF Finish
  <2>3. /\ pc' \in [Workers -> Holding \cup {"idle", "acquire_get", "acquire", "steal_get",
                                               "ping", "steal", "mark", "recast"}]
        /\ UNCHANGED <<engine_id, atomic_key, envVars, rs>>
    BY <1>6 DEF Finish, Goto
  <2> QED
    BY <2>1, <2>2, <2>3 DEF envVars
<1>7. ASSUME NEW w \in Workers, Release(w) PROVE TypeOK'
  <2>1. engine_id' \in Engines \cup {None} /\ atomic_key' \in Nat
    BY <1>7 DEF Release
  <2>2. Unread \in [engine : Engines \cup {None}, key : Nat]
    BY DEF Unread
  <2> QED
    BY <1>7, <1>0, <2>1, <2>2 DEF Release, End, Goto, envVars
<1>8. ASSUME NEW w \in Workers, StealGet(w) PROVE TypeOK'
  <2>1. Unread \in [engine : Engines \cup {None}, key : Nat]
    BY DEF Unread
  <2>2. CASE engine_id \in {None, EngineOf[w]}
    BY <1>8, <1>0, <2>1, <2>2 DEF StealGet, End, Goto, rowVars, envVars
  <2>3. CASE engine_id \notin {None, EngineOf[w]}
    BY <1>8, <2>3 DEF StealGet, ReadEngine, Goto, rowVars, envVars
  <2> QED
    BY <2>2, <2>3
<1>9. ASSUME NEW w \in Workers, Ping(w) PROVE TypeOK'
  BY <1>9, <1>0 DEF Ping, End, Unread, Goto, rowVars, envVars
<1>10. ASSUME NEW w \in Workers, Steal(w) PROVE TypeOK'
  BY <1>10 DEF Steal, Goto, envVars
<1>11. ASSUME NEW w \in Workers, Mark(w) PROVE TypeOK'
  <2>1. state' \in States /\ rsrc' \in [Workers -> States]
    BY <1>11, <1>a, <1>r, StateSetTypeOK DEF Mark
  <2> QED
    BY <1>11, <2>1 DEF Mark, Goto, envVars
<1>12. ASSUME NEW w \in Workers, Recast(w) PROVE TypeOK'
  BY <1>12, <1>0 DEF Recast, End, Unread, Goto, rowVars
<1>13. CASE Touch \/ MetadataSet
  BY <1>13 DEF Touch, MetadataSet
<1>14. ASSUME NEW e \in Engines, Crash(e) PROVE TypeOK'
  BY <1>14 DEF Crash, rowVars
<1>15. CASE UNCHANGED vars
  BY <1>15 DEF vars, rowVars, envVars
<1> QED
  BY <1>1, <1>2, <1>3, <1>4, <1>5, <1>6, <1>7, <1>8, <1>9, <1>10, <1>11, <1>12, <1>13,
     <1>14, <1>15 DEF Next, Handle

(* The row, the engines and the threads keep their shape. *)
THEOREM TypeCorrect == Spec => []TypeOK
BY InitTypeOK, NextTypeOK, PTL DEF Spec
--------------------------------------------------------------------------------
(* A step that leaves the lock columns alone and every holder a holder.    *)
LEMMA HoldersStay ==
  ASSUME LockHasHolder, UNCHANGED <<engine_id, atomic_key>>,
         \A v \in Workers : pc[v] \in Holding =>
            /\ pc'[v] \in Holding
            /\ pc'[v] = "release" => (pc[v] = "release" /\ rs'[v] = rs[v])
  PROVE  LockHasHolder'
BY DEF LockHasHolder

(* Every other step leaves a locked row somebody who will free it. *)
LEMMA NextHasHolder == TypeOK /\ LockHasHolder /\ [Next]_vars => (LockHasHolder' \/ MetadataSet)
<1> SUFFICES ASSUME TypeOK, LockHasHolder, [Next]_vars, ~MetadataSet PROVE LockHasHolder'
  OBVIOUS
<1> USE DEF Holding, Inside
<1>f. /\ pc \in [Workers -> Holding \cup {"idle", "acquire_get", "acquire", "steal_get",
                                           "ping", "steal", "mark", "recast"}]
      /\ rs \in [Workers -> [engine : Engines \cup {None}, key : Nat]]
      /\ engine_id \in Engines \cup {None} /\ atomic_key \in Nat
  BY DEF TypeOK
<1>1. ASSUME NEW w \in Workers, Load(w) PROVE LockHasHolder'
  BY <1>1, <1>f, HoldersStay DEF Load, Goto, rowVars
<1>2. ASSUME NEW w \in Workers, AcquireGet(w) PROVE LockHasHolder'
  BY <1>2, <1>f, HoldersStay DEF AcquireGet, ReadKey, Goto, rowVars
<1>3. ASSUME NEW w \in Workers, Acquire(w) PROVE LockHasHolder'
  <2>1. CASE RowMatches(None, rs[w].key)
    <3>1. engine_id' = EngineOf[w] /\ pc'[w] = "begin"
      BY <1>3, <2>1, <1>f DEF Acquire, Goto
    <3> QED
      BY <3>1 DEF LockHasHolder
  <2>2. CASE ~RowMatches(None, rs[w].key)
    BY <1>3, <2>2, <1>f, HoldersStay DEF Acquire, Goto, rowVars
  <2> QED
    BY <2>1, <2>2
<1>4. ASSUME NEW w \in Workers, BeginCreate(w) PROVE LockHasHolder'
  BY <1>4, <1>f, HoldersStay DEF BeginCreate, Goto
<1>5. ASSUME NEW w \in Workers, BeginUpdate(w) PROVE LockHasHolder'
  BY <1>5, <1>f, HoldersStay DEF BeginUpdate, Goto
<1>6. ASSUME NEW w \in Workers, Finish(w) PROVE LockHasHolder'
  BY <1>6, <1>f, HoldersStay DEF Finish, Goto
<1>7. ASSUME NEW w \in Workers, ReleaseGet(w) PROVE LockHasHolder'
  <2>1. /\ UNCHANGED <<engine_id, atomic_key>>
        /\ pc[w] = "release_get" /\ pc' = [pc EXCEPT ![w] = "release"]
        /\ rs' = [rs EXCEPT ![w].key = atomic_key]
    BY <1>7 DEF ReleaseGet, ReadKey, Goto, rowVars
  <2>2. pc'[w] = "release" /\ rs'[w].key = atomic_key
    BY <2>1, <1>f
  <2>3. \A v \in Workers \ {w} : pc'[v] = pc[v] /\ rs'[v] = rs[v]
    BY <2>1, <1>f
  <2> QED
    BY <2>1, <2>2, <2>3 DEF LockHasHolder
<1>8. ASSUME NEW w \in Workers, Release(w) PROVE LockHasHolder'
  <2>1. CASE RowMatches(EngineOf[w], rs[w].key)
    BY <1>8, <2>1 DEF Release, LockHasHolder
  (* A thread that frees nothing was not the holder. *)
  <2>2. CASE ~RowMatches(EngineOf[w], rs[w].key)
    <3>1. UNCHANGED <<engine_id, atomic_key>> /\ pc[w] = "release"
      BY <1>8, <2>2 DEF Release, End, Goto
    <3>2. \A v \in Workers \ {w} : pc'[v] = pc[v] /\ rs'[v] = rs[v]
      BY <1>8, <1>f DEF Release, End, Goto
    <3> QED
      BY <2>2, <3>1, <3>2 DEF LockHasHolder, RowMatches
  <2> QED
    BY <2>1, <2>2
<1>9. ASSUME NEW w \in Workers, StealGet(w) PROVE LockHasHolder'
  BY <1>9, <1>f, HoldersStay DEF StealGet, ReadEngine, End, Goto, rowVars
<1>10. ASSUME NEW w \in Workers, Ping(w) PROVE LockHasHolder'
  BY <1>10, <1>f, HoldersStay DEF Ping, End, Goto, rowVars
<1>11. ASSUME NEW w \in Workers, Steal(w) PROVE LockHasHolder'
  BY <1>11 DEF Steal, LockHasHolder
<1>12. ASSUME NEW w \in Workers, Mark(w) PROVE LockHasHolder'
  BY <1>12, <1>f, HoldersStay DEF Mark, Goto
<1>13. ASSUME NEW w \in Workers, Recast(w) PROVE LockHasHolder'
  BY <1>13, <1>f, HoldersStay DEF Recast, End, Goto, rowVars
<1>14. CASE Touch
  BY <1>14 DEF Touch, LockHasHolder
<1>15. ASSUME NEW e \in Engines, Crash(e) PROVE LockHasHolder'
  BY <1>15, HoldersStay DEF Crash, rowVars
<1>16. CASE UNCHANGED vars
  BY <1>16, HoldersStay DEF vars, rowVars
<1> QED
  BY <1>1, <1>2, <1>3, <1>4, <1>5, <1>6, <1>7, <1>8, <1>9, <1>10, <1>11, <1>12, <1>13,
     <1>14, <1>15, <1>16 DEF Next, Handle

(* The key moves while the only holder stands in the middle of _release(). *)
LEMMA MetadataOrphansInRelease ==
  ASSUME LockHasHolder, ~LockHasHolder', MetadataSet, TypeOK
  PROVE  /\ engine_id' = engine_id /\ atomic_key' # atomic_key
         /\ \E w \in Workers : EngineOf[w] = engine_id /\ pc[w] = "release" /\ pc'[w] = "release"
<1>1. UNCHANGED <<engine_id, pc, rs>> /\ atomic_key' = atomic_key + 1 /\ atomic_key \in Nat
  BY DEF MetadataSet, TypeOK
<1>2. engine_id # None
  BY <1>1 DEF LockHasHolder
<1>3. PICK w \in Workers : EngineOf[w] = engine_id /\ pc[w] \in Holding
  BY <1>2 DEF LockHasHolder
<1>4. pc[w] = "release"
  BY <1>1, <1>3 DEF LockHasHolder
<1> QED
  BY <1>1, <1>3, <1>4

(* Crashes, false suspicion and theft orphan no lock, and neither does     *)
(* anything else, but a write of the metadata between the two halves of a  *)
(* release.                                                                *)
THEOREM OrphansOfMetadata == Spec => OnlyMetadataOrphans
<1>1. TypeOK /\ [Next]_vars =>
        [(LockHasHolder /\ ~LockHasHolder') =>
           /\ engine_id' = engine_id /\ atomic_key' # atomic_key
           /\ \E w \in Workers : EngineOf[w] = engine_id /\ pc[w] = "release" /\ pc'[w] = "release"]_vars
  BY NextHasHolder, MetadataOrphansInRelease
<1> QED
  BY <1>1, TypeCorrect, PTL DEF Spec, OnlyMetadataOrphans
--------------------------------------------------------------------------------
(* No engine dies and none is taken for dead. *)
Reliable == Mortal = {} /\ Slow = {}

(* Without faults nobody gets as far as stealing, and the engine of a      *)
(* thread inside stands in the row.                                        *)
NoThief == up = Engines /\ \A w \in Workers : pc[w] \notin {"steal", "mark", "recast"}
HolderIsNamed == \A w \in Workers : pc[w] \in Holding => engine_id = EngineOf[w]
OneHolder == \A v, w \in Workers : (pc[v] \in Holding /\ pc[w] \in Holding) => v = w

PingsSomebody == \A w \in Workers : pc[w] = "ping" => rs[w].engine # None

CalmInv == TypeOK /\ NoThief /\ PingsSomebody /\ HolderIsNamed /\ OneHolder

(* A step that leaves the name in the row and makes nobody a holder. *)
LEMMA CalmStay ==
  ASSUME CalmInv, TypeOK', up' = up, engine_id' = engine_id,
         \A v \in Workers :
            /\ pc'[v] \notin {"steal", "mark", "recast"}
            /\ pc'[v] = "ping" => rs'[v].engine # None
            /\ pc'[v] \in Holding => pc[v] \in Holding
  PROVE  CalmInv'
BY DEF CalmInv, NoThief, PingsSomebody, HolderIsNamed, OneHolder

LEMMA NextCalm == Reliable /\ CalmInv /\ [Next]_vars => CalmInv'
<1> SUFFICES ASSUME Reliable, CalmInv, [Next]_vars PROVE CalmInv'
  OBVIOUS
<1> USE DEF Holding, Inside
<1>t. TypeOK'
  BY NextTypeOK DEF CalmInv
<1>f. /\ pc \in [Workers -> Holding \cup {"idle", "acquire_get", "acquire", "steal_get",
                                           "ping", "steal", "mark", "recast"}]
      /\ rs \in [Workers -> [engine : Engines \cup {None}, key : Nat]]
      /\ engine_id \in Engines \cup {None} /\ atomic_key \in Nat
  BY DEF CalmInv, TypeOK
<1>n. NoThief /\ PingsSomebody
  BY DEF CalmInv
<1>1. ASSUME NEW w \in Workers, Load(w) PROVE CalmInv'
  BY <1>1, <1>t, <1>f, <1>n, CalmStay DEF Load, Goto, rowVars, NoThief, PingsSomebody
<1>2. ASSUME NEW w \in Workers, AcquireGet(w) PROVE CalmInv'
  BY <1>2, <1>t, <1>f, <1>n, CalmStay DEF AcquireGet, ReadKey, Goto, rowVars, envVars, NoThief, PingsSomebody
<1>3. ASSUME NEW w \in Workers, Acquire(w) PROVE CalmInv'
  <2>1. CASE RowMatches(None, rs[w].key)
    <3>1. /\ engine_id = None /\ engine_id' = EngineOf[w] /\ UNCHANGED up
          /\ pc[w] = "acquire" /\ pc' = [pc EXCEPT ![w] = "begin"]
      BY <1>3, <2>1 DEF Acquire, Goto, RowMatches, envVars
    <3>2. \A v \in Workers : pc[v] \notin Holding
      BY <3>1 DEF CalmInv, HolderIsNamed
    <3>3. \A v \in Workers : pc'[v] \in Holding => v = w /\ pc'[v] = "begin"
      BY <3>1, <3>2, <1>f
    <3>4. NoThief' /\ PingsSomebody'
      BY <1>3, <2>1, <3>1, <1>n, <1>f DEF NoThief, PingsSomebody, Acquire
    <3> QED
      BY <3>1, <3>3, <3>4, <1>t DEF CalmInv, HolderIsNamed, OneHolder
  <2>2. CASE ~RowMatches(None, rs[w].key)
    BY <1>3, <2>2, <1>t, <1>f, <1>n, CalmStay DEF Acquire, Goto, rowVars, envVars, NoThief, PingsSomebody
  <2> QED
    BY <2>1, <2>2
<1>4. ASSUME NEW w \in Workers, BeginCreate(w) PROVE CalmInv'
  BY <1>4, <1>t, <1>f, <1>n, CalmStay DEF BeginCreate, Goto, envVars, NoThief, PingsSomebody
<1>5. ASSUME NEW w \in Workers, BeginUpdate(w) PROVE CalmInv'
  BY <1>5, <1>t, <1>f, <1>n, CalmStay DEF BeginUpdate, Goto, envVars, NoThief, PingsSomebody
<1>6. ASSUME NEW w \in Workers, Finish(w) PROVE CalmInv'
  BY <1>6, <1>t, <1>f, <1>n, CalmStay DEF Finish, Goto, envVars, NoThief, PingsSomebody
<1>7. ASSUME NEW w \in Workers, ReleaseGet(w) PROVE CalmInv'
  BY <1>7, <1>t, <1>f, <1>n, CalmStay DEF ReleaseGet, ReadKey, Goto, rowVars, envVars, NoThief, PingsSomebody
<1>8. ASSUME NEW w \in Workers, Release(w) PROVE CalmInv'
  <2>1. pc[w] = "release" /\ pc' = [pc EXCEPT ![w] = "idle"] /\ UNCHANGED up
    BY <1>8 DEF Release, End, Goto, envVars
  <2>2. \A v \in Workers : pc[v] \in Holding => v = w
    BY <2>1 DEF CalmInv, OneHolder
  <2>3. \A v \in Workers : pc'[v] \notin Holding
    BY <2>1, <2>2, <1>f
  <2>4. NoThief' /\ PingsSomebody'
    BY <1>8, <2>1, <1>n, <1>f DEF NoThief, PingsSomebody, Release, End
  <2> QED
    BY <2>3, <2>4, <1>t DEF CalmInv, HolderIsNamed, OneHolder
<1>9. ASSUME NEW w \in Workers, StealGet(w) PROVE CalmInv'
  BY <1>9, <1>t, <1>f, <1>n, CalmStay DEF StealGet, ReadEngine, End, Goto, rowVars, envVars, NoThief, PingsSomebody
<1>10. ASSUME NEW w \in Workers, Ping(w) PROVE CalmInv'
  (* Only a thread that saw another engine in the row asks it. *)
  <2>1. rs[w].engine \in up
    BY <1>10, <1>n, <1>f DEF Ping, End, Goto, NoThief, PingsSomebody
  <2> QED
    BY <1>10, <2>1, <1>t, <1>f, <1>n, CalmStay DEF Ping, End, Goto, rowVars, envVars, NoThief, PingsSomebody, MissesPing, Reliable
<1>11. ASSUME NEW w \in Workers, Steal(w) \/ Mark(w) \/ Recast(w) PROVE FALSE
  BY <1>11, <1>n DEF Steal, Mark, Recast, End, Goto, NoThief, PingsSomebody
<1>12. CASE Touch \/ MetadataSet
  BY <1>12, <1>t, <1>f, <1>n, CalmStay DEF Touch, MetadataSet, NoThief, PingsSomebody
<1>13. ASSUME NEW e \in Engines, Crash(e) PROVE FALSE
  BY <1>13 DEF Crash, Reliable
<1>14. CASE UNCHANGED vars
  BY <1>14, <1>t, <1>f, <1>n, CalmStay DEF vars, rowVars, envVars, NoThief, PingsSomebody
<1> QED
  BY <1>1, <1>2, <1>3, <1>4, <1>5, <1>6, <1>7, <1>8, <1>9, <1>10, <1>11, <1>12, <1>13,
     <1>14 DEF Next, Handle
(* With reliable engines the lock excludes. *)
THEOREM CalmInvariant == Reliable => (Spec => []CalmInv)
<1> SUFFICES ASSUME Reliable PROVE Spec => []CalmInv
  OBVIOUS
<1>1. Init => CalmInv
  BY InitTypeOK DEF Init, CalmInv, NoThief, PingsSomebody, HolderIsNamed, OneHolder, Holding, Inside
<1>2. CalmInv /\ [Next]_vars => CalmInv'
  BY NextCalm
<1> QED
  BY <1>1, <1>2, PTL DEF Spec

(* One thread at a time works on the resource. *)
THEOREM LockExcludes == Reliable => (Spec => []MutualExclusion)
<1>1. CalmInv => MutualExclusion
  BY DEF CalmInv, OneHolder, MutualExclusion, Holding
<1> QED
  BY <1>1, CalmInvariant, PTL

(* And nobody but that thread gives the lock up. *)
THEOREM LockIsKept == Reliable => (Spec => OnlyTheDeadLoseTheirLock)
<1> SUFFICES ASSUME Reliable PROVE Spec => OnlyTheDeadLoseTheirLock
  OBVIOUS
<1>1. CalmInv /\ [Next]_vars =>
        [\A e \in Engines : (engine_id = e /\ engine_id' # e /\ e \in up)
           => \E w \in Workers : EngineOf[w] = e /\ pc[w] = "release"]_vars
  <2> SUFFICES ASSUME CalmInv, Next, NEW e \in Engines, engine_id = e, engine_id' # e
               PROVE  \E w \in Workers : EngineOf[w] = e /\ pc[w] = "release"
    OBVIOUS
  <2>1. ASSUME NEW w \in Workers, Acquire(w) PROVE FALSE
    BY <2>1 DEF Acquire, RowMatches, rowVars
  <2>2. ASSUME NEW w \in Workers, Release(w)
        PROVE  EngineOf[w] = e /\ pc[w] = "release"
    BY <2>2 DEF Release, RowMatches, End, Goto
  <2>3. ASSUME NEW w \in Workers, Steal(w) PROVE FALSE
    BY <2>3 DEF Steal, Goto, CalmInv, NoThief
  <2> QED
    BY <2>1, <2>2, <2>3 DEF Next, Handle, Load, AcquireGet, BeginCreate, BeginUpdate, Finish,
       ReleaseGet, StealGet, Ping, Mark, Recast, Touch, MetadataSet, Crash, rowVars
<1> QED
  BY <1>1, CalmInvariant, PTL DEF Spec, OnlyTheDeadLoseTheirLock
===============================================================================
