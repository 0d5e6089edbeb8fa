---------------------------- MODULE StackLockProof ----------------------------
(***************************************************************************)
(* Proofs about StackLock, for any engines and calls.  While live engines  *)
(* answer in time, one thread at a time works on the stack, and only that  *)
(* thread and the second store of the creation change the row, whichever   *)
(* engines die; and a stack nobody has locked is in progress only for what *)
(* its creation stored with no lock, or for a delete that stopped the      *)
(* operation.  Whatever is taken for dead, a lock that names a live engine *)
(* has a thread that frees it, as long as the stack exists.                *)
(***************************************************************************)
EXTENDS StackLock, TLAPS

USE CallsAssumption, NoneAssumption, FaultsAssumption, CreateAssumption

Places == Working \cup {"idle", "project", "acquire", "ping", "steal", "try", "notify", "poll",
                        "wait", "stop", "links", "retake", "done", "quit"}

LEMMA InitTypeOK == Init => TypeOK
BY DEF Init, TypeOK, State, States, Actions, Statuses

LEMMA MoveTypeOK ==
  ASSUME TypeOK, NEW c \in Calls, NEW from, NEW to \in Places, Move(c, from, to)
  PROVE  pc' \in [Calls -> Places] /\ group' \subseteq Calls /\ UNCHANGED <<up, waits>>
BY DEF TypeOK, Move, Places

LEMMA StateSetTypeOK ==
  ASSUME TypeOK, NEW c \in Calls, NEW a \in Actions, NEW s \in Statuses, StateSet(c, a, s)
  PROVE  mine' \in [Calls -> States] /\ stack' \in States \cup {NoRow}
BY DEF TypeOK, StateSet, State, States

LEMMA VerbType == \A c \in Calls : KindOf[c] # "reset" => Verb[KindOf[c]] \in Actions
BY DEF Verb, Kinds, Actions

LEMMA NextTypeOK == TypeOK /\ [Next]_vars => TypeOK'
<1> SUFFICES ASSUME TypeOK, [Next]_vars PROVE TypeOK'
  OBVIOUS
<1>p. TypeOK <=> /\ lock \in Engines \cup {None} /\ stack \in States \cup {NoRow}
                 /\ up \subseteq Engines /\ pc \in [Calls -> Places]
                 /\ mine \in [Calls -> States] /\ seen \in [Calls -> Engines \cup {None}]
                 /\ retry \in [Calls -> BOOLEAN] /\ group \subseteq Calls
                 /\ waits \in [Calls -> SUBSET Calls]
  BY DEF TypeOK, Places
<1>q. (/\ lock' \in Engines \cup {None} /\ stack' \in States \cup {NoRow}
       /\ up' \subseteq Engines /\ pc' \in [Calls -> Places]
       /\ mine' \in [Calls -> States] /\ seen' \in [Calls -> Engines \cup {None}]
       /\ retry' \in [Calls -> BOOLEAN] /\ group' \subseteq Calls
       /\ waits' \in [Calls -> SUBSET Calls]) => TypeOK'
  BY DEF TypeOK, Places
<1>w. Working \subseteq Places /\ \A c \in Calls : Locked(c) \in Places
  BY DEF Working, Places, Locked
<1>m. \A c \in Calls : mine[c].action \in Actions /\ mine[c].status \in Statuses
  BY <1>p DEF States
<1>s. /\ "CREATE" \in Actions /\ "ROLLBACK" \in Actions
      /\ {"IN_PROGRESS", "FAILED", "COMPLETE"} \subseteq Statuses
      /\ \A a \in Actions, s \in Statuses : State(a, s) \in States
  BY DEF Actions, Statuses, State, States
<1>1. ASSUME NEW c \in Calls, Store(c) PROVE TypeOK'
  BY <1>1, <1>p, <1>q, <1>s, MoveTypeOK DEF Store, Places
<1>23. ASSUME NEW c \in Calls, CreateStackUser(c) PROVE TypeOK'
  BY <1>23, <1>p, <1>q, <1>s, MoveTypeOK DEF CreateStackUser, Places
<1>2. ASSUME NEW c \in Calls, Request(c) PROVE TypeOK'
  BY <1>2, <1>p, <1>q, MoveTypeOK DEF Request, Places
<1>3. ASSUME NEW c \in Calls, Acquire(c) PROVE TypeOK'
  BY <1>3, <1>p, <1>q, <1>w, MoveTypeOK DEF Acquire, Places
<1>4. ASSUME NEW c \in Calls, Ping(c) PROVE TypeOK'
  BY <1>4, <1>p, <1>q, MoveTypeOK DEF Ping, Places
<1>5. ASSUME NEW c \in Calls, Steal(c) PROVE TypeOK'
  <2>1. pc' \in [Calls -> Places] /\ group' \subseteq Calls /\ UNCHANGED <<up, waits>>
    BY <1>5, <1>w, MoveTypeOK DEF Steal, Places
  <2>2. lock' \in Engines \cup {None} /\ retry' \in [Calls -> BOOLEAN] /\ UNCHANGED <<stack, mine, seen>>
    BY <1>5, <1>p DEF Steal
  <2> QED
    BY <2>1, <2>2, <1>p, <1>q
<1>6. ASSUME NEW c \in Calls, Refetch(c) PROVE TypeOK'
  BY <1>6, <1>p, <1>q, MoveTypeOK DEF Refetch, Places, Working
<1>7. ASSUME NEW c \in Calls, Run(c) PROVE TypeOK'
  <2>1. mine' \in [Calls -> States] /\ stack' \in States \cup {NoRow}
    BY <1>7, <1>p, <1>m, <1>s, VerbType, StateSetTypeOK DEF Run, Works
  <2>2. pc' \in [Calls -> Places] /\ group' \subseteq Calls /\ UNCHANGED <<up, waits>>
    BY <1>7, MoveTypeOK DEF Run, Places, Working
  <2> QED
    BY <1>7, <2>1, <2>2, <1>p, <1>q DEF Run
<1>8. ASSUME NEW c \in Calls, Rollback(c) PROVE TypeOK'
  <2>1. mine' \in [Calls -> States] /\ stack' \in States \cup {NoRow}
    BY <1>8, <1>s, StateSetTypeOK DEF Rollback
  <2>2. pc' \in [Calls -> Places] /\ group' \subseteq Calls /\ UNCHANGED <<up, waits>>
    BY <1>8, MoveTypeOK DEF Rollback, Places, Working
  <2> QED
    BY <1>8, <2>1, <2>2, <1>p, <1>q DEF Rollback
<1>9. ASSUME NEW c \in Calls, Finish(c) PROVE TypeOK'
  <2>1. mine' \in [Calls -> States] /\ stack' \in States \cup {NoRow}
    BY <1>9, <1>m, <1>s, StateSetTypeOK DEF Finish
  <2>2. pc' \in [Calls -> Places] /\ group' \subseteq Calls /\ UNCHANGED <<up, waits>>
    BY <1>9, MoveTypeOK DEF Finish, Places, Working
  <2> QED
    BY <1>9, <2>1, <2>2, <1>p, <1>q DEF Finish
<1>10. ASSUME NEW c \in Calls, Purge(c) PROVE TypeOK'
  BY <1>10, <1>p, <1>q, MoveTypeOK DEF Purge, Places, Working
<1>11. ASSUME NEW c \in Calls, Die(c) PROVE TypeOK'
  <2>1. mine' \in [Calls -> States] /\ stack' \in States \cup {NoRow}
    BY <1>11, <1>p, <1>m, <1>s, StateSetTypeOK DEF Die
  <2>2. pc' \in [Calls -> Places] /\ group' \subseteq Calls /\ UNCHANGED <<up, waits>>
    BY <1>11, MoveTypeOK DEF Die, Places, Working
  <2> QED
    BY <1>11, <2>1, <2>2, <1>p, <1>q DEF Die
<1>12. ASSUME NEW c \in Calls, Exit(c) PROVE TypeOK'
  BY <1>12, <1>p, <1>q, MoveTypeOK DEF Exit, Places
<1>13. ASSUME NEW c \in Calls, Try(c) PROVE TypeOK'
  BY <1>13, <1>p, <1>q, MoveTypeOK DEF Try, Places, Working
<1>14. ASSUME NEW c \in Calls, Notify(c) PROVE TypeOK'
  BY <1>14, <1>p, <1>q, MoveTypeOK DEF Notify, Places
<1>15. ASSUME NEW c \in Calls, Poll(c) PROVE TypeOK'
  BY <1>15, <1>p, <1>q, MoveTypeOK DEF Poll, Places, Working
<1>16. ASSUME NEW c \in Calls, Expire(c) PROVE TypeOK'
  BY <1>16, <1>p, <1>q, MoveTypeOK DEF Expire, Places
<1>17. ASSUME NEW c \in Calls, Stop(c) PROVE TypeOK'
  <2>1. PICK e \in up : StopThreads(c, e)
    BY <1>17 DEF Stop
  <2>2. \A at \in Places : Stopped(at) \in Places
    BY DEF Stopped, Places, Working
  <2>3. pc' \in [Calls -> Places]
    BY <2>1, <2>2, <1>p DEF StopThreads, Places
  <2> QED
    BY <2>1, <2>3, <1>p, <1>q DEF StopThreads, Threads
<1>18. ASSUME NEW c \in Calls, StopFails(c) PROVE TypeOK'
  BY <1>18, <1>p, <1>q, MoveTypeOK DEF StopFails, Places
<1>19. ASSUME NEW c \in Calls, Links(c) PROVE TypeOK'
  BY <1>19, <1>p, <1>q, MoveTypeOK DEF Links, Places
<1>20. ASSUME NEW c \in Calls, Retake(c) PROVE TypeOK'
  BY <1>20, <1>p, <1>q, MoveTypeOK DEF Retake, Places
<1>21. ASSUME NEW e \in Engines, Crash(e) PROVE TypeOK'
  BY <1>21, <1>p, <1>q DEF Crash
<1>22. CASE UNCHANGED vars
  BY <1>22, <1>p, <1>q DEF vars
<1> QED
  BY <1>1, <1>2, <1>3, <1>4, <1>5, <1>6, <1>7, <1>8, <1>9, <1>10, <1>11, <1>12, <1>13, <1>14,
     <1>15, <1>16, <1>17, <1>18, <1>19, <1>20, <1>21, <1>22, <1>23 DEF Next, Step

(* The rows, the calls and the thread groups keep their shape. *)
THEOREM TypeCorrect == Spec => []TypeOK
BY InitTypeOK, NextTypeOK, PTL DEF Spec
--------------------------------------------------------------------------------
Others(c) == \A d \in Calls \ {c} : pc'[d] = pc[d] /\ seen'[d] = seen[d]

(* A step that leaves the lock row alone, one that takes it, one that ends *)
(* a thread that worked under it.                                          *)
Quiet(c) ==
  /\ lock' = lock
  /\ pc'[c] \in Working <=> pc[c] \in Working
  /\ pc'[c] = "steal" => (MissesPing(seen[c]) /\ seen'[c] = seen[c])
  /\ \/ stack' = stack
     \/ pc[c] \in Working /\ stack' \in {mine'[c], NoRow}
     \/ pc[c] = "project" /\ stack # NoRow /\ stack' = mine[c]
     \/ Store(c)

Takes(c) ==
  /\ lock = None \/ (pc[c] = "steal" /\ lock = seen[c])
  /\ lock' = EngineOf[c]
  /\ pc'[c] \in Working
  /\ stack' = stack

Frees(c) ==
  /\ pc[c] \in Working /\ pc'[c] = "done"
  /\ \/ lock' = None /\ lock = EngineOf[c]
     \/ lock' = lock /\ (lock # EngineOf[c] \/ stack' = NoRow)
  /\ stack' = stack \/ (stack # NoRow /\ stack' = mine'[c])

LEMMA MoveShape ==
  ASSUME TypeOK, NEW c \in Calls, NEW from, NEW to, Move(c, from, to)
  PROVE  /\ Live(c) /\ up' = up /\ pc[c] = from /\ pc'[c] = to
         /\ \A d \in Calls \ {c} : pc'[d] = pc[d]
BY DEF TypeOK, Move, Live

LEMMA LockedWorks == \A c \in Calls : Locked(c) \in Working
BY DEF Locked, Working

LEMMA StateSetShape ==
  ASSUME TypeOK, NEW c \in Calls, NEW a, NEW s, StateSet(c, a, s)
  PROVE  stack' = stack \/ stack' = mine'[c]
BY DEF TypeOK, StateSet

LEMMA StepShape ==
  ASSUME TypeOK, NEW c \in Calls, Store(c) \/ Request(c) \/ Step(c), ~Stop(c)
  PROVE  /\ Live(c) /\ up' = up /\ Others(c)
         /\ Quiet(c) \/ Takes(c) \/ Frees(c)
<1> USE DEF Working
<1>t. TypeOK
  OBVIOUS
<1>n. seen \in [Calls -> Engines \cup {None}] /\ mine \in [Calls -> States]
  BY DEF TypeOK
<1>1. CASE Store(c)
  <2>1. pc[c] = "idle" /\ pc'[c] = "project" /\ Live(c) /\ up' = up
        /\ \A d \in Calls \ {c} : pc'[d] = pc[d]
    BY <1>1, MoveShape DEF Store
  <2>2. UNCHANGED <<lock, seen>>
    BY <1>1 DEF Store
  <2> QED
    BY <1>1, <2>1, <2>2 DEF Quiet, Others
<1>20. CASE CreateStackUser(c)
  BY <1>20, MoveShape DEF CreateStackUser, Quiet, Others
<1>2. CASE Request(c)
  BY <1>2, MoveShape DEF Request, Quiet, Others
<1>3. CASE Acquire(c)
  <2>1. CASE lock = None
    BY <1>3, <2>1, MoveShape, LockedWorks DEF Acquire, Takes, Others
  <2>2. CASE lock = EngineOf[c]
    BY <1>3, <2>2, MoveShape DEF Acquire, Quiet, Others
  <2>3. CASE lock \notin {None, EngineOf[c]}
    BY <1>3, <2>3, <1>n, MoveShape DEF Acquire, Quiet, Others
  <2> QED
    BY <2>1, <2>2, <2>3
<1>4. CASE Ping(c)
  BY <1>4, MoveShape DEF Ping, Quiet, Others
<1>5. CASE Steal(c)
  <2>1. CASE lock = seen[c] /\ Move(c, "steal", Locked(c)) /\ lock' = EngineOf[c]
    BY <1>5, <2>1, MoveShape, LockedWorks DEF Steal, Takes, Others
  <2>2. CASE Move(c, "steal", "acquire") /\ UNCHANGED lock
    BY <1>5, <2>2, MoveShape DEF Steal, Quiet, Others
  <2>3. CASE Move(c, "steal", "quit") /\ UNCHANGED lock
    BY <1>5, <2>3, MoveShape DEF Steal, Quiet, Others
  <2> QED
    BY <1>5, <2>1, <2>2, <2>3 DEF Steal
<1>6. CASE Refetch(c)
  <2>1. CASE Move(c, "refetch", "thread") /\ UNCHANGED lock
    BY <1>6, <2>1, MoveShape DEF Refetch, Quiet, Others
  <2>2. CASE Move(c, "refetch", "done") /\ lock' = IF lock = EngineOf[c] THEN None ELSE lock
    BY <1>6, <2>2, MoveShape DEF Refetch, Frees, Others
  <2> QED
    BY <1>6, <2>1, <2>2 DEF Refetch
<1>7. CASE Run(c)
  <2>1. pc[c] = "thread" /\ pc'[c] \in {"run", "exit"} /\ Live(c) /\ up' = up
        /\ \A d \in Calls \ {c} : pc'[d] = pc[d]
    BY <1>7, MoveShape DEF Run
  <2>2. stack' = stack \/ stack' = mine'[c]
    BY <1>7, StateSetShape DEF Run
  <2> QED
    BY <1>7, <2>1, <2>2 DEF Run, Quiet, Others
<1>8. CASE Rollback(c)
  <2>1. pc[c] \in {"thread", "run"} /\ pc'[c] = "run" /\ Live(c) /\ up' = up
        /\ \A d \in Calls \ {c} : pc'[d] = pc[d]
    BY <1>8, MoveShape DEF Rollback
  <2> QED
    BY <1>8, <2>1, StateSetShape DEF Rollback, Quiet, Others
<1>9. CASE Finish(c)
  <2>1. pc[c] = "run" /\ pc'[c] \in {"purge", "exit"} /\ Live(c) /\ up' = up
        /\ \A d \in Calls \ {c} : pc'[d] = pc[d]
    BY <1>9, MoveShape DEF Finish
  <2> QED
    BY <1>9, <2>1, StateSetShape DEF Finish, Quiet, Others
<1>10. CASE Purge(c)
  BY <1>10, MoveShape DEF Purge, Quiet, Others
<1>11. CASE Die(c)
  <2>1. pc[c] \in {"killed", "unborn"} /\ pc'[c] = "exit" /\ Live(c) /\ up' = up
        /\ \A d \in Calls \ {c} : pc'[d] = pc[d]
    BY <1>11, MoveShape DEF Die
  <2>2. stack' = stack \/ stack' = mine'[c]
    BY <1>11, StateSetShape DEF Die
  <2> QED
    BY <1>11, <2>1, <2>2 DEF Die, Quiet, Others
<1>12. CASE Exit(c)
  <2>1. pc[c] = "exit" /\ pc'[c] = "done" /\ Live(c) /\ up' = up
        /\ \A d \in Calls \ {c} : pc'[d] = pc[d]
    BY <1>12, MoveShape DEF Exit
  <2>2. /\ \/ lock' = None /\ lock = EngineOf[c]
           \/ lock' = lock /\ (lock # EngineOf[c] \/ stack' = NoRow)
        /\ stack' = stack \/ (stack # NoRow /\ stack' = mine'[c])
        /\ seen' = seen
    BY <1>12 DEF Exit
  <2> QED
    BY <2>1, <2>2 DEF Frees, Others
<1>13. CASE Try(c)
  <2>1. CASE lock = None
    BY <1>13, <2>1, MoveShape DEF Try, Takes, Others
  <2>2. CASE lock # None
    BY <1>13, <2>2, <1>n, MoveShape DEF Try, Quiet, Others
  <2> QED
    BY <2>1, <2>2
<1>14. CASE Notify(c)
  BY <1>14, MoveShape DEF Notify, Quiet, Others
<1>15. CASE Poll(c)
  <2>1. PICK at \in {"poll", "wait"} :
          \/ lock = None /\ Move(c, at, "thread") /\ lock' = EngineOf[c] /\ UNCHANGED seen
          \/ lock = None /\ Move(c, at, "quit") /\ UNCHANGED <<lock, mine, seen>>
          \/ /\ lock # None /\ Move(c, at, "wait") /\ seen' = [seen EXCEPT ![c] = lock]
             /\ UNCHANGED <<lock, mine>>
    BY <1>15 DEF Poll
  <2>2. stack' = stack
    BY <1>15 DEF Poll
  <2>3. CASE lock = None /\ Move(c, at, "thread") /\ lock' = EngineOf[c] /\ UNCHANGED seen
    BY <2>2, <2>3, MoveShape DEF Takes, Others
  <2>4. CASE Move(c, at, "quit") /\ UNCHANGED <<lock, mine, seen>>
    BY <2>1, <2>2, <2>4, MoveShape DEF Quiet, Others
  <2>5. CASE Move(c, at, "wait") /\ seen' = [seen EXCEPT ![c] = lock] /\ UNCHANGED lock
    BY <2>1, <2>2, <2>5, <1>n, MoveShape DEF Quiet, Others
  <2> QED
    BY <2>1, <2>3, <2>4, <2>5
<1>16. CASE Expire(c)
  BY <1>16, MoveShape DEF Expire, Quiet, Others
<1>17. CASE StopFails(c)
  BY <1>17, MoveShape DEF StopFails, Quiet, Others
<1>18. CASE Links(c)
  BY <1>18, MoveShape DEF Links, Quiet, Others
<1>19. CASE Retake(c)
  BY <1>19, MoveShape DEF Retake, Quiet, Others
<1> QED
  BY <1>1, <1>2, <1>3, <1>4, <1>5, <1>6, <1>7, <1>8, <1>9, <1>10, <1>11, <1>12, <1>13, <1>14,
     <1>15, <1>16, <1>17, <1>18, <1>19, <1>20 DEF Step
--------------------------------------------------------------------------------
(* No live engine is taken for dead. *)
Accurate == Slow = {}

(* The lock row names the engine of whoever works on the stack, one works  *)
(* at a time, and only the dead are stolen from.                           *)
LockInv ==
  /\ TypeOK
  /\ \A c \in Calls : Holds(c) => lock = EngineOf[c]
  /\ MutualExclusion
  /\ \A c \in Calls : pc[c] = "steal" => seen[c] \notin up

LEMMA NextLockInv == Accurate /\ LockInv /\ [Next]_vars => LockInv'
<1> SUFFICES ASSUME Accurate, LockInv, [Next]_vars PROVE LockInv'
  OBVIOUS
<1>t. TypeOK /\ TypeOK'
  BY NextTypeOK DEF LockInv
<1>e. None \notin up /\ \A c \in Calls : EngineOf[c] \in Engines
  BY <1>t DEF TypeOK
<1>1. ASSUME NEW c \in Calls, Store(c) \/ Request(c) \/ Step(c), ~Stop(c) PROVE LockInv'
  <2>1. Live(c) /\ up' = up /\ Others(c) /\ (Quiet(c) \/ Takes(c) \/ Frees(c))
    BY <1>1, <1>t, StepShape
  <2>2. \A d \in Calls \ {c} : Holds(d)' <=> Holds(d)
    BY <2>1 DEF Others, Holds, Live
  <2>3. CASE Quiet(c)
    <3>1. \A d \in Calls : Holds(d)' => Holds(d)
      BY <2>1, <2>2, <2>3 DEF Quiet, Holds, Live
    <3>2. pc'[c] = "steal" => seen'[c] \notin up'
      BY <2>1, <2>3 DEF Quiet, MissesPing, Accurate
    <3> QED
      BY <1>t, <2>1, <2>3, <3>1, <3>2 DEF LockInv, MutualExclusion, Others, Quiet
  <2>4. CASE Takes(c)
    (* The row was free, or named an engine that is dead: nobody holds. *)
    <3>1. lock \notin up
      BY <2>4, <1>e DEF Takes, LockInv
    <3>2. \A d \in Calls : ~Holds(d)
      BY <3>1 DEF LockInv, Holds, Live
    <3>3. \A d \in Calls : Holds(d)' => d = c
      BY <2>2, <3>2
    <3>4. pc'[c] # "steal"
      BY <2>4 DEF Takes, Working
    <3> QED
      BY <1>t, <2>1, <2>4, <3>3, <3>4 DEF LockInv, MutualExclusion, Others, Takes
  <2>5. CASE Frees(c)
    <3>1. Holds(c)
      BY <2>1, <2>5 DEF Frees, Holds
    <3>2. \A d \in Calls : ~Holds(d)'
      BY <2>2, <2>5, <3>1 DEF LockInv, MutualExclusion, Frees, Holds, Working
    <3>3. pc'[c] # "steal"
      BY <2>5 DEF Frees
    <3> QED
      BY <1>t, <2>1, <3>2, <3>3 DEF LockInv, MutualExclusion, Others
  <2> QED
    BY <2>1, <2>3, <2>4, <2>5
<1>2. ASSUME NEW c \in Calls, Stop(c) PROVE LockInv'
  <2>1. PICK e \in up : StopThreads(c, e)
    BY <1>2 DEF Stop
  <2>2. \A d \in Calls : pc'[d] = pc[d] \/ pc'[d] = "links" \/ pc'[d] = Stopped(pc[d])
    BY <2>1, <1>t DEF StopThreads, TypeOK
  <2>3. \A at : Stopped(at) # "steal" /\ (Stopped(at) \in Working => at \in Working)
    BY DEF Stopped, Working
  <2>4. \A d \in Calls : Holds(d)' => Holds(d)
    BY <2>1, <2>2, <2>3 DEF StopThreads, Holds, Live, Working
  <2> QED
    BY <1>t, <2>1, <2>2, <2>3, <2>4 DEF StopThreads, LockInv, MutualExclusion
<1>3. ASSUME NEW e \in Engines, Crash(e) PROVE LockInv'
  <2>1. \A d \in Calls : Holds(d)' => Holds(d)
    BY <1>3 DEF Crash, Holds, Live
  <2> QED
    BY <1>3, <1>t, <2>1 DEF Crash, LockInv, MutualExclusion
<1>4. CASE UNCHANGED vars
  <2>1. \A d \in Calls : Holds(d)' <=> Holds(d)
    BY <1>4 DEF vars, Holds, Live
  <2> QED
    BY <1>4, <1>t, <2>1 DEF vars, LockInv, MutualExclusion
<1> QED
  BY <1>1, <1>2, <1>3, <1>4 DEF Next

LEMMA LockInvariant == Accurate => (Spec => []LockInv)
<1> SUFFICES ASSUME Accurate PROVE Spec => []LockInv
  OBVIOUS
<1>1. Init => LockInv
  BY InitTypeOK DEF Init, LockInv, MutualExclusion, Holds, Working
<1>2. LockInv /\ [Next]_vars => LockInv'
  BY NextLockInv
<1> QED
  BY <1>1, <1>2, PTL DEF Spec

(* One thread at a time works on the stack, whichever engines die. *)
THEOREM LockExcludes == Accurate => (Spec => []MutualExclusion)
<1>1. LockInv => MutualExclusion
  BY DEF LockInv
<1> QED
  BY <1>1, LockInvariant, PTL

(* And only that thread changes the row of the stack, but for the second   *)
(* store of its creation.                                                  *)
THEOREM HolderWrites == Accurate => (Spec => OnlyHolderWrites)
<1> SUFFICES ASSUME Accurate PROVE Spec => OnlyHolderWrites
  OBVIOUS
<1> DEFINE Writes(c) == \/ Holds(c) /\ EngineOf[c] = lock /\ stack' \in {mine'[c], NoRow}
                        \/ pc[c] = "project" /\ stack' = mine[c]
<1>1. LockInv /\ [Next]_vars => [(stack' # stack /\ stack # NoRow) => \E c \in Calls : Writes(c)]_vars
  <2> SUFFICES ASSUME LockInv, Next, stack' # stack, stack # NoRow
               PROVE  \E c \in Calls : Writes(c)
    OBVIOUS
  <2>1. ASSUME NEW c \in Calls, Store(c) \/ Request(c) \/ Step(c), ~Stop(c) PROVE Writes(c)
    <3>1. Live(c) /\ (Quiet(c) \/ Takes(c) \/ Frees(c))
      BY <2>1, StepShape DEF LockInv
    <3>2. \/ pc[c] \in Working /\ stack' \in {mine'[c], NoRow}
          \/ pc[c] = "project" /\ stack' = mine[c]
      BY <3>1 DEF Quiet, Takes, Frees, Store
    <3> QED
      BY <3>1, <3>2 DEF LockInv, Holds
  <2>2. ASSUME NEW c \in Calls, Stop(c) PROVE FALSE
    BY <2>2 DEF Stop, StopThreads
  <2>3. ASSUME NEW e \in Engines, Crash(e) PROVE FALSE
    BY <2>3 DEF Crash
  <2> QED
    BY <2>1, <2>2, <2>3 DEF Next
<1> QED
  BY <1>1, LockInvariant, PTL DEF Spec, OnlyHolderWrites
--------------------------------------------------------------------------------
Deleting == {"try", "notify", "poll", "wait", "stop", "links", "retake"}
Waiting  == {"poll", "wait", "stop", "links", "retake", "acquire", "ping", "steal"}

(* A thread group holds threads at work, which stop() sends to their       *)
(* callbacks, and deletes that wait, which it ends: never a thread that    *)
(* has gone to its callbacks, nor a reset that has yet to read the stack.  *)
Grouped(c, at) == at \in {"thread", "run", "purge"} \/ (at \in Waiting /\ KindOf[c] = "delete")

GroupInv ==
  /\ \A c \in Calls : pc[c] \in Deleting => KindOf[c] = "delete"
  /\ \A c \in group : Grouped(c, pc[c])

(* Before the row is stored, nothing has begun. *)
Untouched ==
  (\E c \in Calls : KindOf[c] = "create" /\ pc[c] = "idle") =>
    /\ stack = NoRow /\ lock = None
    /\ \A c \in Calls : pc[c] = "idle"

(* A call that moves keeps to its kind, and its thread to its group. *)
LEMMA MoveGroup ==
  ASSUME TypeOK, GroupInv, NEW c \in Calls, NEW from, NEW to, Move(c, from, to),
         to \in Deleting => KindOf[c] = "delete",
         to \in {"thread", "exit", "done", "quit", "poll"}
           \/ (to \in {"run", "purge"} /\ from \in {"thread", "run"})
           \/ (to \in Waiting /\ (from \in Waiting \/ from = "idle"))
           \/ from \in {"idle", "project", "try"}
           \/ (from \in {"acquire", "steal"} /\ KindOf[c] # "delete")
  PROVE  GroupInv'
<1> USE DEF Deleting, Waiting
<1>1. pc[c] = from /\ pc'[c] = to /\ \A d \in Calls \ {c} : pc'[d] = pc[d]
  BY DEF TypeOK, Move
<1>2. \A d \in group' : d # c => (d \in group /\ pc'[d] = pc[d])
  BY <1>1 DEF Move, TypeOK
<1>3. c \in group' => (c \in group \/ to \in {"thread", "poll"}) /\ to \notin {"exit", "done", "quit"}
  BY <1>1 DEF Move
<1>4. c \in group => Grouped(c, from)
  BY <1>1 DEF GroupInv
<1>5. c \in group' => Grouped(c, to)
  BY <1>3, <1>4 DEF Grouped
<1>6. \A d \in Calls : pc'[d] \in Deleting => KindOf[d] = "delete"
  <2>1. TAKE d \in Calls
  <2>2. CASE d = c
    BY <2>2, <1>1
  <2>3. CASE d # c
    BY <2>3, <1>1 DEF GroupInv
  <2> QED
    BY <2>2, <2>3
<1>7. \A d \in group' : Grouped(d, pc'[d])
  <2>1. TAKE d \in group'
  <2>2. CASE d = c
    BY <2>2, <1>1, <1>5
  <2>3. CASE d # c
    BY <2>3, <1>2 DEF GroupInv
  <2> QED
    BY <2>2, <2>3
<1> QED
  BY <1>6, <1>7 DEF GroupInv

LEMMA NextGroup == TypeOK /\ GroupInv /\ [Next]_vars => GroupInv'
<1> SUFFICES ASSUME TypeOK, GroupInv, [Next]_vars PROVE GroupInv'
  OBVIOUS
<1>t. TypeOK /\ GroupInv
  OBVIOUS
<1>k. \A c \in Calls : pc[c] \in Deleting => KindOf[c] = "delete"
  BY DEF GroupInv
<1> USE DEF Deleting, Waiting
<1>1. ASSUME NEW c \in Calls, Store(c) PROVE GroupInv'
  BY <1>1, <1>t, MoveGroup DEF Store
<1>23. ASSUME NEW c \in Calls, CreateStackUser(c) PROVE GroupInv'
  BY <1>23, <1>t, MoveGroup DEF CreateStackUser
<1>2. ASSUME NEW c \in Calls, Request(c) PROVE GroupInv'
  BY <1>2, <1>t, MoveGroup DEF Request
<1>3. ASSUME NEW c \in Calls, Acquire(c) PROVE GroupInv'
  BY <1>3, <1>t, MoveGroup DEF Acquire, Locked
<1>4. ASSUME NEW c \in Calls, Ping(c) PROVE GroupInv'
  BY <1>4, <1>t, MoveGroup DEF Ping
<1>5. ASSUME NEW c \in Calls, Steal(c) PROVE GroupInv'
  BY <1>5, <1>t, MoveGroup DEF Steal, Locked
<1>6. ASSUME NEW c \in Calls, Refetch(c) PROVE GroupInv'
  BY <1>6, <1>t, MoveGroup DEF Refetch
<1>7. ASSUME NEW c \in Calls, Run(c) PROVE GroupInv'
  BY <1>7, <1>t, MoveGroup DEF Run
<1>8. ASSUME NEW c \in Calls, Rollback(c) PROVE GroupInv'
  BY <1>8, <1>t, MoveGroup DEF Rollback
<1>9. ASSUME NEW c \in Calls, Finish(c) PROVE GroupInv'
  BY <1>9, <1>t, MoveGroup DEF Finish
<1>10. ASSUME NEW c \in Calls, Purge(c) PROVE GroupInv'
  BY <1>10, <1>t, MoveGroup DEF Purge
<1>11. ASSUME NEW c \in Calls, Die(c) PROVE GroupInv'
  BY <1>11, <1>t, MoveGroup DEF Die
<1>12. ASSUME NEW c \in Calls, Exit(c) PROVE GroupInv'
  BY <1>12, <1>t, MoveGroup DEF Exit
<1>13. ASSUME NEW c \in Calls, Try(c) PROVE GroupInv'
  <2>1. KindOf[c] = "delete"
    BY <1>13, <1>k DEF Try, Move
  <2> QED
    BY <1>13, <2>1, <1>t, MoveGroup DEF Try
<1>14. ASSUME NEW c \in Calls, Notify(c) PROVE GroupInv'
  <2>1. KindOf[c] = "delete"
    BY <1>14, <1>k DEF Notify, Move
  <2> QED
    BY <1>14, <2>1, <1>t, MoveGroup DEF Notify
<1>15. ASSUME NEW c \in Calls, Poll(c) PROVE GroupInv'
  <2>1. KindOf[c] = "delete"
    BY <1>15, <1>k DEF Poll, Move
  <2> QED
    BY <1>15, <2>1, <1>t, MoveGroup DEF Poll
<1>16. ASSUME NEW c \in Calls, Expire(c) PROVE GroupInv'
  <2>1. KindOf[c] = "delete"
    BY <1>16, <1>k DEF Expire, Move
  <2> QED
    BY <1>16, <2>1, <1>t, MoveGroup DEF Expire
<1>17. ASSUME NEW c \in Calls, Stop(c) PROVE GroupInv'
  <2>1. PICK e \in up : StopThreads(c, e)
    BY <1>17 DEF Stop
  <2>2. KindOf[c] = "delete"
    BY <2>1, <1>k DEF StopThreads
  <2>3. \A at : Stopped(at) \notin Deleting
    BY DEF Stopped
  <2>4. \A d \in group' : d # c => pc'[d] = pc[d]
    BY <2>1, <1>t DEF StopThreads, TypeOK
  <2>5. \A d \in Calls : d = c \/ pc'[d] = pc[d] \/ pc'[d] = Stopped(pc[d])
    BY <2>1, <1>t DEF StopThreads, TypeOK
  <2>6. pc'[c] = "links" /\ group' \subseteq group
    BY <2>1, <1>t DEF StopThreads, TypeOK
  <2> QED
    BY <2>2, <2>3, <2>4, <2>5, <2>6, <1>t DEF GroupInv, Grouped, TypeOK
<1>18. ASSUME NEW c \in Calls, StopFails(c) PROVE GroupInv'
  <2>1. CASE Move(c, "stop", "retake")
    <3>1. KindOf[c] = "delete"
      BY <2>1, <1>k DEF Move
    <3> QED
      BY <2>1, <3>1, <1>t, MoveGroup
  <2> QED
    BY <1>18, <2>1, <1>t, MoveGroup DEF StopFails
<1>19. ASSUME NEW c \in Calls, Links(c) PROVE GroupInv'
  <2>1. KindOf[c] = "delete"
    BY <1>19, <1>k DEF Links, Move
  <2> QED
    BY <1>19, <2>1, <1>t, MoveGroup DEF Links
<1>20. ASSUME NEW c \in Calls, Retake(c) PROVE GroupInv'
  BY <1>20, <1>t, MoveGroup DEF Retake
<1>21. ASSUME NEW e \in Engines, Crash(e) PROVE GroupInv'
  BY <1>21 DEF Crash, GroupInv
<1>22. CASE UNCHANGED vars
  BY <1>22 DEF vars, GroupInv
<1> QED
  BY <1>1, <1>2, <1>3, <1>4, <1>5, <1>6, <1>7, <1>8, <1>9, <1>10, <1>11, <1>12, <1>13, <1>14,
     <1>15, <1>16, <1>17, <1>18, <1>19, <1>20, <1>21, <1>22, <1>23 DEF Next, Step

HolderInv == TypeOK /\ GroupInv /\ Untouched /\ LockHasHolder

LEMMA NextUntouched == TypeOK /\ Untouched /\ [Next]_vars => Untouched'
<1> SUFFICES ASSUME TypeOK, Untouched, [Next]_vars,
                    NEW d \in Calls, KindOf[d] = "create", pc'[d] = "idle"
             PROVE  stack' = NoRow /\ lock' = None /\ \A c \in Calls : pc'[c] = "idle"
  BY DEF Untouched
<1>1. ASSUME NEW c \in Calls, Step(c) PROVE pc[c] # "idle"
  BY <1>1 DEF Step, CreateStackUser, Acquire, Ping, Steal, Refetch, Run, Rollback, Finish, Purge, Die, Exit,
     Try, Notify, Poll, Expire, Stop, StopThreads, StopFails, Links, Retake, Move
<1>2. ASSUME NEW c \in Calls, Store(c) \/ Request(c) \/ Step(c), ~Stop(c) PROVE FALSE
  <2>1. Others(c)
    BY <1>2, StepShape
  <2>2. CASE Store(c)
    <3>1. pc'[c] = "project" /\ KindOf[c] = "create"
      BY <2>2, MoveShape DEF Store
    <3> QED
      BY <3>1
  <2>3. CASE Request(c)
    <3>1. stack # NoRow /\ KindOf[c] # "create"
      BY <2>3 DEF Request
    <3>2. pc[d] = "idle"
      BY <2>1, <3>1 DEF Others
    <3> QED
      BY <3>1, <3>2 DEF Untouched
  <2>4. CASE Step(c)
    <3>1. pc[c] # "idle"
      BY <1>1, <2>4
    <3>2. CASE d # c
      BY <2>1, <3>1, <3>2 DEF Others, Untouched
    <3>3. CASE d = c
      BY <1>2, <2>4, <3>1, <3>3, MoveShape, LockedWorks DEF Step, CreateStackUser, Acquire, Ping, Steal, Refetch, Run,
         Rollback, Finish, Purge, Die, Exit, Try, Notify, Poll, Expire, StopFails, Links, Retake, Working
    <3> QED
      BY <3>2, <3>3
  <2> QED
    BY <1>2, <2>2, <2>3, <2>4
<1>3. ASSUME NEW c \in Calls, Stop(c) PROVE FALSE
  <2>1. PICK e \in up : StopThreads(c, e)
    BY <1>3 DEF Stop
  <2>2. \A at : Stopped(at) # "idle"
    BY DEF Stopped
  <2>3. pc[c] = "stop" /\ pc[d] = "idle"
    BY <2>1, <2>2 DEF StopThreads, TypeOK
  <2> QED
    BY <2>3 DEF Untouched
<1>4. ASSUME NEW e \in Engines, Crash(e)
      PROVE  stack' = NoRow /\ lock' = None /\ \A c \in Calls : pc'[c] = "idle"
  BY <1>4 DEF Crash, Untouched
<1>5. CASE UNCHANGED vars
  BY <1>5 DEF vars, Untouched
<1> QED
  BY <1>2, <1>3, <1>4, <1>5 DEF Next

LEMMA NextHasHolder == HolderInv /\ [Next]_vars => LockHasHolder'
<1> SUFFICES ASSUME HolderInv, [Next]_vars, lock' \in up', stack' # NoRow
             PROVE  \E c \in Calls : Holds(c)' /\ EngineOf[c] = lock'
  BY DEF LockHasHolder
<1>t. TypeOK /\ None \notin up
  BY DEF HolderInv, TypeOK
<1>1. ASSUME NEW c \in Calls, Store(c) \/ Request(c) \/ Step(c), ~Stop(c)
      PROVE  \E d \in Calls : Holds(d)' /\ EngineOf[d] = lock'
  <2>1. Live(c) /\ up' = up /\ Others(c) /\ (Quiet(c) \/ Takes(c) \/ Frees(c))
    BY <1>1, <1>t, StepShape
  <2>2. \A d \in Calls \ {c} : Holds(d)' <=> Holds(d)
    BY <2>1 DEF Others, Holds, Live
  <2>3. CASE Store(c)
    BY <2>1, <2>3, <1>t DEF Store, Move, HolderInv, Untouched
  <2>4. CASE Quiet(c) /\ ~Store(c)
    <3>1. stack # NoRow
      BY <2>4, <1>1 DEF Quiet, Request, Step, CreateStackUser, Acquire, Ping, Steal, Refetch, Run, Rollback, Finish,
         Purge, Die, Exit, StateSet, Try, Notify, Poll, Expire, StopFails, Links, Retake
    <3>2. PICK d \in Calls : Holds(d) /\ EngineOf[d] = lock
      BY <2>1, <2>4, <3>1 DEF HolderInv, LockHasHolder, Quiet
    <3>3. Holds(d)'
      BY <2>1, <2>2, <2>4, <3>2 DEF Quiet, Holds, Live
    <3> QED
      BY <2>4, <3>2, <3>3 DEF Quiet
  <2>5. CASE Takes(c)
    BY <2>1, <2>5 DEF Takes, Holds, Live
  <2>6. CASE Frees(c)
    (* The thread that ends frees its lock; else the lock is another's. *)
    <3>1. lock' = lock /\ lock # EngineOf[c] /\ stack # NoRow
      BY <2>1, <2>6, <1>t DEF Frees
    <3>2. PICK d \in Calls : Holds(d) /\ EngineOf[d] = lock
      BY <2>1, <3>1 DEF HolderInv, LockHasHolder
    <3> QED
      BY <2>2, <3>1, <3>2
  <2> QED
    BY <2>1, <2>3, <2>4, <2>5, <2>6
<1>2. ASSUME NEW c \in Calls, Stop(c)
      PROVE  \E d \in Calls : Holds(d)' /\ EngineOf[d] = lock'
  <2>1. PICK e \in up : StopThreads(c, e)
    BY <1>2 DEF Stop
  <2>2. UNCHANGED <<lock, stack, up>>
    BY <2>1 DEF StopThreads
  <2>3. PICK d \in Calls : Holds(d) /\ EngineOf[d] = lock
    BY <2>2 DEF HolderInv, LockHasHolder
  <2>4. d # c
    BY <2>1, <2>3 DEF StopThreads, Holds, Working
  (* A holder in the group is stopped on its way to its callback. *)
  <2>5. pc'[d] = pc[d] \/ (d \in group /\ pc'[d] = Stopped(pc[d]))
    BY <2>1, <2>4, <1>t DEF StopThreads, Threads, TypeOK
  <2>6. d \in group => pc[d] \in {"thread", "run", "purge"}
    BY <2>3 DEF HolderInv, GroupInv, Grouped, Waiting, Holds, Working
  <2>7. pc'[d] \in Working
    BY <2>3, <2>5, <2>6 DEF Stopped, Holds, Working
  <2> QED
    BY <2>2, <2>3, <2>7 DEF Holds, Live
<1>3. ASSUME NEW e \in Engines, Crash(e)
      PROVE  \E d \in Calls : Holds(d)' /\ EngineOf[d] = lock'
  <2>1. lock \in up /\ stack # NoRow /\ lock' = lock /\ pc' = pc
    BY <1>3 DEF Crash
  <2>2. PICK d \in Calls : Holds(d) /\ EngineOf[d] = lock
    BY <2>1 DEF HolderInv, LockHasHolder
  <2> QED
    BY <2>1, <2>2 DEF Holds, Live
<1>4. CASE UNCHANGED vars
  <2>1. PICK d \in Calls : Holds(d) /\ EngineOf[d] = lock
    BY <1>4 DEF HolderInv, LockHasHolder, vars
  <2> QED
    BY <1>4, <2>1 DEF vars, Holds, Live
<1> QED
  BY <1>1, <1>2, <1>3, <1>4 DEF Next

(* No lock of a stack that exists is orphaned by a live engine, whatever   *)
(* is stopped, stolen or taken for dead.                                   *)
THEOREM NoOrphanedLock == Spec => []LockHasHolder
<1>1. Init => HolderInv
  <2>1. Init => GroupInv /\ Untouched
    BY DEF Init, GroupInv, Untouched, Deleting, Creation
  <2>2. Init => LockHasHolder
    BY DEF Init, LockHasHolder
  <2> QED
    BY <2>1, <2>2, InitTypeOK DEF HolderInv
<1>2. HolderInv /\ [Next]_vars => HolderInv'
  BY NextTypeOK, NextGroup, NextUntouched, NextHasHolder DEF HolderInv
<1>3. HolderInv => LockHasHolder
  BY DEF HolderInv
<1> QED
  BY <1>1, <1>2, <1>3, PTL DEF Spec
--------------------------------------------------------------------------------
Late == \E c \in Calls : Uncreated(c)

(* The delete that stopped the thread waits for its end, or gave up. *)
Stopper(c) == \E d \in Calls : KindOf[d] = "delete" /\ pc[d] \in {"links", "quit"} /\ c \in waits[d]

(* What a thread will have settled when it frees the lock: an operation    *)
(* that runs says so in memory, and one that has come to its callback has  *)
(* stored another status, or will with the release, or never began, but    *)
(* for what the creation has written over it.                              *)
MineInv(c) ==
  /\ pc[c] = "refetch" => KindOf[c] = "reset"
  /\ pc[c] = "project" => (KindOf[c] = "create" /\ mine[c] = State("CREATE", "IN_PROGRESS"))
  /\ (KindOf[c] = "create" /\ pc[c] \in {"acquire", "ping", "steal", "thread"})
       => mine[c].action = "CREATE"
  /\ pc[c] = "run" => mine[c].status = "IN_PROGRESS"
  /\ (pc[c] = "run" /\ KindOf[c] = "delete") => mine[c].action = "DELETE"
  /\ (Live(c) /\ pc[c] = "killed") => (mine[c].status = "IN_PROGRESS" \/ ~InProgress \/ Late)
  /\ (Live(c) /\ pc[c] = "purge") => (~InProgress \/ Late)
  /\ (Live(c) /\ pc[c] = "exit") => (~InProgress \/ Persists(c) \/ Late \/ Stopper(c))
  /\ (Live(c) /\ pc[c] = "unborn") => Stopper(c)

SettledInv ==
  /\ LockInv /\ GroupInv /\ Untouched
  /\ UnlockedIsSettled
  /\ \A c \in Calls : MineInv(c)

(* A step is its call's own: it leaves the others' objects alone. *)
LEMMA StepOwn ==
  ASSUME TypeOK, NEW c \in Calls, Store(c) \/ Request(c) \/ Step(c), ~Stop(c)
  PROVE  waits' = waits /\ \A d \in Calls \ {c} : mine'[d] = mine[d]
<1>n. mine \in [Calls -> States]
  BY DEF TypeOK
<1>s. \A a, s : StateSet(c, a, s) => \A d \in Calls \ {c} : mine'[d] = mine[d]
  BY <1>n DEF StateSet
<1>1. waits' = waits
  BY DEF Step, CreateStackUser, Store, Request, Acquire, Ping, Steal, Refetch, Run, Rollback, Finish, Purge, Die, Exit,
     Try, Notify, Poll, Expire, StopFails, Links, Retake, Move
<1>2. CASE Store(c) \/ CreateStackUser(c) \/ Request(c) \/ Acquire(c) \/ Ping(c) \/ Steal(c) \/ Refetch(c) \/ Exit(c) \/ Try(c)
        \/ Notify(c) \/ Poll(c) \/ Expire(c) \/ StopFails(c) \/ Links(c) \/ Retake(c)
  BY <1>1, <1>2, <1>n DEF Store, CreateStackUser, Request, Acquire, Ping, Steal, Refetch, Exit, Try, Notify, Poll, Expire,
     StopFails, Links, Retake
<1>3. CASE Run(c) \/ Rollback(c) \/ Finish(c) \/ Purge(c) \/ Die(c)
  BY <1>1, <1>3, <1>s DEF Run, Rollback, Finish, Purge, Die
<1> QED
  BY <1>2, <1>3 DEF Step

Asking == {"acquire", "ping", "steal"}

(* How the places of the excuses are left. *)
LEMMA LeavesWait ==
  ASSUME TypeOK, NEW c \in Calls, Store(c) \/ Request(c) \/ Step(c), ~Stop(c)
  PROVE  /\ pc[c] # "quit"
         /\ pc[c] = "project" => (KindOf[c] = "create" /\ pc'[c] \in {"acquire", "quit"})
         /\ pc[c] = "links" =>
              pc'[c] = "quit" \/ (pc'[c] = "retake" /\ \A d \in waits[c] : Ended(d))
         /\ pc[c] = "retake" => pc'[c] \in {"acquire", "quit"}
         /\ pc[c] \in Asking => (Takes(c) \/ pc'[c] \in Asking \cup {"quit"})
         /\ (pc[c] = "acquire" /\ lock = None) => lock' # None
         /\ (pc[c] \in Working /\ pc'[c] = "done") => Exit(c) \/ Refetch(c)
<1>n. EngineOf[c] # None
  OBVIOUS
<1>0. pc[c] # "quit"
  BY MoveShape DEF Step, CreateStackUser, Store, Request, Acquire, Ping, Steal, Refetch, Run, Rollback, Finish,
     Purge, Die, Exit, Try, Notify, Poll, Expire, StopFails, Links, Retake
<1>6. ASSUME pc[c] = "project" PROVE KindOf[c] = "create" /\ pc'[c] \in {"acquire", "quit"}
  BY <1>6, MoveShape DEF Step, CreateStackUser, Store, Request, Acquire, Ping, Steal, Refetch, Run, Rollback, Finish,
     Purge, Die, Exit, Try, Notify, Poll, Expire, StopFails, Links, Retake
<1>1. ASSUME pc[c] = "links"
      PROVE  pc'[c] = "quit" \/ (pc'[c] = "retake" /\ \A d \in waits[c] : Ended(d))
  BY <1>1, MoveShape DEF Step, CreateStackUser, Store, Request, Acquire, Ping, Steal, Refetch, Run, Rollback, Finish,
     Purge, Die, Exit, Try, Notify, Poll, Expire, StopFails, Links, Retake
<1>2. ASSUME pc[c] = "retake" PROVE pc'[c] \in {"acquire", "quit"}
  BY <1>2, MoveShape DEF Step, CreateStackUser, Store, Request, Acquire, Ping, Steal, Refetch, Run, Rollback, Finish,
     Purge, Die, Exit, Try, Notify, Poll, Expire, StopFails, Links, Retake
<1>3. ASSUME pc[c] = "acquire", lock = None PROVE lock' # None
  BY <1>3, <1>n, MoveShape DEF Step, CreateStackUser, Store, Request, Acquire, Ping, Steal, Refetch, Run, Rollback, Finish,
     Purge, Die, Exit, Try, Notify, Poll, Expire, StopFails, Links, Retake
<1>4. ASSUME pc[c] \in Working, pc'[c] = "done" PROVE Exit(c) \/ Refetch(c)
  BY <1>4, MoveShape, LockedWorks DEF Step, CreateStackUser, Store, Request, Acquire, Ping, Steal, Refetch, Run, Rollback, Finish,
     Purge, Die, Exit, Try, Notify, Poll, Expire, StopFails, Links, Retake, Working
<1>5. ASSUME pc[c] \in Asking PROVE Takes(c) \/ pc'[c] \in Asking \cup {"quit"}
  <2>1. Acquire(c) \/ Ping(c) \/ Steal(c)
    BY <1>5, MoveShape DEF Step, CreateStackUser, Store, Request, Acquire, Ping, Steal, Refetch, Run, Rollback, Finish,
     Purge, Die, Exit, Try, Notify, Poll, Expire, StopFails, Links, Retake, Asking
  <2>2. CASE Acquire(c)
    BY <2>2, MoveShape, LockedWorks DEF Acquire, Takes, Asking
  <2>3. CASE Ping(c)
    BY <2>3, MoveShape DEF Ping, Asking
  <2>4. CASE Steal(c)
    BY <2>4, MoveShape, LockedWorks DEF Steal, Takes, Asking
  <2> QED
    BY <2>1, <2>2, <2>3, <2>4
<1> QED
  BY <1>0, <1>1, <1>2, <1>3, <1>4, <1>5, <1>6

(* A status that ends an operation is stored at once or with the release. *)
LEMMA EndsStored ==
  ASSUME TypeOK, NEW c \in Calls, NEW a \in Actions, NEW s \in {"COMPLETE", "FAILED"}, StateSet(c, a, s)
  PROVE  /\ ~InProgress' \/ Persists(c)'
         /\ a \in Early => ~InProgress'
<1>1. mine'[c] = State(a, s) /\ (a \in Early => stack' \in {NoRow, State(a, s)})
  BY DEF StateSet, TypeOK
<1> QED
  BY <1>1 DEF Persists, InProgress, State

(* The creation writes over nothing but with its own excuse, and keeps it  *)
(* until it takes the lock.                                                *)
LEMMA LateStays ==
  ASSUME SettledInv, NEW c \in Calls, Store(c) \/ Request(c) \/ Step(c), ~Stop(c)
  PROVE  /\ (Late /\ stack' = stack /\ ~Takes(c)) => Late'
         /\ (pc[c] = "project" /\ stack' # stack) => Late'
<1>t. TypeOK
  BY DEF SettledInv, LockInv
<1>1. ASSUME Late, stack' = stack, ~Takes(c) PROVE Late'
  <2>1. PICK d \in Calls : Uncreated(d)
    BY <1>1 DEF Late
  <2>2. d # c => pc'[d] = pc[d]
    BY <1>t, StepShape DEF Others
  <2>3. pc'[d] \in {"project", "acquire", "ping", "steal", "quit"}
    BY <2>1, <2>2, <1>1, <1>t, LeavesWait DEF Uncreated, Asking
  <2> QED
    BY <2>1, <2>3, <1>1 DEF Uncreated, Late
<1>2. ASSUME pc[c] = "project", stack' # stack PROVE Late'
  <2>1. KindOf[c] = "create" /\ pc'[c] \in {"acquire", "quit"}
    BY <1>2, <1>t, LeavesWait
  <2>2. stack' = State("CREATE", "IN_PROGRESS")
    BY <1>2, <1>t, StepShape, MoveShape DEF SettledInv, MineInv, Quiet, Takes, Frees, Working, Store
  <2> QED
    BY <2>1, <2>2 DEF Uncreated, Late
<1> QED
  BY <1>1, <1>2

(* A thread that works keeps what it relies on through a step of another.  *)
LEMMA OthersKeep ==
  ASSUME SettledInv, NEW c \in Calls, Store(c) \/ Request(c) \/ Step(c), ~Stop(c),
         NEW d \in Calls, d # c
  PROVE  MineInv(d)'
<1>t. TypeOK /\ MutualExclusion
  BY DEF SettledInv, LockInv
<1>1. /\ Live(c) /\ up' = up /\ pc'[d] = pc[d] /\ mine'[d] = mine[d] /\ waits' = waits
      /\ \A e \in Calls \ {c} : pc'[e] = pc[e]
      /\ Quiet(c) \/ Takes(c) \/ Frees(c)
  BY <1>t, StepShape, StepOwn DEF Others
<1>3. Holds(d) => Late' \/ ((InProgress' <=> InProgress) /\ ~Late)
  <2>1. SUFFICES ASSUME Holds(d) PROVE Late' \/ (stack' = stack /\ ~Late)
    BY DEF InProgress
  <2>2. pc[c] \notin Working
    BY <2>1, <1>t, <1>1 DEF MutualExclusion, Holds
  <2>3. ~Store(c)
    <3>1. ASSUME Store(c) PROVE pc[d] = "idle"
      BY <3>1, MoveShape, <1>t DEF Store, SettledInv, Untouched
    <3> QED
      BY <3>1, <2>1 DEF Holds, Working
  <2>4. stack' = stack \/ pc[c] = "project"
    BY <1>1, <2>2, <2>3 DEF Quiet, Takes, Frees
  <2>5. ~Takes(c)
    <3>1. lock = EngineOf[d] /\ lock \in up /\ lock # None
      BY <2>1 DEF SettledInv, LockInv, Holds, Live
    <3> QED
      BY <3>1 DEF Takes, SettledInv, LockInv
  <2> QED
    BY <2>4, <2>5, LateStays
<1>4. (Live(d) /\ pc[d] \in {"exit", "unborn"} /\ Stopper(d)) => Stopper(d)'
  <2>1. SUFFICES ASSUME Live(d), pc[d] \in {"exit", "unborn"}, Stopper(d)
                 PROVE  Stopper(d)'
    OBVIOUS
  <2>2. PICK e \in Calls : KindOf[e] = "delete" /\ pc[e] \in {"links", "quit"} /\ d \in waits[e]
    BY <2>1 DEF Stopper
  <2>3. ~Ended(d)
    BY <2>1 DEF Ended, Live
  <2>4. pc'[e] \in {"links", "quit"}
    BY <1>1, <1>t, <2>2, <2>3, LeavesWait
  <2> QED
    BY <1>1, <2>2, <2>4 DEF Stopper
<1>5. Live(d)' <=> Live(d)
  BY <1>1 DEF Live
<1>6. MineInv(d)
  BY DEF SettledInv
<1>7. (Live(d) /\ pc[d] \in {"killed", "purge", "exit", "unborn"}) => Holds(d)
  BY DEF Holds, Working
<1>8. Persists(d)' <=> Persists(d)
  BY <1>1 DEF Persists
<1> QED
  BY <1>1, <1>3, <1>4, <1>5, <1>6, <1>7, <1>8 DEF MineInv

(* And through a step of its own. *)
LEMMA OwnKeep ==
  ASSUME SettledInv, NEW c \in Calls, Store(c) \/ Request(c) \/ Step(c), ~Stop(c)
  PROVE  MineInv(c)'
<1>t. TypeOK
  BY DEF SettledInv, LockInv
<1>i. MineInv(c)
  BY DEF SettledInv
<1>m. mine[c].action \in Actions /\ mine[c].status \in Statuses /\ mine \in [Calls -> States]
  BY <1>t DEF TypeOK, States
<1>s. /\ "CREATE" \in Actions /\ "ROLLBACK" \in Actions
      /\ \A a, s : State(a, s).action = a /\ State(a, s).status = s
      /\ \A a, s : StateSet(c, a, s) => mine'[c] = State(a, s)
  BY <1>m DEF Actions, State, StateSet
<1>l. Live(c) /\ up' = up
  BY <1>t, StepShape
<1>k. pc[c] \in Deleting => KindOf[c] = "delete"
  BY DEF SettledInv, GroupInv
<1>1. CASE Run(c)
  <2>1. pc[c] = "thread" /\ pc'[c] \in {"run", "exit"}
    BY <1>1, <1>t, MoveShape DEF Run
  <2>2. CASE Works(c) /\ Idles(c) /\ Move(c, "thread", "exit") /\ UNCHANGED <<stack, mine>>
    <3>1. Persists(c)
      BY <2>1, <2>2, <1>i, <1>s DEF Persists, Idles, MineInv, Verb, Early
    <3>2. pc'[c] = "exit" /\ Persists(c)'
      BY <2>2, <3>1, <1>t, MoveShape DEF Persists
    <3> QED
      BY <3>2 DEF MineInv
  <2>3. CASE Works(c) /\ Move(c, "thread", "run") /\ StateSet(c, Verb[KindOf[c]], "IN_PROGRESS")
    <3>1. pc'[c] = "run" /\ mine'[c] = State(Verb[KindOf[c]], "IN_PROGRESS")
      BY <2>3, <1>t, <1>s, MoveShape
    <3> QED
      BY <3>1, <1>s DEF MineInv, Verb
  <2>4. ASSUME NEW a \in Actions, Move(c, "thread", "exit"), StateSet(c, a, "FAILED") PROVE MineInv(c)'
    <3>1. pc'[c] = "exit"
      BY <2>4, <1>t, MoveShape
    <3>2. ~InProgress' \/ Persists(c)'
      BY <2>4, <1>t, EndsStored
    <3> QED
      BY <3>1, <3>2 DEF MineInv
  <2> QED
    BY <1>1, <2>2, <2>3, <2>4, <1>m, VerbType DEF Run, Works
<1>2. CASE Rollback(c)
  <2>1. pc'[c] = "run" /\ mine'[c] = State("ROLLBACK", "IN_PROGRESS")
    BY <1>2, <1>t, <1>s, MoveShape DEF Rollback
  <2>2. KindOf[c] # "delete"
    BY <1>2, <1>t, <1>i, MoveShape DEF Rollback, MineInv
  <2> QED
    BY <2>1, <2>2, <1>s DEF MineInv
<1>3. CASE Finish(c)
  <2>1. PICK s \in {"COMPLETE", "FAILED"} :
          /\ Move(c, "run", IF Deletes(c) /\ s = "COMPLETE" THEN "purge" ELSE "exit")
          /\ StateSet(c, mine[c].action, s)
    BY <1>3 DEF Finish
  <2>2. /\ ~InProgress' \/ Persists(c)'
        /\ mine[c].action \in Early => ~InProgress'
    BY <2>1, <1>t, <1>m, EndsStored
  <2>3. pc[c] = "run" /\ pc'[c] = IF Deletes(c) /\ s = "COMPLETE" THEN "purge" ELSE "exit"
    BY <2>1, <1>t, MoveShape
  <2>4. Deletes(c) => mine[c].action \in Early
    BY <2>3, <1>i DEF Deletes, MineInv, Early
  <2> QED
    BY <2>2, <2>3, <2>4 DEF MineInv
<1>4. CASE Purge(c)
  <2>1. pc'[c] = "exit" /\ ~InProgress'
    BY <1>4, <1>t, MoveShape DEF Purge, InProgress
  <2> QED
    BY <2>1 DEF MineInv
<1>5. CASE Die(c)
  <2>1. pc[c] \in {"killed", "unborn"} /\ pc'[c] = "exit"
    BY <1>5, <1>t, MoveShape DEF Die
  <2>2. CASE StateSet(c, mine[c].action, "FAILED")
    <3>1. ~InProgress' \/ Persists(c)'
      BY <2>2, <1>t, <1>m, EndsStored
    <3> QED
      BY <2>1, <3>1 DEF MineInv
  <2>3. CASE mine[c].status # "IN_PROGRESS" /\ pc[c] = "killed" /\ UNCHANGED <<stack, mine>>
    <3>1. ~InProgress \/ Late
      BY <2>3, <1>i, <1>l DEF MineInv
    <3>2. Late => Late'
      <4>1. lock = EngineOf[c] /\ lock # None
        BY <2>3, <1>l DEF SettledInv, LockInv, Holds, Working
      <4> QED
        BY <2>3, <4>1, LateStays DEF Takes
    <3> QED
      BY <2>1, <2>3, <3>1, <3>2 DEF MineInv, InProgress
  <2>4. CASE pc[c] = "unborn" /\ UNCHANGED <<stack, mine>>
    <3>2. Stopper(c) => Stopper(c)'
      BY <2>4, <1>t, StepShape, StepOwn DEF Stopper, Others
    <3> QED
      BY <2>1, <2>4, <3>2, <1>i, <1>l DEF MineInv
  <2> QED
    BY <1>5, <2>2, <2>3, <2>4, <1>t, MoveShape DEF Die
<1>6. CASE Store(c)
  <2>1. pc'[c] = "project" /\ KindOf[c] = "create" /\ mine'[c] = State("CREATE", "IN_PROGRESS")
    BY <1>6, <1>t, <1>m, MoveShape DEF Store
  <2> QED
    BY <2>1 DEF MineInv
<1>10. CASE CreateStackUser(c) \/ Request(c)
  <2>1. pc'[c] \in {"acquire", "try", "quit"}
    BY <1>10, <1>t, MoveShape DEF CreateStackUser, Request
  <2>2. KindOf[c] = "create" => mine'[c].action = "CREATE"
    BY <1>10, <1>m, <1>s, <1>i, <1>t, MoveShape DEF CreateStackUser, Request, MineInv
  <2> QED
    BY <2>1, <2>2 DEF MineInv
<1>7. CASE Acquire(c) \/ Ping(c) \/ Steal(c)
  <2>1. pc[c] \in {"acquire", "ping", "steal"} /\ mine' = mine
    BY <1>7, <1>t, MoveShape DEF Acquire, Ping, Steal
  <2>2. pc'[c] \in {"acquire", "ping", "steal", "quit", Locked(c)}
    BY <1>7, <1>t, MoveShape DEF Acquire, Ping, Steal
  <2> QED
    BY <2>1, <2>2, <1>i DEF MineInv, Locked
<1>8. CASE Refetch(c)
  <2>1. pc[c] = "refetch" /\ pc'[c] \in {"thread", "done"}
    BY <1>8, <1>t, MoveShape DEF Refetch
  <2> QED
    BY <2>1, <1>i DEF MineInv
<1>9. CASE Exit(c) \/ Try(c) \/ Notify(c) \/ Poll(c) \/ Expire(c) \/ StopFails(c) \/ Links(c) \/ Retake(c)
  <2>1. pc'[c] \in {"thread", "poll", "notify", "done", "quit", "wait", "stop", "retake", "acquire"}
    BY <1>9, <1>t, MoveShape DEF Exit, Try, Notify, Poll, Expire, StopFails, Links, Retake
  <2>2. pc[c] = "exit" \/ KindOf[c] = "delete"
    BY <1>9, <1>t, <1>k, MoveShape DEF Exit, Try, Notify, Poll, Expire, StopFails, Links, Retake, Deleting
  <2>3. pc[c] = "exit" => pc'[c] = "done"
    BY <1>9, <1>t, MoveShape DEF Exit, Try, Notify, Poll, Expire, StopFails, Links, Retake
  <2> QED
    BY <2>1, <2>2, <2>3 DEF MineInv
<1> QED
  BY <1>1, <1>2, <1>3, <1>4, <1>5, <1>6, <1>7, <1>8, <1>9, <1>10 DEF Step

(* The lock is freed by a thread that has settled the stack, or that a     *)
(* delete has stopped; while it is free nobody loses an excuse.            *)
LEMMA KeepsSettled ==
  ASSUME SettledInv, NEW c \in Calls, Store(c) \/ Request(c) \/ Step(c), ~Stop(c)
  PROVE  UnlockedIsSettled'
<1> SUFFICES ASSUME lock' = None, InProgress' PROVE \E d \in Calls : Uncreated(d)' \/ Interrupted(d)'
  BY DEF UnlockedIsSettled
<1>t. TypeOK
  BY DEF SettledInv, LockInv
<1>1. /\ Live(c) /\ up' = up /\ waits' = waits
      /\ \A d \in Calls \ {c} : pc'[d] = pc[d]
      /\ Quiet(c) \/ Takes(c) \/ Frees(c)
  BY <1>t, StepShape, StepOwn DEF Others
<1>2. pc[c] \in Working => lock # None
  BY <1>1 DEF SettledInv, LockInv, Holds
<1>l. Late' => \E d \in Calls : Uncreated(d)'
  BY DEF Late
<1>5. ~Takes(c)
  BY DEF Takes
<1>3. CASE Store(c)
  <2>1. KindOf[c] = "create" /\ pc'[c] = "project" /\ stack' = State("CREATE", "IN_PROGRESS")
    BY <1>3, <1>t, MoveShape DEF Store
  <2> QED
    BY <2>1 DEF Uncreated
<1>4. CASE Quiet(c) /\ ~Store(c)
  <2>1. lock = None /\ (stack' = stack \/ pc[c] = "project")
    BY <1>2, <1>4 DEF Quiet
  <2>2. CASE stack' # stack
    BY <2>1, <2>2, <1>l, LateStays
  <2>3. CASE stack' = stack
    <3>1. PICK d \in Calls : Uncreated(d) \/ Interrupted(d)
      BY <2>1, <2>3 DEF InProgress, SettledInv, UnlockedIsSettled
    <3>2. CASE Uncreated(d)
      BY <2>3, <3>2, <1>l, <1>5, LateStays DEF Late
    <3>3. CASE Interrupted(d)
      <4>1. d # c => pc'[d] = pc[d]
        BY <1>1
      <4>2. pc'[d] \in {"links", "retake", "acquire", "ping", "steal", "quit"}
        BY <3>3, <4>1, <1>5, <1>t, LeavesWait DEF Interrupted, Asking
      <4> QED
        BY <3>3, <4>2, <1>1 DEF Interrupted
    <3> QED
      BY <3>1, <3>2, <3>3
  <2> QED
    BY <2>2, <2>3
<1>6. CASE Frees(c)
  <2>1. pc[c] \in Working /\ pc'[c] = "done"
    BY <1>6 DEF Frees
  <2>2. CASE Refetch(c)
    BY <2>1, <2>2, <1>t, MoveShape DEF Refetch, InProgress
  <2>3. CASE Exit(c)
    <3>1. pc[c] = "exit"
      BY <2>3, <1>t, MoveShape DEF Exit
    <3>2. ~Persists(c) /\ InProgress /\ stack' = stack
      BY <2>3 DEF Exit, Persists, InProgress
    <3>3. Late \/ Stopper(c)
      BY <3>1, <3>2, <1>1 DEF SettledInv, MineInv
    <3>4. CASE Stopper(c)
      <4>1. PICK d \in Calls : KindOf[d] = "delete" /\ pc[d] \in {"links", "quit"} /\ c \in waits[d]
        BY <3>4 DEF Stopper
      <4>2. pc'[d] = pc[d] /\ waits'[d] # {}
        BY <1>1, <3>1, <4>1
      <4> QED
        BY <4>1, <4>2 DEF Interrupted
    <3> QED
      BY <3>2, <3>3, <3>4, <1>l, <1>5, LateStays
  <2> QED
    BY <2>1, <2>2, <2>3, <1>t, LeavesWait
<1> QED
  BY <1>1, <1>3, <1>4, <1>5, <1>6

LEMMA StopKeepsSettled ==
  ASSUME SettledInv, NEW c \in Calls, Stop(c)
  PROVE  UnlockedIsSettled' /\ \A d \in Calls : MineInv(d)'
<1>t. TypeOK
  BY DEF SettledInv, LockInv
<1>1. PICK e \in up : StopThreads(c, e)
  BY DEF Stop
<1>2. /\ UNCHANGED <<lock, stack, up, mine>>
      /\ KindOf[c] = "delete" /\ pc[c] = "stop" /\ pc'[c] = "links"
      /\ waits'[c] = Threads(e)
      /\ \A d \in Calls \ {c} : waits'[d] = waits[d]
      /\ \A d \in Calls \ {c} :
           \/ pc'[d] = pc[d]
           \/ d \in Threads(e) /\ d \in group /\ pc'[d] = Stopped(pc[d])
  BY <1>1, <1>t DEF StopThreads, TypeOK, SettledInv, GroupInv, Deleting, Threads
<1>3. \A d \in Calls : Uncreated(d) => Uncreated(d)'
  BY <1>2 DEF Uncreated, Stopped
<1>6. \A d \in Calls : Interrupted(d) => Interrupted(d)'
  BY <1>2 DEF Interrupted, Stopped
<1>7. Late => Late'
  BY <1>3 DEF Late
<1>4. UnlockedIsSettled'
  BY <1>2, <1>3, <1>6 DEF SettledInv, UnlockedIsSettled, InProgress
<1>5. ASSUME NEW d \in Calls PROVE MineInv(d)'
  <2>1. MineInv(d) /\ (InProgress' <=> InProgress) /\ (Live(d)' <=> Live(d))
        /\ mine'[d] = mine[d] /\ (Persists(d)' <=> Persists(d))
    BY <1>2 DEF SettledInv, InProgress, Live, Persists
  <2>2. CASE d = c
    BY <2>2, <1>2 DEF MineInv
  <2>3. CASE d # c /\ pc'[d] = pc[d]
    <3>1. Stopper(d) => Stopper(d)'
      <4>1. SUFFICES ASSUME Stopper(d) PROVE Stopper(d)'
        OBVIOUS
      <4>2. PICK f \in Calls : KindOf[f] = "delete" /\ pc[f] \in {"links", "quit"} /\ d \in waits[f]
        BY <4>1 DEF Stopper
      <4>3. f # c /\ waits'[f] = waits[f]
        BY <4>2, <1>2
      <4>4. pc'[f] \in {"links", "quit"}
        BY <4>2, <4>3, <1>2 DEF Stopped
      <4> QED
        BY <4>2, <4>3, <4>4 DEF Stopper
    <3> QED
      BY <2>1, <2>3, <3>1, <1>7 DEF MineInv
  <2>4. CASE d # c /\ d \in Threads(e) /\ d \in group /\ pc'[d] = Stopped(pc[d])
    <3>1. pc[d] \in {"thread", "run", "purge"} \/ pc[d] \in Waiting
      BY <2>4 DEF SettledInv, GroupInv, Grouped
    <3>2. CASE pc[d] = "thread"
      <4>1. pc'[d] = "unborn" /\ Stopper(d)'
        BY <2>4, <3>2, <1>2 DEF Stopped, Stopper
      <4> QED
        BY <4>1 DEF MineInv
    <3>3. CASE pc[d] \in {"run", "purge"}
      BY <2>1, <2>4, <3>3, <1>7 DEF Stopped, MineInv
    <3>4. CASE pc[d] \in Waiting
      <4>1. pc'[d] = "quit"
        BY <2>4, <3>4 DEF Stopped, Waiting
      <4> QED
        BY <4>1 DEF MineInv
    <3> QED
      BY <3>1, <3>2, <3>3, <3>4
  <2> QED
    BY <2>2, <2>3, <2>4, <1>2
<1> QED
  BY <1>4, <1>5

LEMMA CrashKeepsSettled ==
  ASSUME SettledInv, NEW e \in Engines, Crash(e)
  PROVE  UnlockedIsSettled' /\ \A d \in Calls : MineInv(d)'
<1>1. UNCHANGED <<lock, stack, pc, mine, waits>> /\ up' \subseteq up
  BY DEF Crash
<1>2. \A d \in Calls : (Uncreated(d)' <=> Uncreated(d)) /\ (Interrupted(d)' <=> Interrupted(d))
  BY <1>1 DEF Uncreated, Interrupted
<1>3. UnlockedIsSettled'
  BY <1>1, <1>2 DEF SettledInv, UnlockedIsSettled, InProgress
<1>4. ASSUME NEW d \in Calls PROVE MineInv(d)'
  <2>1. /\ MineInv(d) /\ (Live(d)' => Live(d)) /\ (Stopper(d)' <=> Stopper(d))
        /\ (Persists(d)' <=> Persists(d)) /\ (InProgress' <=> InProgress) /\ (Late' <=> Late)
    BY <1>1, <1>2 DEF SettledInv, Live, Stopper, Persists, InProgress, Late
  <2> QED
    BY <1>1, <2>1 DEF MineInv
<1> QED
  BY <1>3, <1>4

LEMMA NextSettled == Accurate /\ SettledInv /\ [Next]_vars => SettledInv'
<1> SUFFICES ASSUME Accurate, SettledInv, [Next]_vars PROVE SettledInv'
  OBVIOUS
<1>1. LockInv' /\ GroupInv' /\ Untouched'
  BY NextLockInv, NextGroup, NextUntouched DEF SettledInv, LockInv
<1>2. ASSUME NEW c \in Calls, Store(c) \/ Request(c) \/ Step(c), ~Stop(c)
      PROVE  UnlockedIsSettled' /\ \A d \in Calls : MineInv(d)'
  BY <1>2, KeepsSettled, OwnKeep, OthersKeep
<1>3. CASE UNCHANGED vars
  <2>1. \A d \in Calls : (Uncreated(d)' <=> Uncreated(d)) /\ (Interrupted(d)' <=> Interrupted(d))
    BY <1>3 DEF vars, Uncreated, Interrupted
  <2>2. UnlockedIsSettled' /\ (Late' <=> Late)
    BY <1>3, <2>1 DEF vars, SettledInv, UnlockedIsSettled, InProgress, Late
  <2>3. \A d \in Calls : MineInv(d)'
    BY <1>3, <2>2 DEF vars, SettledInv, InProgress, Live, MineInv, Persists, Stopper
  <2> QED
    BY <1>1, <2>2, <2>3 DEF SettledInv
<1>4. CASE Next
  <2>1. UnlockedIsSettled' /\ \A d \in Calls : MineInv(d)'
    BY <1>2, <1>4, StopKeepsSettled, CrashKeepsSettled DEF Next, Step
  <2> QED
    BY <1>1, <2>1 DEF SettledInv
<1> QED
  BY <1>3, <1>4

(* Whichever engines die, whoever steals their locks and whatever deletes  *)
(* stop, a stack is IN_PROGRESS and unlocked only as its creation stored   *)
(* it, without the lock, or because of a delete that stopped threads and   *)
(* has not locked the stack since.                                         *)
THEOREM UnlockedSettles == Accurate => (Spec => []UnlockedIsSettled)
<1> SUFFICES ASSUME Accurate PROVE Spec => []UnlockedIsSettled
  OBVIOUS
<1>1. Init => SettledInv
  <2>1. Init => LockInv /\ GroupInv /\ Untouched
    BY InitTypeOK DEF Init, LockInv, MutualExclusion, Holds, Working, GroupInv, Untouched, Deleting, Creation
  <2>2. Init => UnlockedIsSettled
    BY DEF Init, UnlockedIsSettled, InProgress, State
  <2>3. Init => \A c \in Calls : MineInv(c)
    BY DEF Init, MineInv
  <2> QED
    BY <2>1, <2>2, <2>3 DEF SettledInv
<1>2. SettledInv /\ [Next]_vars => SettledInv'
  BY NextSettled
<1>3. SettledInv => UnlockedIsSettled
  BY DEF SettledInv
<1> QED
  BY <1>1, <1>2, <1>3, PTL DEF Spec
===============================================================================
