------------------------------- MODULE StackLock -------------------------------
(***************************************************************************)
(* The lock of a stack that is not handled by convergence, and the calls   *)
(* of the engine service that work under it.  A lock is a row of table     *)
(* stack_lock naming an engine; a thread works on the stack while the row  *)
(* names its engine, and the row is deleted by a callback linked to the    *)
(* thread's end (ThreadGroupManager.start_with_acquired_lock).  A call     *)
(* loads the stack before it asks for the lock.  A delete that finds the   *)
(* lock taken asks for the other operation to be cancelled, polls, and in  *)
(* the end has the threads stopped (EngineService.delete_stack).  An       *)
(* engine that starts resets the stacks it finds IN_PROGRESS and can lock  *)
(* (reset_stack_status).                                                   *)
(***************************************************************************)
EXTENDS Naturals, FiniteSets

CONSTANTS Engines,   \* engine ids; a restarted engine has a new one
          Calls,     \* the calls made about the stack
          KindOf,    \* what a call does
          EngineOf,  \* the engine that serves it
          None,      \* no lock row
          NoRow,     \* the stack is not stored, or is deleted
          Mortal,    \* the engines that may die
          Slow       \* live engines that may miss engine_life_check_timeout

Kinds == {"create", "update", "suspend", "resume", "delete", "reset"}

ASSUME CallsAssumption  == KindOf \in [Calls -> Kinds] /\ EngineOf \in [Calls -> Engines]
ASSUME NoneAssumption   == None \notin Engines
ASSUME FaultsAssumption == Mortal \subseteq Engines /\ Slow \subseteq Engines
ASSUME CreateAssumption ==
  \A c, d \in Calls : (KindOf[c] = "create" /\ KindOf[d] = "create") => c = d

VARIABLES lock,   \* the engine the lock row names
          stack,  \* action and status of the stack row
          up,     \* the engines that live
          pc,     \* where each call stands
          mine,   \* action and status in each call's own Stack object
          seen,   \* the engine each call last found in the lock row
          retry,  \* acquire() may start again
          group,  \* the calls with a thread in their engine's thread group of the stack
          waits   \* the threads each stop() waits for

vars == <<lock, stack, up, pc, mine, seen, retry, group, waits>>

Actions  == {"CREATE", "UPDATE", "SUSPEND", "RESUME", "DELETE", "ROLLBACK"}
Statuses == {"IN_PROGRESS", "COMPLETE", "FAILED"}
States   == [action : Actions, status : Statuses]
State(action, status) == [action |-> action, status |-> status]
Verb == [create |-> "CREATE", update |-> "UPDATE", suspend |-> "SUSPEND",
         resume |-> "RESUME", delete |-> "DELETE"]

(* What state_set() stores at once; the rest waits for the release. *)
Early == {"UPDATE", "DELETE", "ROLLBACK"}

Creation == \E c \in Calls : KindOf[c] = "create"

Init ==
  /\ lock = None
  /\ stack = IF Creation THEN NoRow ELSE State("CREATE", "COMPLETE")
  /\ up = Engines
  /\ pc = [c \in Calls |-> "idle"]
  /\ mine = [c \in Calls |-> State("CREATE", "IN_PROGRESS")]
  /\ seen = [c \in Calls |-> None]
  /\ retry = [c \in Calls |-> KindOf[c] # "reset"]
  /\ group = {}
  /\ waits = [c \in Calls |-> {}]

(* The call goes on, if its engine lives; "quit" is the end of a call that *)
(* never got the lock.  A thread is in its group from its start to its     *)
(* end; the callbacks run when it has left.                                *)
Move(c, from, to) ==
  /\ EngineOf[c] \in up
  /\ pc[c] = from
  /\ pc' = [pc EXCEPT ![c] = to]
  /\ group' = IF to \in {"thread", "poll"} THEN group \cup {c}
              ELSE IF to \in {"exit", "done", "quit"} THEN group \ {c} ELSE group
  /\ UNCHANGED <<up, waits>>

(* Stack.state_set(), and update_task's store(). *)
StateSet(c, action, status) ==
  /\ mine' = [mine EXCEPT ![c] = State(action, status)]
  /\ stack' = IF stack # NoRow /\ (status = "IN_PROGRESS" \/ action \in Early)
                THEN State(action, status) ELSE stack

(* create_stack: the row is stored before its lock is asked for. *)
Store(c) ==
  /\ KindOf[c] = "create" /\ stack = NoRow
  /\ Move(c, "idle", "project")
  /\ stack' = State("CREATE", "IN_PROGRESS")
  /\ mine' = [mine EXCEPT ![c] = State("CREATE", "IN_PROGRESS")]
  /\ UNCHANGED <<lock, seen, retry>>

(* _create_stack_user: once keystone has made the project the whole row is *)
(* stored again, over what others wrote, and with no lock.  Nothing is     *)
(* stored for a stack that has its project, nor when keystone refuses: the *)
(* stack is then FAILED in memory.                                         *)
CreateStackUser(c) ==
  /\ KindOf[c] = "create"
  /\ \/ stack # NoRow /\ Move(c, "project", "acquire") /\ stack' = mine[c] /\ UNCHANGED mine
     \/ stack = NoRow /\ Move(c, "project", "quit") /\ UNCHANGED <<stack, mine>>
     \/ Move(c, "project", "acquire") /\ UNCHANGED <<stack, mine>>
     \/ /\ Move(c, "project", "acquire")
        /\ mine' = [mine EXCEPT ![c] = State("CREATE", "FAILED")]
        /\ UNCHANGED stack
  /\ UNCHANGED <<lock, seen, retry>>

(* The other calls load the stack. *)
Request(c) ==
  /\ KindOf[c] # "create" /\ stack # NoRow
  /\ KindOf[c] = "update" => stack.action \notin {"SUSPEND", "DELETE"}
  /\ KindOf[c] = "delete" => stack # State("DELETE", "COMPLETE")
  /\ KindOf[c] = "reset" => stack.status = "IN_PROGRESS"
  /\ Move(c, "idle", IF KindOf[c] = "delete" THEN "try" ELSE "acquire")
  /\ mine' = [mine EXCEPT ![c] = stack]
  /\ UNCHANGED <<lock, stack, seen, retry>>
--------------------------------------------------------------------------------
Locked(c) == IF KindOf[c] = "reset" THEN "refetch" ELSE "thread"

(* Seeded fault: the lock row is written over. *)
AcquireOver(c) ==
  /\ Move(c, "acquire", Locked(c))
  /\ lock' = EngineOf[c]
  /\ UNCHANGED <<stack, mine, seen, retry>>

(* acquire(): stack_lock_create(). *)
Acquire(c) ==
  /\ \/ lock = None /\ Move(c, "acquire", Locked(c)) /\ lock' = EngineOf[c] /\ UNCHANGED seen
     \/ lock = EngineOf[c] /\ Move(c, "acquire", "quit") /\ UNCHANGED <<lock, seen>>
     \/ /\ lock \notin {None, EngineOf[c]}
        /\ Move(c, "acquire", "ping")
        /\ seen' = [seen EXCEPT ![c] = lock]
        /\ UNCHANGED lock
  /\ UNCHANGED <<stack, mine, retry>>

(* Seeded fault: every engine is taken for dead. *)
MayMissPing(e) == TRUE

(* engine_alive() is False when no answer came in time. *)
MissesPing(e) == e \notin up \/ e \in Slow

Ping(c) ==
  /\ \/ seen[c] \in up /\ Move(c, "ping", "quit")
     \/ MissesPing(seen[c]) /\ Move(c, "ping", "steal")
  /\ UNCHANGED <<lock, stack, mine, seen, retry>>

(* stack_lock_steal(): filtered on the engine that was seen. *)
Steal(c) ==
  /\ \/ lock = seen[c] /\ Move(c, "steal", Locked(c)) /\ lock' = EngineOf[c] /\ UNCHANGED retry
     \/ /\ lock = None /\ retry[c]
        /\ Move(c, "steal", "acquire")
        /\ retry' = [retry EXCEPT ![c] = FALSE]
        /\ UNCHANGED lock
     \/ /\ lock # seen[c] /\ (lock = None => ~retry[c])
        /\ Move(c, "steal", "quit")
        /\ UNCHANGED <<lock, retry>>
  /\ UNCHANGED <<stack, mine, seen>>

(* Seeded fault: the stack that was read again is taken as it is. *)
RefetchGone(c) ==
  /\ Move(c, "refetch", "thread")
  /\ mine' = [mine EXCEPT ![c] = stack]
  /\ UNCHANGED <<lock, stack, seen, retry>>

(* reset_stack_status: with the lock, the stack is read again. *)
Refetch(c) ==
  /\ IF stack # NoRow /\ stack.status = "IN_PROGRESS"
       THEN Move(c, "refetch", "thread") /\ mine' = [mine EXCEPT ![c] = stack] /\ UNCHANGED lock
       ELSE /\ Move(c, "refetch", "done")
            /\ lock' = IF lock = EngineOf[c] THEN None ELSE lock
            /\ UNCHANGED mine
  /\ UNCHANGED <<stack, seen, retry>>
--------------------------------------------------------------------------------
Works(c) == KindOf[c] # "reset" /\ ~(KindOf[c] = "update" /\ mine[c].status = "IN_PROGRESS")

(* Nothing to do: suspended or resumed already, or create_stack failed. *)
Idles(c) ==
  \/ KindOf[c] \in {"suspend", "resume"} /\ mine[c] = State(Verb[KindOf[c]], "COMPLETE")
  \/ KindOf[c] = "create" /\ mine[c].status = "FAILED"

(* The thread runs: stack_task, update_task, delete or the reset.  An      *)
(* update goes no further when its Stack object says IN_PROGRESS.          *)
Run(c) ==
  /\ \/ Works(c) /\ Idles(c) /\ Move(c, "thread", "exit") /\ UNCHANGED <<stack, mine>>
     \/ /\ Works(c) /\ ~Idles(c)
        /\ Move(c, "thread", "run")
        /\ StateSet(c, Verb[KindOf[c]], "IN_PROGRESS")
     \/ /\ Works(c) /\ ~Idles(c) /\ KindOf[c] # "delete"
        /\ Move(c, "thread", "exit")
        /\ StateSet(c, Verb[KindOf[c]], "FAILED")
     \/ ~Works(c) /\ Move(c, "thread", "exit") /\ StateSet(c, mine[c].action, "FAILED")
  /\ UNCHANGED <<lock, seen, retry>>

(* A create or an update that failed rolls back within its thread. *)
Rollback(c) ==
  /\ \/ KindOf[c] = "create" /\ ~Idles(c) /\ Move(c, "thread", "run")
     \/ mine[c].action \in {"CREATE", "UPDATE"} /\ Move(c, "run", "run")
  /\ StateSet(c, "ROLLBACK", "IN_PROGRESS")
  /\ UNCHANGED <<lock, seen, retry>>

(* delete(), also as the rollback of a create, deletes the row at the end. *)
Deletes(c) == KindOf[c] = "delete" \/ (KindOf[c] = "create" /\ mine[c].action = "ROLLBACK")

Finish(c) ==
  /\ \E status \in {"COMPLETE", "FAILED"} :
       /\ Move(c, "run", IF Deletes(c) /\ status = "COMPLETE" THEN "purge" ELSE "exit")
       /\ StateSet(c, mine[c].action, status)
  /\ UNCHANGED <<lock, seen, retry>>

Purge(c) ==
  /\ Move(c, "purge", "exit")
  /\ stack' = NoRow
  /\ UNCHANGED <<lock, mine, seen, retry>>

(* Seeded fault: the callback was not linked to the thread. *)
DieUnlinked(c) ==
  /\ Move(c, "killed", "done") \/ Move(c, "unborn", "done")
  /\ StateSet(c, mine[c].action, "FAILED")
  /\ UNCHANGED <<lock, seen, retry>>

(* A thread that is stopped: reset_state_on_error, if it had begun. *)
Die(c) ==
  /\ \/ /\ KindOf[c] # "reset" /\ mine[c].status = "IN_PROGRESS"
        /\ Move(c, "killed", "exit") \/ Move(c, "unborn", "exit")
        /\ StateSet(c, mine[c].action, "FAILED")
     \/ /\ mine[c].status # "IN_PROGRESS"
        /\ Move(c, "killed", "exit")
        /\ UNCHANGED <<stack, mine>>
     \/ Move(c, "unborn", "exit") /\ UNCHANGED <<stack, mine>>
  /\ UNCHANGED <<lock, seen, retry>>

(* Seeded fault: the callback forgets to store. *)
PersistsNothing(c) == FALSE

(* What the callback stores with the release. *)
Persists(c) == mine[c].status # "IN_PROGRESS" /\ mine[c].action \notin Early

(* The callback: release(), or persist_state_and_release_lock(), which     *)
(* does nothing at all when the row is gone.                               *)
Exit(c) ==
  /\ Move(c, "exit", "done")
  /\ LET persists == Persists(c) IN
       /\ stack' = IF persists /\ stack # NoRow THEN mine[c] ELSE stack
       /\ lock' = IF lock = EngineOf[c] /\ ~(persists /\ stack = NoRow) THEN None ELSE lock
  /\ UNCHANGED <<mine, seen, retry>>
--------------------------------------------------------------------------------
(* delete_stack: try_acquire(); whoever holds the lock is told to cancel.  *)
Try(c) ==
  /\ \/ lock = None /\ Move(c, "try", "thread") /\ lock' = EngineOf[c] /\ UNCHANGED seen
     \/ /\ lock # None
        /\ Move(c, "try", IF lock = EngineOf[c] THEN "poll" ELSE "notify")
        /\ seen' = [seen EXCEPT ![c] = lock]
        /\ UNCHANGED lock
  /\ UNCHANGED <<stack, mine, retry>>

(* The message may fail to be sent to an engine that has just answered. *)
Notify(c) ==
  /\ \/ Move(c, "notify", "poll")
     \/ MissesPing(seen[c]) /\ Move(c, "notify", "quit")
  /\ UNCHANGED <<lock, stack, mine, seen, retry>>

(* wait_then_delete: try_acquire() again, and the stack is loaded again.   *)
Poll(c) ==
  /\ \E at \in {"poll", "wait"} :
       \/ /\ lock = None /\ stack # NoRow
          /\ Move(c, at, "thread")
          /\ lock' = EngineOf[c]
          /\ mine' = [mine EXCEPT ![c] = stack]
          /\ UNCHANGED seen
       \/ lock = None /\ stack = NoRow /\ Move(c, at, "quit") /\ UNCHANGED <<lock, mine, seen>>
       \/ /\ lock # None
          /\ Move(c, at, "wait")
          /\ seen' = [seen EXCEPT ![c] = lock]
          /\ UNCHANGED <<lock, mine>>
  /\ UNCHANGED <<stack, retry>>

(* Seeded fault: every poll starts the watch again. *)
ExpireNever(c) == FALSE

(* The watch has expired. *)
Expire(c) ==
  /\ Move(c, "wait", "stop")
  /\ UNCHANGED <<lock, stack, mine, seen, retry>>

(* Where a stopped thread goes. *)
Stopped(at) == IF at \in {"run", "purge"} THEN "killed" ELSE IF at = "thread" THEN "unborn" ELSE "quit"

Threads(e) == {d \in group : EngineOf[d] = e}

(* ThreadGroupManager.stop(), in this engine or in the one that was seen:  *)
(* the group is taken out, its threads but the calling one are killed, and *)
(* the callbacks of all of them are waited for.                            *)
StopThreads(c, e) ==
  /\ EngineOf[c] \in up
  /\ pc[c] = "stop" /\ seen[c] = e
  /\ pc' = [d \in Calls |-> IF d = c THEN "links"
                            ELSE IF d \in Threads(e) THEN Stopped(pc[d]) ELSE pc[d]]
  /\ group' = group \ Threads(e)
  /\ waits' = [waits EXCEPT ![c] = Threads(e)]
  /\ UNCHANGED <<lock, stack, up, mine, seen, retry>>

Stop(c) == \E e \in up : StopThreads(c, e)

(* Another engine did not answer the ping, or not the call. *)
StopFails(c) ==
  /\ seen[c] # EngineOf[c] /\ MissesPing(seen[c])
  /\ Move(c, "stop", "retake") \/ Move(c, "stop", "quit") \/ Move(c, "links", "quit")
  /\ UNCHANGED <<lock, stack, mine, seen, retry>>

Ended(c) == pc[c] \in {"done", "quit"} \/ EngineOf[c] \notin up

Links(c) ==
  /\ \A d \in waits[c] : Ended(d)
  /\ Move(c, "links", "retake")
  /\ UNCHANGED <<lock, stack, mine, seen, retry>>

(* The stack is loaded again, and acquire() tried. *)
Retake(c) ==
  /\ IF stack # NoRow
       THEN Move(c, "retake", "acquire") /\ mine' = [mine EXCEPT ![c] = stack]
       ELSE Move(c, "retake", "quit") /\ UNCHANGED mine
  /\ UNCHANGED <<lock, stack, seen, retry>>

(* An engine dies; its locks stay. *)
Crash(e) ==
  /\ e \in Mortal \cap up
  /\ up' = up \ {e}
  /\ group' = group \ Threads(e)
  /\ UNCHANGED <<lock, stack, pc, mine, seen, retry, waits>>

Step(c) ==
  \/ CreateStackUser(c)
  \/ Acquire(c) \/ Ping(c) \/ Steal(c) \/ Refetch(c)
  \/ Run(c) \/ Rollback(c) \/ Finish(c) \/ Purge(c) \/ Die(c) \/ Exit(c)
  \/ Try(c) \/ Notify(c) \/ Poll(c) \/ Expire(c)
  \/ Stop(c) \/ StopFails(c) \/ Links(c) \/ Retake(c)

Next ==
  \/ \E c \in Calls : Store(c) \/ Request(c) \/ Step(c)
  \/ \E e \in Engines : Crash(e)

(* Threads of live engines go on, operations end by their timeout, and so  *)
(* does the wait for a cancelled operation.                                *)
Spec == Init /\ [][Next]_vars /\ \A c \in Calls : WF_vars(Step(c)) /\ WF_vars(Expire(c))
--------------------------------------------------------------------------------
Live(c) == EngineOf[c] \in up
Working == {"refetch", "thread", "run", "purge", "killed", "unborn", "exit"}
Holds(c) == Live(c) /\ pc[c] \in Working

(* Shape of the state. *)
TypeOK ==
  /\ lock \in Engines \cup {None}
  /\ stack \in States \cup {NoRow}
  /\ up \subseteq Engines
  /\ pc \in [Calls -> Working \cup {"idle", "project", "acquire", "ping", "steal", "try", "notify", "poll",
                                    "wait", "stop", "links", "retake", "done", "quit"}]
  /\ mine \in [Calls -> States]
  /\ seen \in [Calls -> Engines \cup {None}]
  /\ retry \in [Calls -> BOOLEAN]
  /\ group \subseteq Calls
  /\ waits \in [Calls -> SUBSET Calls]

(* One thread at a time works on the stack, whichever engines die and      *)
(* whoever steals their locks, while live engines answer in time.          *)
MutualExclusion == \A c, d \in Calls : (Holds(c) /\ Holds(d)) => c = d

(* A lock that names a live engine has a thread there that will free it,   *)
(* as long as the stack exists.                                            *)
LockHasHolder ==
  (lock \in up /\ stack # NoRow) => \E c \in Calls : Holds(c) /\ EngineOf[c] = lock

(* An existing row changes under the lock only, but for the second store   *)
(* of its creation: no delete and no reset lets the operation it stopped   *)
(* write after it.                                                         *)
OnlyHolderWrites ==
  [][(stack' # stack /\ stack # NoRow)
       => \E c \in Calls :
            \/ Holds(c) /\ EngineOf[c] = lock /\ stack' \in {mine'[c], NoRow}
            \/ pc[c] = "project" /\ stack' = mine[c]]_vars

InProgress == stack # NoRow /\ stack.status = "IN_PROGRESS"

(* The creation has yet to lock the stack, or did not get the lock. *)
Uncreated(c) ==
  /\ KindOf[c] = "create" /\ stack = State("CREATE", "IN_PROGRESS")
  /\ pc[c] \in {"project", "acquire", "ping", "steal", "quit"}

(* The delete has stopped threads and goes on, died then or gave up.       *)
Interrupted(c) ==
  /\ KindOf[c] = "delete" /\ waits[c] # {}
  /\ pc[c] \in {"links", "retake", "acquire", "ping", "steal", "quit"}

(* A stack nobody has locked is not IN_PROGRESS, but for what its creation *)
(* stored with no lock, and for a delete that stopped the operation.       *)
UnlockedIsSettled == (lock = None /\ InProgress) => \E c \in Calls : Uncreated(c) \/ Interrupted(c)

(* Every call ends: wait_then_delete comes to its delete or gives up. *)
EveryCallEnds == \A c \in Calls : (pc[c] # "idle") ~> Ended(c)

(* "Engine went down during stack %s" is stored when an engine went down.  *)
(* The code does not keep this for a stack stored but not yet locked.      *)
ResetTellsTheTruth ==
  [][\A c \in Calls : (KindOf[c] = "reset" /\ pc[c] = "thread" /\ pc'[c] = "exit") => up # Engines]_vars
===============================================================================
