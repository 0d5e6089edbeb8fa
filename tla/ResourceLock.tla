----------------------------- MODULE ResourceLock -----------------------------
(***************************************************************************)
(* The lock of one row of heat's resource table, and the worker threads    *)
(* that contend for it while they handle check_resource messages for the   *)
(* resource.  A lock is a row's engine_id, taken and freed by updates that *)
(* are filtered on engine_id and atomic_key (Resource.lock).  A worker     *)
(* that finds the row locked asks the engine named there whether it lives, *)
(* and takes the lock away when no answer comes                            *)
(* (CheckResource._try_steal_engine_lock).  What a worker knows of the     *)
(* resource was read before it took the lock.                              *)
(***************************************************************************)
EXTENDS Naturals, FiniteSets

CONSTANTS Engines,     \* engine ids; a restarted engine has a new one
          Workers,     \* worker threads
          EngineOf,    \* the engine a thread runs in
          None,        \* engine_id of an unlocked row
          Mortal,      \* the engines that may die
          Slow,        \* live engines whose answer may miss engine_life_check_timeout
          Messages,    \* how many check_resource messages the row receives
          Touches      \* how often the row is rewritten by those who hold no lock

ASSUME EnginesAssumption == EngineOf \in [Workers -> Engines] /\ None \notin Engines
ASSUME FaultsAssumption  == Mortal \subseteq Engines /\ Slow \subseteq Engines
ASSUME BoundsAssumption  == Messages \in Nat /\ Touches \in Nat

VARIABLES engine_id, atomic_key,  \* the lock columns of the row
          state,                  \* its columns action and status
          created,                \* runs of create(), each with its own retries
          pending,                \* messages not yet taken by a worker
          touches,                \* rewrites without a lock still to come
          up,                     \* the engines that live
          pc,                     \* where each worker stands
          rsrc,                   \* the action and status each worker loaded or stored
          rs                      \* engine_id and atomic_key as each worker last read them

rowVars == <<engine_id, atomic_key, state, created>>
envVars == <<pending, touches, up>>
vars == <<rowVars, envVars, pc, rsrc, rs>>

Actions  == {"INIT", "CREATE", "UPDATE"}
Statuses == {"IN_PROGRESS", "COMPLETE", "FAILED"}
States   == [action : Actions, status : Statuses]
Stored   == [action |-> "INIT", status |-> "COMPLETE"]

(* From the acquisition to the update that frees the lock. *)
Inside == {"begin", "act", "release_get"}
Holding == Inside \cup {"release"}

Init ==
  /\ engine_id = None
  /\ atomic_key = 0
  /\ state = Stored
  /\ created = 0
  /\ pending = Messages
  /\ touches = Touches
  /\ up = Engines
  /\ pc = [w \in Workers |-> "idle"]
  /\ rsrc = [w \in Workers |-> Stored]
  /\ rs = [w \in Workers |-> [engine |-> None, key |-> 0]]

(* A thread of a live engine moves from one place to another. *)
Goto(w, from, to) ==
  /\ EngineOf[w] \in up
  /\ pc[w] = from
  /\ pc' = [pc EXCEPT ![w] = to]

Unread == [engine |-> None, key |-> 0]

(* The handling of a message ends, and what the thread knew is forgotten. *)
End(w, from) ==
  /\ Goto(w, from, "idle")
  /\ rsrc' = [rsrc EXCEPT ![w] = Stored]
  /\ rs' = [rs EXCEPT ![w] = Unread]

(* get_obj(): the lock columns as they stand now. *)
ReadKey(w) == rs' = [rs EXCEPT ![w].key = atomic_key]
ReadEngine(w) == rs' = [rs EXCEPT ![w] = [engine |-> engine_id, key |-> 0]]

(* store(): the whole row from the worker's own object, without a look at  *)
(* engine_id or atomic_key.                                                *)
StateSet(w, action, status) ==
  /\ state' = [action |-> action, status |-> status]
  /\ rsrc' = [rsrc EXCEPT ![w] = state']

(* Seeded fault: a message out of nowhere. *)
LoadUnasked(w) ==
  /\ Goto(w, "idle", "acquire_get")
  /\ pending' = pending - 1
  /\ UNCHANGED <<rowVars, touches, up, rsrc, rs>>

(* load_resource(): a message is taken and the resource is read. *)
Load(w) ==
  /\ Goto(w, "idle", "acquire_get")
  /\ pending > 0
  /\ pending' = pending - 1
  /\ rsrc' = [rsrc EXCEPT ![w] = state]
  /\ UNCHANGED <<rowVars, touches, up, rs>>

(* _acquire(), first half. *)
AcquireGet(w) ==
  /\ Goto(w, "acquire_get", "acquire")
  /\ ReadKey(w)
  /\ UNCHANGED <<rowVars, envVars, rsrc>>

(* Seeded fault: a filter on atomic_key alone. *)
RowMatchesKey(expected, key) == atomic_key = key

(* The filter of resource_update(). *)
RowMatches(expected, key) == engine_id = expected /\ atomic_key = key

(* Seeded fault of Acquire: it insists on the key it has read. *)
AcquireSpins(w) ==
  /\ RowMatches(None, rs[w].key)
  /\ Goto(w, "acquire", "begin")
  /\ engine_id' = EngineOf[w]
  /\ atomic_key' = rs[w].key + 1
  /\ UNCHANGED <<state, created, envVars, rsrc, rs>>

(* _acquire(), second half: on failure the message is deferred. *)
Acquire(w) ==
  \/ /\ RowMatches(None, rs[w].key)
     /\ Goto(w, "acquire", "begin")
     /\ engine_id' = EngineOf[w]
     /\ atomic_key' = rs[w].key + 1
     /\ UNCHANGED <<state, created, envVars, rsrc, rs>>
  \/ /\ ~RowMatches(None, rs[w].key)
     /\ Goto(w, "acquire", "steal_get")
     /\ UNCHANGED <<rowVars, envVars, rsrc, rs>>

(* create() goes on from INIT_COMPLETE only; any other INIT row makes the  *)
(* check fail at once, with nothing stored.                                *)
BeginCreate(w) ==
  /\ rsrc[w].action = "INIT"
  /\ \/ /\ rsrc[w] = Stored
        /\ Goto(w, "begin", "act")
        /\ StateSet(w, "CREATE", "IN_PROGRESS")
     \/ /\ rsrc[w] # Stored
        /\ Goto(w, "begin", "release_get")
        /\ UNCHANGED <<state, rsrc>>
  /\ UNCHANGED <<engine_id, atomic_key, created, envVars, rs>>

(* update(): in place, or nothing to do; a FAILED resource that needs      *)
(* nothing is set COMPLETE; UpdateReplace leaves the row as it is.         *)
BeginUpdate(w) ==
  /\ rsrc[w].action # "INIT"
  /\ \/ /\ Goto(w, "begin", "act")
        /\ StateSet(w, "UPDATE", "IN_PROGRESS")
     \/ /\ Goto(w, "begin", "release_get")
        /\ IF rsrc[w].status = "FAILED"
             THEN StateSet(w, rsrc[w].action, "COMPLETE")
             ELSE UNCHANGED <<state, rsrc>>
     \/ /\ Goto(w, "begin", "release_get")
        /\ UNCHANGED <<state, rsrc>>
  /\ UNCHANGED <<engine_id, atomic_key, created, envVars, rs>>

(* The handler ran: _action_recorder stores how it went. *)
Finish(w) ==
  /\ Goto(w, "act", "release_get")
  /\ \E outcome \in {"COMPLETE", "FAILED"} : StateSet(w, rsrc[w].action, outcome)
  /\ created' = IF rsrc[w].action = "CREATE" THEN created + 1 ELSE created
  /\ UNCHANGED <<engine_id, atomic_key, envVars, rs>>

(* _release(): an update that finds the row changed frees nothing. *)
ReleaseGet(w) ==
  /\ Goto(w, "release_get", "release")
  /\ ReadKey(w)
  /\ UNCHANGED <<rowVars, envVars, rsrc>>

(* Seeded fault of Release: the key that was read when the lock was taken. *)
ReleaseStale(w) ==
  /\ End(w, "release")
  /\ IF RowMatches(EngineOf[w], rs[w].key - 1)
       THEN engine_id' = None /\ atomic_key' = rs[w].key + 1
       ELSE UNCHANGED <<engine_id, atomic_key>>
  /\ UNCHANGED <<state, created, envVars>>

Release(w) ==
  /\ End(w, "release")
  /\ IF RowMatches(EngineOf[w], rs[w].key)
       THEN engine_id' = None /\ atomic_key' = rs[w].key + 1
       ELSE UNCHANGED <<engine_id, atomic_key>>
  /\ UNCHANGED <<state, created, envVars>>

(* _try_steal_engine_lock(), first half: a row that is free again, or      *)
(* locked by the worker's own engine, ends the handling of the message.    *)
StealGet(w) ==
  /\ IF engine_id \in {None, EngineOf[w]}
       THEN End(w, "steal_get")
       ELSE Goto(w, "steal_get", "ping") /\ ReadEngine(w) /\ UNCHANGED rsrc
  /\ UNCHANGED <<rowVars, envVars>>

(* Seeded fault: every engine is taken for dead. *)
MayMissPing(e) == TRUE

(* is_alive() is False when no answer came in time. *)
MissesPing(e) == e \notin up \/ e \in Slow
AnswersPing(e) == e \in up

Ping(w) ==
  /\ \/ AnswersPing(rs[w].engine) /\ End(w, "ping")
     \/ MissesPing(rs[w].engine) /\ Goto(w, "ping", "steal") /\ UNCHANGED <<rsrc, rs>>
  /\ UNCHANGED <<rowVars, envVars>>

(* update_and_save({'engine_id': None}): whoever stands there by now. *)
Steal(w) ==
  /\ Goto(w, "steal", "mark")
  /\ engine_id' = None
  /\ UNCHANGED <<atomic_key, state, created, envVars, rsrc, rs>>

(* The resource is set FAILED under the action the worker had loaded. *)
Mark(w) ==
  /\ Goto(w, "mark", "recast")
  /\ StateSet(w, rsrc[w].action, "FAILED")
  /\ UNCHANGED <<engine_id, atomic_key, created, envVars, rs>>

(* The message goes back to the queue. *)
Recast(w) ==
  /\ End(w, "recast")
  /\ pending' = pending + 1
  /\ UNCHANGED <<rowVars, touches, up>>

(* set_needed_by() of converge_stack, when its update goes through. *)
Touch ==
  /\ touches > 0
  /\ engine_id = None
  /\ atomic_key' = atomic_key + 1
  /\ touches' = touches - 1
  /\ UNCHANGED <<engine_id, state, created, pending, up, pc, rsrc, rs>>

(* metadata_set(): a signal, or a handler, rewrites the metadata of a      *)
(* resource that is past INIT.  Its update is filtered on the engine_id    *)
(* and the atomic_key it has just read, whatever they are, and is retried  *)
(* on conflict: a locked row gets a new key too.                           *)
MetadataSet ==
  /\ touches > 0
  /\ state.action # "INIT"
  /\ atomic_key' = atomic_key + 1
  /\ touches' = touches - 1
  /\ UNCHANGED <<engine_id, state, created, pending, up, pc, rsrc, rs>>

(* An engine dies with all its threads; the message each of them had taken *)
(* is gone.                                                                *)
Crash(e) ==
  /\ e \in Mortal \cap up
  /\ up' = up \ {e}
  /\ UNCHANGED <<rowVars, pending, touches, pc, rsrc, rs>>

Handle(w) ==
  \/ AcquireGet(w) \/ Acquire(w) \/ BeginCreate(w) \/ BeginUpdate(w) \/ Finish(w)
  \/ ReleaseGet(w) \/ Release(w)
  \/ StealGet(w) \/ Ping(w) \/ Steal(w) \/ Mark(w) \/ Recast(w)

Next ==
  \/ \E w \in Workers : Load(w) \/ Handle(w)
  \/ \E e \in Engines : Crash(e)
  \/ Touch \/ MetadataSet

(* A thread that lives goes on; a live engine with an idle thread takes    *)
(* the messages that wait.                                                 *)
Spec == Init /\ [][Next]_vars /\ \A w \in Workers : WF_vars(Load(w) \/ Handle(w))
--------------------------------------------------------------------------------
Live(w) == EngineOf[w] \in up

(* Shape of the state. *)
TypeOK ==
  /\ engine_id \in Engines \cup {None} /\ atomic_key \in Nat
  /\ state \in States
  /\ created \in Nat /\ pending \in Nat /\ touches \in Nat
  /\ up \subseteq Engines
  /\ pc \in [Workers -> Holding \cup {"idle", "acquire_get", "acquire", "steal_get",
                                       "ping", "steal", "mark", "recast"}]
  /\ rsrc \in [Workers -> States]
  /\ rs \in [Workers -> [engine : Engines \cup {None}, key : Nat]]

(* At most one thread works on the resource.  Holds while no engine dies   *)
(* and every engine answers in time.                                       *)
MutualExclusion ==
  \A v, w \in Workers : (Live(v) /\ Live(w) /\ pc[v] \in Inside /\ pc[w] \in Inside) => v = w

(* A locked row is somebody's: the engine it names has a thread that will  *)
(* free it, and whose last read of the key is still good when it comes to  *)
(* do so.                                                                  *)
LockHasHolder ==
  engine_id # None =>
    \E w \in Workers : /\ EngineOf[w] = engine_id
                       /\ pc[w] \in Holding
                       /\ pc[w] = "release" => rs[w].key = atomic_key

(* Whatever dies, misses its deadline or is stolen, a lock is orphaned in  *)
(* one way only: metadata_set moves the key of the row between the two     *)
(* halves of _release() in a thread of the engine that holds it.  The      *)
(* update of the release then matches no row, and nobody tries again.      *)
OnlyMetadataOrphans ==
  [][(LockHasHolder /\ ~LockHasHolder') =>
       /\ engine_id' = engine_id /\ atomic_key' # atomic_key
       /\ \E w \in Workers : EngineOf[w] = engine_id /\ pc[w] = "release" /\ pc'[w] = "release"]_vars

(* A lock that a thread of a live engine holds does not stay for ever,     *)
(* unless its release was overtaken by such a write.                       *)
Overtaken(e) ==
  /\ ~LockHasHolder
  /\ \E w \in Workers : EngineOf[w] = e /\ pc[w] = "release" /\ rs[w].key # atomic_key
LocksAreFreed ==
  \A e \in Engines : (engine_id = e /\ LockHasHolder) ~> (engine_id # e \/ e \notin up \/ Overtaken(e))

(* The messages die out: a deferred message is dropped or cast again, and  *)
(* casting it again cannot go on for ever, not even between engines that   *)
(* keep taking each other for dead.                                        *)
Quiesces ==
  []<>(up = {} \/ (pending = 0 /\ \A w \in Workers : Live(w) => pc[w] = "idle"))

(* The lock of an engine that lives is taken away by nobody else:          *)
(* CheckWorkflowUpdateTest.test_try_steal_lock_alive and _dead.            *)
OnlyTheDeadLoseTheirLock ==
  [][\A e \in Engines : (engine_id = e /\ engine_id' # e /\ e \in up)
       => \E w \in Workers : EngineOf[w] = e /\ pc[w] = "release"]_vars

(* A resource is created once: create() refuses every state but            *)
(* INIT_COMPLETE ("State %s invalid for create").  The code does not keep  *)
(* this when two messages are loaded before either takes the lock.         *)
CreatedOnce == created <= 1
===============================================================================
