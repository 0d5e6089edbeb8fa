-------------------------------- MODULE L3Agent --------------------------------
(***************************************************************************)
(* How neutron's L3 agent keeps the routers of its host like the server's  *)
(* database.  Notifications of single routers and a full synchronisation   *)
(* put stamped updates into one priority queue (RouterProcessingQueue);    *)
(* green threads take them, and whoever takes the first update of a router *)
(* becomes its master (ExclusiveRouterProcessor), takes over the updates   *)
(* the others find for that router, and skips those not newer than the     *)
(* stamp of the data processed last.  Threads are switched only where they *)
(* wait: for a queue, for an answer of the server, for commands of the     *)
(* host.  The server notifies only agents it takes for active, and a       *)
(* heartbeat tells an agent that it was taken for dead.                    *)
(***************************************************************************)
EXTENDS Integers, Sequences, FiniteSets, Bags, SequencesExt

CONSTANTS Routers,     \* the routers
          Workers,     \* the green threads of the pool
          MaxVersion,  \* bound: changes made to the database
          Foreign,     \* versions with an external network of another agent
          MaxTroubles, \* bound: failed calls, and times the agent seems dead, is
                       \*   switched off or restarted, and its clock is set back
          None         \* nobody, nothing

ASSUME BoundsAssumption == MaxVersion \in Nat \ {0} /\ MaxTroubles \in Nat
ASSUME ForeignAssumption == Foreign \subseteq 1..MaxVersion
ASSUME NoneAssumption   == None \notin Workers

VARIABLES db,        \* version of each router scheduled to this agent, 0 if it is not
          version,   \* the last version made
          agent,     \* what the server takes the agent for
          notes,     \* notifications under way, per router
          clock,     \* the agent's clock
          fullsync,  \* a synchronisation is asked for
          sync,      \* the synchronisation that runs
          queue,     \* the priority queue, a bag of updates
          master,    \* the thread with exclusive access to each router
          backlog,   \* the updates its master has taken over, _queue
          stamp,     \* _router_timestamps
          work,      \* what each thread does
          known,     \* the keys of router_info
          host,      \* the version that namespaces and devices of each router show
          clean,     \* namespaces_manager._clean_stale
          troubles,  \* what has gone wrong so far
          (* What the code keeps no track of; no step depends on it. *)
          unheard,   \* routers changed while the agent seems dead, that nothing told it of
          missed,    \* routers the agent left as they were, or cleared, and thinks done with
          lost       \* routers whose changes a race may have dropped

server == <<db, version, agent, notes>>
queues == <<queue, master, backlog, work>>
routers == <<stamp, known, host>>
history == <<unheard, missed, lost>>
vars == <<server, clock, fullsync, sync, queues, routers, clean, troubles, history>>

Broken   == -1  \* a change of the router failed half way, and is repeated
Leftover == -2  \* a removal failed, and nobody repeats it
Versions == 1..MaxVersion

RPC  == 0       \* PRIORITY_RPC
SYNC == 1       \* PRIORITY_SYNC_ROUTERS_TASK
Updates == [id : Routers, priority : {RPC, SYNC}, timestamp : Nat,
            action : {"update", "delete"}, router : 0..MaxVersion]
Idle == [at |-> "idle"]
Works == {Idle} \cup [at : {"fetch", "process", "remove"}, update : Updates, router : 0..MaxVersion]
NoSync == [at |-> "off"]
Syncs == {NoSync} \cup
  [at : {"ids", "chunk", "sweep"}, timestamp : Nat, previous : SUBSET Routers,
   stale : SUBSET Routers, todo : SUBSET Routers, current : SUBSET Routers]

Init ==
  /\ db \in [Routers -> {0, 1}] /\ version = 1
  /\ agent = "active"
  /\ notes = [r \in Routers |-> <<>>]
  /\ clock = 1
  /\ fullsync = TRUE
  /\ sync = NoSync
  /\ queue = EmptyBag
  /\ master = [r \in Routers |-> None]
  /\ backlog = [r \in Routers |-> <<>>]
  /\ stamp = [r \in Routers |-> 0]
  /\ work = [w \in Workers |-> Idle]
  /\ known = {}
  /\ host \in [Routers -> {0, 1}]
  /\ clean = TRUE
  /\ troubles = 0
  /\ unheard = {} /\ missed = {} /\ lost = {}

-----------------------------------------------------------------------------
(* The server. *)

Tell(r, note) == notes' = [notes EXCEPT ![r] = Append(@, note)]

Edit(r) ==
  /\ version < MaxVersion
  /\ db[r] # 0
  /\ version' = version + 1
  /\ db' = [db EXCEPT ![r] = version']
  /\ IF agent = "active" THEN Tell(r, "updated") ELSE UNCHANGED notes
  /\ unheard' = IF agent = "dead" THEN unheard \cup {r} ELSE unheard
  /\ UNCHANGED <<agent, clock, fullsync, sync, queues, routers, clean, troubles, missed, lost>>

(* The router is deleted, or scheduled away: the agent is told even if it *)
(* seems dead.                                                             *)
Withdraw(r) ==
  /\ db[r] # 0
  /\ db' = [db EXCEPT ![r] = 0]
  /\ Tell(r, "removed")
  /\ UNCHANGED <<version, agent, clock, fullsync, sync, queues, routers, clean, troubles, history>>

Schedule(r) ==
  /\ version < MaxVersion
  /\ db[r] = 0
  /\ agent = "active"
  /\ version' = version + 1
  /\ db' = [db EXCEPT ![r] = version']
  /\ Tell(r, "updated")
  /\ UNCHANGED <<agent, clock, fullsync, sync, queues, routers, clean, troubles, history>>

(* get_routers and get_router_ids: nothing for an agent that is switched off. *)
Served(r) == IF agent = "disabled" THEN 0 ELSE db[r]

Trouble == troubles < MaxTroubles /\ troubles' = troubles + 1

(* The heartbeat is overdue. *)
Presume ==
  /\ Trouble
  /\ agent = "active"
  /\ agent' = "dead"
  /\ UNCHANGED <<db, version, notes, clock, fullsync, sync, queues, routers, clean, history>>

(* A synchronisation reads the lists of the server. *)
Reading == sync.at \in {"ids", "chunk"}

(* The answer to the heartbeat tells the agent of its revival, unless it is lost: the *)
(* next heartbeat finds it alive.  The end of a synchronisation that runs forgets     *)
(* that another was asked for.                                                        *)
Beat ==
  /\ agent = "dead"
  /\ agent' = "active"
  /\ \E told \in BOOLEAN :
       /\ fullsync' = (fullsync \/ told)
       /\ lost' = IF fullsync' /\ ~Reading THEN lost ELSE lost \cup unheard
  /\ unheard' = {}
  /\ UNCHANGED <<db, version, notes, clock, sync, queues, routers, clean, troubles, missed>>

InHand(r) ==
  \/ \E u \in BagToSet(queue) : u.id = r
  \/ backlog[r] # <<>>
  \/ \E w \in Workers : work[w] # Idle /\ work[w].update.id = r

(* admin_state_up is changed, and agent_updated is sent: what the agent has read *)
(* and not yet made so is no longer what the server would answer.                *)
Switch ==
  /\ agent # "dead"
  /\ agent' = IF agent = "active" THEN "disabled" ELSE "active"
  /\ IF agent = "active" THEN Trouble ELSE UNCHANGED troubles
  /\ fullsync' = TRUE
  /\ lost' = lost \cup {r \in Routers : Reading \/ InHand(r)}
  /\ UNCHANGED <<db, version, notes, clock, sync, queues, routers, clean, unheard, missed>>

(* The clock of the agent's host is set back: what comes now looks old. *)
SetBack ==
  /\ Trouble
  /\ clock' \in 0..(clock - 1)
  /\ lost' = Routers
  /\ UNCHANGED <<server, fullsync, sync, queues, routers, clean, unheard, missed>>

-----------------------------------------------------------------------------
(* Updates and their queues. *)

(* utcnow() after a reading t.  Readings with a wait between them differ. *)
After(t) == {t + 1}

(* Seeded fault: the arguments of RouterUpdate in another order. *)
UpdateSwapped(r, priority, t, action, data) ==
  [id |-> r, priority |-> t, timestamp |-> priority, action |-> action, router |-> data]

Update(r, priority, t, action, data) ==
  [id |-> r, priority |-> priority, timestamp |-> t, action |-> action, router |-> data]

Put(q, u) == q (+) SetToBag({u})

(* RouterUpdate.__lt__, the order of ids being of no account. *)
Before(u, v) ==
  \/ u.priority < v.priority
  \/ u.priority = v.priority /\ u.timestamp < v.timestamp

Receive(r) ==
  /\ notes[r] # <<>>
  /\ notes' = [notes EXCEPT ![r] = Tail(@)]
  /\ \E t \in After(clock) :
       /\ clock' = t
       /\ queue' = Put(queue, Update(r, RPC, t,
                         IF Head(notes[r]) = "removed" THEN "delete" ELSE "update", 0))
  /\ UNCHANGED <<db, version, agent, fullsync, sync, master, backlog, work>>
  /\ UNCHANGED <<routers, clean, troubles, history>>

(* updates() goes on: the first update that is fresh, after those that are not. *)
Fresh(u, recorded) == recorded < u.timestamp

Stage(u) == IF u.action = "delete" THEN "remove" ELSE IF u.router = 0 THEN "fetch" ELSE "process"

(* The thread turns to an update; the time is read before the data are asked for. *)
Pursue(w, u, now) ==
  \/ /\ Stage(u) = "fetch"
     /\ \E t \in After(now) :
          /\ clock' = t
          /\ work' = [work EXCEPT ![w] = [at |-> "fetch", router |-> 0,
                                         update |-> [u EXCEPT !.timestamp = t]]]
  \/ /\ Stage(u) # "fetch"
     /\ work' = [work EXCEPT ![w] = [at |-> Stage(u), router |-> u.router, update |-> u]]
     /\ clock' = now

Proceed(w, r, pending, recorded, now) ==
  \/ /\ \A i \in DOMAIN pending : ~Fresh(pending[i], recorded)
     /\ master' = [master EXCEPT ![r] = None]
     /\ backlog' = [backlog EXCEPT ![r] = <<>>]
     /\ work' = [work EXCEPT ![w] = Idle]
     /\ clock' = now
  \/ \E i \in DOMAIN pending :
       /\ Fresh(pending[i], recorded)
       /\ \A j \in 1..(i - 1) : ~Fresh(pending[j], recorded)
       /\ master' = [master EXCEPT ![r] = w]
       /\ backlog' = [backlog EXCEPT ![r] = SubSeq(pending, i + 1, Len(pending))]
       /\ Pursue(w, pending[i], now)

(* Seeded fault: every thread thinks itself the master. *)
TakeAnyway(w) ==
  /\ work[w] = Idle
  /\ \E u \in BagToSet(queue) :
       /\ \A v \in BagToSet(queue) : ~Before(v, u)
       /\ queue' = queue (-) SetToBag({u})
       /\ Proceed(w, u.id, <<u>>, stamp[u.id], clock)
  /\ UNCHANGED <<server, fullsync, sync, routers, clean, troubles, history>>

(* each_update_to_next_router takes the next update of the queue. *)
Take(w) ==
  /\ work[w] = Idle
  /\ \E u \in BagToSet(queue) :
       /\ \A v \in BagToSet(queue) : ~Before(v, u)
       /\ queue' = queue (-) SetToBag({u})
       /\ IF master[u.id] = None
          THEN Proceed(w, u.id, <<u>>, stamp[u.id], clock)
          ELSE /\ backlog' = [backlog EXCEPT ![u.id] = Append(@, u)]
               /\ UNCHANGED <<master, work, clock>>
  /\ UNCHANGED <<server, fullsync, sync, routers, clean, troubles, history>>

-----------------------------------------------------------------------------
(* _process_router_update, between two waits. *)

Answer(w) ==
  /\ work[w].at = "fetch"
  /\ LET data == Served(work[w].update.id) IN
     work' = [work EXCEPT ![w].router = data,
                          ![w].at = IF data = 0 THEN "remove" ELSE "process"]
  /\ UNCHANGED <<server, clock, fullsync, sync, queue, master, backlog, routers, clean, troubles>>
  /\ UNCHANGED history

(* Seeded fault: the stamp recorded is the time the router was done. *)
DoneNow(w) ==
  LET u == work[w].update IN
  /\ stamp' = [stamp EXCEPT ![u.id] = clock]
  /\ Proceed(w, u.id, backlog[u.id], clock, clock)
  /\ UNCHANGED <<server, fullsync, sync, queue, clean, unheard, lost>>

(* fetched_and_processed, and on to the next update. *)
Done(w) ==
  LET u == work[w].update
      recorded == IF stamp[u.id] < u.timestamp THEN u.timestamp ELSE stamp[u.id] IN
  /\ stamp' = [stamp EXCEPT ![u.id] = recorded]
  /\ Proceed(w, u.id, backlog[u.id], recorded, clock)
  /\ UNCHANGED <<server, fullsync, sync, queue, clean, unheard, lost>>

(* Seeded fault: the update keeps the router's data. *)
ResyncKeeps(w) ==
  LET u == [work[w].update EXCEPT !.router = work[w].router] IN
  /\ \E t \in After(clock) :
       /\ queue' = Put(queue, [u EXCEPT !.timestamp = t, !.priority = SYNC])
       /\ Proceed(w, u.id, backlog[u.id], stamp[u.id], t)
  /\ UNCHANGED <<server, fullsync, sync, stamp, clean, history>>

(* _resync_router; the update is put back into the queue. *)
Resync(w) ==
  LET u == work[w].update IN
  /\ \E t \in After(clock) :
       /\ queue' = Put(queue, [u EXCEPT !.timestamp = t, !.priority = SYNC, !.router = 0])
       /\ Proceed(w, u.id, backlog[u.id], stamp[u.id], t)
  /\ UNCHANGED <<server, fullsync, sync, stamp, clean, history>>

FetchFails(w) ==
  /\ work[w].at = "fetch"
  /\ Trouble
  /\ Resync(w)
  /\ UNCHANGED <<known, host>>

Removed(w) ==
  /\ work[w].at = "remove"
  /\ known' = known \ {work[w].update.id}
  /\ host' = [host EXCEPT ![work[w].update.id] = 0]
  /\ missed' = missed \ {work[w].update.id}
  /\ Done(w)
  /\ UNCHANGED troubles

(* A known router's removal, or the extensions' part of it, fails and is      *)
(* repeated; ensure_router_cleanup only logs that a namespace could not go.   *)
RemoveFails(w) ==
  /\ work[w].at = "remove"
  /\ Trouble
  /\ LET r == work[w].update.id IN
     \/ /\ r \in known
        /\ \/ host' = [host EXCEPT ![r] = Broken] /\ UNCHANGED known
           \/ host' = [host EXCEPT ![r] = 0] /\ known' = known \ {r}
        /\ Resync(w)
     \/ /\ r \notin known
        /\ host' = [host EXCEPT ![r] = IF @ = 0 THEN 0 ELSE Leftover]
        /\ missed' = missed \ {r}
        /\ UNCHANGED known
        /\ Done(w)

(* There is no external bridge on the host: that is logged, the router stays as *)
(* it is, and counts as processed.                                             *)
BridgeMissing(w) ==
  /\ work[w].at = "process"
  /\ Trouble
  /\ missed' = missed \cup {work[w].update.id}
  /\ Done(w)
  /\ UNCHANGED <<known, host>>

Compatible(v) == v \notin Foreign

Process(w) ==
  /\ work[w].at = "process"
  /\ Compatible(work[w].router)
  /\ known' = known \cup {work[w].update.id}
  /\ host' = [host EXCEPT ![work[w].update.id] = work[w].router]
  /\ missed' = missed \ {work[w].update.id}
  /\ Done(w)
  /\ UNCHANGED troubles

(* initialize() may fail, which forgets the router again, or process(). *)
ProcessFails(w) ==
  /\ work[w].at = "process"
  /\ Compatible(work[w].router)
  /\ Trouble
  /\ LET r == work[w].update.id IN
     /\ \/ known' = known \cup {r}
        \/ r \notin known /\ UNCHANGED known
     /\ host' = [host EXCEPT ![r] = Broken]
  /\ Resync(w)

(* RouterNotCompatibleWithAgent: a known router is removed, and whether that  *)
(* worked is not looked at; of an unknown one what is there stays.            *)
Reject(w) ==
  /\ work[w].at = "process"
  /\ ~Compatible(work[w].router)
  /\ LET r == work[w].update.id IN
     \/ /\ known' = known \ {r}
        /\ host' = [host EXCEPT ![r] = IF r \in known \/ @ = 0 THEN 0 ELSE Leftover]
        /\ UNCHANGED troubles
     \/ /\ r \in known
        /\ Trouble
        /\ host' = [host EXCEPT ![r] = Leftover]
        /\ UNCHANGED known
  /\ missed' = missed \ {work[w].update.id}
  /\ Done(w)

-----------------------------------------------------------------------------
(* periodic_sync_routers_task. *)

(* Nothing about the router is under way or in the future, and the agent knows of it *)
(* or looks for it: a synchronisation finds all that was lost.                       *)
Orderly(r) ==
  /\ ~InHand(r)
  /\ stamp[r] <= clock
  /\ r \in known \/ clean \/ host[r] \in {0, Leftover}

SyncStart ==
  /\ fullsync
  /\ sync = NoSync
  /\ \E t \in After(clock) :
       /\ clock' = t
       /\ sync' = [at |-> "ids", timestamp |-> t, previous |-> known,
                   stale |-> IF clean THEN {r \in Routers : host[r] # 0} ELSE {},
                   todo |-> {}, current |-> {}]
  /\ unheard' = {}
  /\ lost' = {r \in lost : ~Orderly(r)}
  /\ UNCHANGED <<server, fullsync, queues, routers, clean, troubles, missed>>

SyncIds ==
  /\ sync.at = "ids"
  /\ sync' = [sync EXCEPT !.at = "chunk", !.todo = {r \in Routers : Served(r) # 0}]
  /\ UNCHANGED <<server, clock, fullsync, queues, routers, clean, troubles, history>>

(* A chunk; a router may have gone since its id was read. *)
SyncChunk ==
  /\ sync.at = "chunk"
  /\ \E r \in sync.todo :
       LET found == {r} \cap {x \in Routers : Served(x) # 0} IN
       /\ sync' = [sync EXCEPT !.todo = @ \ {r}, !.current = @ \cup found]
       /\ queue' = queue (+)
            SetToBag({Update(x, SYNC, sync.timestamp, "update", Served(x)) : x \in found})
  /\ UNCHANGED <<server, clock, fullsync, master, backlog, work, routers, clean, troubles, history>>

(* After the last chunk, which may have been one of routers not modelled here:  *)
(* routers that disappeared are deleted, and the first synchronisation goes on  *)
(* to the stale namespaces.                                                     *)
SyncEnd ==
  /\ sync.at = "chunk"
  /\ sync.todo = {}
  /\ fullsync' = FALSE
  /\ clean' = FALSE
  /\ LET vanished == sync.previous \ sync.current
         stale == sync.stale \ (sync.current \cup vanished) IN
     /\ queue' = queue (+)
          SetToBag({Update(r, SYNC, sync.timestamp, "delete", 0) : r \in vanished})
     /\ sync' = IF stale = {} THEN NoSync ELSE [sync EXCEPT !.at = "sweep", !.stale = stale]
  /\ UNCHANGED <<server, clock, master, backlog, work, routers, troubles, history>>

(* AbortSyncRouters or MessagingTimeout: fullsync stays as it is. *)
SyncFails ==
  /\ Reading
  /\ Trouble
  /\ sync' = NoSync
  /\ UNCHANGED <<server, clock, fullsync, queues, routers, clean, history>>

(* NamespaceManager.__exit__; a namespace that cannot be deleted is only logged, and *)
(* that of a router that has come back since the ids were read is cleared as well.   *)
Sweep ==
  /\ sync.at = "sweep"
  /\ \/ host' = [r \in Routers |-> IF r \in sync.stale THEN 0 ELSE host[r]]
        /\ UNCHANGED troubles
     \/ /\ Trouble
        /\ host' = [r \in Routers |-> IF r \in sync.stale /\ host[r] # 0 THEN Leftover ELSE host[r]]
  /\ sync' = NoSync
  /\ missed' = missed \cup {r \in sync.stale : Served(r) # 0}
  /\ UNCHANGED <<server, clock, fullsync, queues, stamp, known, clean, unheard, lost>>

-----------------------------------------------------------------------------

(* The agent's process ends and is started again: what it had in memory is *)
(* gone, namespaces stay.                                                  *)
Touched == {work[w].update.id : w \in {v \in Workers : work[v].at \in {"process", "remove"}}}

Restart ==
  /\ Trouble
  /\ host' = [r \in Routers |-> IF r \in Touched THEN Broken ELSE host[r]]
  /\ fullsync' = TRUE /\ clean' = TRUE
  /\ sync' = NoSync
  /\ queue' = EmptyBag
  /\ master' = [r \in Routers |-> None]
  /\ backlog' = [r \in Routers |-> <<>>]
  /\ work' = [w \in Workers |-> Idle]
  /\ stamp' = [r \in Routers |-> 0]
  /\ known' = {}
  /\ unheard' = {} /\ missed' = {} /\ lost' = {}
  /\ UNCHANGED <<server, clock>>

Work(w) ==
  \/ Take(w) \/ Answer(w) \/ FetchFails(w) \/ Removed(w) \/ RemoveFails(w)
  \/ BridgeMissing(w) \/ Process(w) \/ ProcessFails(w) \/ Reject(w)

Sync == SyncStart \/ SyncIds \/ SyncChunk \/ SyncEnd \/ SyncFails \/ Sweep

Next ==
  \/ \E r \in Routers : Edit(r) \/ Withdraw(r) \/ Schedule(r) \/ Receive(r)
  \/ \E w \in Workers : Work(w)
  \/ Sync
  \/ Presume \/ Beat \/ Switch \/ SetBack \/ Restart

Spec == Init /\ [][Next]_vars

(* Threads of the agent run, messages arrive, heartbeats are sent. *)
Fairness ==
  /\ \A w \in Workers : WF_vars(Work(w))
  /\ \A r \in Routers : WF_vars(Receive(r))
  /\ WF_vars(Sync)
  /\ WF_vars(Beat)

FairSpec == Spec /\ Fairness

-----------------------------------------------------------------------------
(* Properties. *)

(* The state keeps its shape. *)
TypeOK ==
  /\ db \in [Routers -> 0..MaxVersion] /\ version \in 1..MaxVersion
  /\ agent \in {"active", "dead", "disabled"}
  /\ notes \in [Routers -> Seq({"updated", "removed"})]
  /\ clock \in Nat
  /\ fullsync \in BOOLEAN /\ clean \in BOOLEAN
  /\ sync \in Syncs
  /\ IsABag(queue) /\ BagToSet(queue) \subseteq Updates
  /\ master \in [Routers -> Workers \cup {None}]
  /\ backlog \in [Routers -> Seq(Updates)]
  /\ stamp \in [Routers -> Nat]
  /\ work \in [Workers -> Works]
  /\ known \subseteq Routers
  /\ host \in [Routers -> Versions \cup {0, Broken, Leftover}]
  /\ troubles \in 0..MaxTroubles
  /\ unheard \subseteq Routers /\ missed \subseteq Routers /\ lost \subseteq Routers

Busy(w, r) == work[w] # Idle /\ work[w].update.id = r

(* One thread at a time works on a router, and it is the router's master; an   *)
(* update that a master took over is never left behind by it.                  *)
ExclusiveProcessing ==
  /\ \A w \in Workers, r \in Routers : Busy(w, r) => master[r] = w
  /\ \A r \in Routers : backlog[r] # <<>> => master[r] # None /\ Busy(master[r], r)

(* What the host should show for a router, and whether it does; what nobody *)
(* repeats after a failed removal is excused.                               *)
Wanted(r) == IF Compatible(Served(r)) THEN Served(r) ELSE 0
InPlace(r) == host[r] = Wanted(r) \/ (Wanted(r) = 0 /\ host[r] = Leftover)

(* Something under way brings the router there: it has the data of now or  *)
(* will ask for them, and no stamp makes it count as old.                  *)
Brings(action, data, r) ==
  IF action = "delete" THEN Served(r) = 0 ELSE data \in {0, Served(r)}
Helps(u, r) == u.id = r /\ Fresh(u, stamp[r]) /\ Brings(u.action, u.router, r)
Doing(w, r) ==
  /\ Busy(w, r)
  /\ work[w].at = "fetch" \/ work[w].router = Served(r)
Pending(r) ==
  \/ fullsync
  \/ sync.at = "sweep" /\ r \in sync.stale /\ Wanted(r) = 0
  \/ notes[r] # <<>> /\ (Last(notes[r]) = "updated" \/ Served(r) = 0)
  \/ \E u \in BagToSet(queue) : Helps(u, r)
  \/ \E i \in DOMAIN backlog[r] : Helps(backlog[r][i], r)
  \/ \E w \in Workers : Doing(w, r)

(* A router whose host state is not what the database says has something on its way *)
(* that will repair it: skipping updates by their stamps never loses a change.  What *)
(* the code does lose is named: changes while the agent seems dead, until it hears   *)
(* of them (unheard), routers passed over for want of a bridge or cleared as stale,  *)
(* until they are processed again (missed), and what a revival, a switch or a clock  *)
(* set back has raced with, until a synchronisation starts in order (lost).          *)
NoLostUpdate ==
  \A r \in Routers \ (unheard \cup missed \cup lost) : InPlace(r) \/ Pending(r)

(* When the database is left alone, the agent ends with the routers it should *)
(* have, as they are now, but for those it has missed or lost.                *)
Converges == <>[](\A r \in Routers \ (missed \cup lost) : InPlace(r))
=============================================================================
