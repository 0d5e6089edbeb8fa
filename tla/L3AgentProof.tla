----------------------------- MODULE L3AgentProof -----------------------------
(***************************************************************************)
(* Proofs about L3Agent: for any routers and threads, a router is          *)
(* worked on by one thread at a time, and what that thread took over for   *)
(* it is never left behind.                                                *)
(***************************************************************************)
EXTENDS L3Agent, TLAPS, SequenceTheorems

USE BoundsAssumption, ForeignAssumption, NoneAssumption

(* A master works on its router, and its backlog holds updates of no other. *)
MastersWork == \A r \in Routers : master[r] # None => Busy(master[r], r)
BacklogIsOfMaster == \A r \in Routers : backlog[r] # <<>> => master[r] # None
BacklogIsOfRouter == \A r \in Routers : \A i \in DOMAIN backlog[r] : backlog[r][i].id = r
WorkersMaster == \A w \in Workers, r \in Routers : Busy(w, r) => master[r] = w

Owned == MastersWork /\ BacklogIsOfMaster /\ BacklogIsOfRouter /\ WorkersMaster

(* The inductive invariant. *)
IInv == TypeOK /\ Owned

QueueOK(q) == IsABag(q) /\ BagToSet(q) \subseteq Updates

(* The threads' part of the type invariant. *)
ThreadsOK ==
  /\ clock \in Nat
  /\ master \in [Routers -> Workers \cup {None}]
  /\ backlog \in [Routers -> Seq(Updates)]
  /\ work \in [Workers -> Works]

-----------------------------------------------------------------------------
(* Updates, bags of them, and threads that work. *)

LEMMA PutAll == ASSUME NEW q, QueueOK(q), NEW S, S \subseteq Updates
  PROVE QueueOK(q (+) SetToBag(S)) /\ BagToSet(q (+) SetToBag(S)) = BagToSet(q) \cup S
BY DEF QueueOK, IsABag, BagToSet, SetToBag, (+)

LEMMA PutOne == ASSUME NEW q, QueueOK(q), NEW u \in Updates
  PROVE QueueOK(Put(q, u)) /\ BagToSet(Put(q, u)) = BagToSet(q) \cup {u}
BY PutAll DEF Put

LEMMA TakeOne == ASSUME NEW q, QueueOK(q), NEW u
  PROVE QueueOK(q (-) SetToBag({u})) /\ BagToSet(q (-) SetToBag({u})) \subseteq BagToSet(q)
BY DEF QueueOK, IsABag, BagToSet, SetToBag, (-)

LEMMA AfterType == ASSUME NEW t \in Nat, NEW u \in After(t) PROVE u \in Nat
BY DEF After

LEMMA UpdateType ==
  ASSUME NEW r \in Routers, NEW p \in {RPC, SYNC}, NEW t \in Nat,
         NEW a \in {"update", "delete"}, NEW v \in 0..MaxVersion
  PROVE  Update(r, p, t, a, v) \in Updates /\ Update(r, p, t, a, v).id = r
BY DEF Update, Updates

LEMMA AgainType == ASSUME NEW u \in Updates, NEW t \in Nat
  PROVE  [u EXCEPT !.timestamp = t, !.priority = SYNC, !.router = 0] \in Updates
<1> DEFINE x == [u EXCEPT !.timestamp = t]
           y == [x EXCEPT !.priority = SYNC]
           z == [y EXCEPT !.router = 0]
<1>1. x \in Updates
  BY DEF Updates
<1> HIDE DEF x
<1>2. y \in Updates
  BY <1>1 DEF Updates
<1> HIDE DEF y
<1>3. z \in Updates
  BY <1>2 DEF Updates
<1> QED BY <1>3 DEF x, y, z

LEMMA WorksType == ASSUME NEW x \in Works, x # Idle
  PROVE /\ x.at \in {"fetch", "process", "remove"} /\ x.update \in Updates
        /\ x.router \in 0..MaxVersion /\ x.update.id \in Routers
        /\ x.update.timestamp \in Nat /\ x.update.priority \in {RPC, SYNC}
BY DEF Works, Updates

LEMMA ServedType == ASSUME TypeOK, NEW r \in Routers PROVE Served(r) \in 0..MaxVersion
BY DEF Served, TypeOK

LEMMA InitIInv == Init => IInv
<1> SUFFICES ASSUME Init PROVE IInv
  OBVIOUS
<1>1. IsABag(queue) /\ BagToSet(queue) \subseteq Updates
  BY DEF Init, EmptyBag, SetToBag, IsABag, BagToSet
<1>2. TypeOK
  BY <1>1 DEF Init, TypeOK, Syncs, NoSync, Works, Versions
<1>3. Owned
  BY DEF Init, Owned, MastersWork, BacklogIsOfMaster, BacklogIsOfRouter, WorkersMaster, Busy
<1> QED BY <1>2, <1>3 DEF IInv

LEMMA PursueType ==
  ASSUME NEW w \in Workers, work \in [Workers -> Works], NEW u \in Updates, NEW now \in Nat,
         Pursue(w, u, now)
  PROVE  /\ clock' \in Nat
         /\ \E x \in Works : x # Idle /\ x.update.id = u.id /\ work' = [work EXCEPT ![w] = x]
<1>1. CASE \E t \in After(now) :
             /\ clock' = t
             /\ work' = [work EXCEPT ![w] = [at |-> "fetch", router |-> 0,
                                            update |-> [u EXCEPT !.timestamp = t]]]
  <2>1. PICK t \in After(now) :
             /\ clock' = t
             /\ work' = [work EXCEPT ![w] = [at |-> "fetch", router |-> 0,
                                            update |-> [u EXCEPT !.timestamp = t]]]
    BY <1>1
  <2> DEFINE y == [u EXCEPT !.timestamp = t]
             x == [at |-> "fetch", router |-> 0, update |-> y]
  <2>2. clock' \in Nat /\ t \in Nat
    BY <2>1, AfterType
  <2>3. y \in Updates /\ y.id = u.id
    BY <2>2 DEF Updates
  <2> HIDE DEF y
  <2>4. x \in Works /\ x # Idle /\ x.update.id = u.id
    BY <2>3 DEF Works, Idle
  <2> HIDE DEF x
  <2>5. work' = [work EXCEPT ![w] = x]
    BY <2>1 DEF x, y
  <2> QED BY <2>2, <2>4, <2>5
<1>2. CASE /\ work' = [work EXCEPT ![w] = [at |-> Stage(u), router |-> u.router, update |-> u]]
           /\ clock' = now
  <2> DEFINE x == [at |-> Stage(u), router |-> u.router, update |-> u]
  <2>1. x \in Works /\ x # Idle /\ x.update.id = u.id
    BY DEF Works, Idle, Stage, Updates
  <2> QED BY <1>2, <2>1
<1> QED BY <1>1, <1>2 DEF Pursue

(* A thread that is free, or at work on a router, goes on with the updates of that router. *)
LEMMA ProceedOwned ==
  ASSUME IInv, NEW w \in Workers, NEW r \in Routers,
         (work[w] = Idle /\ master[r] = None) \/ Busy(w, r),
         NEW pending \in Seq(Updates), \A i \in DOMAIN pending : pending[i].id = r,
         NEW recorded, NEW now \in Nat,
         Proceed(w, r, pending, recorded, now)
  PROVE  ThreadsOK' /\ Owned'
<1>1. /\ work \in [Workers -> Works] /\ backlog \in [Routers -> Seq(Updates)]
      /\ master \in [Routers -> Workers \cup {None}]
  BY DEF IInv, TypeOK
<1>2. /\ \A v \in Workers \ {w} : ~Busy(v, r)
      /\ \A s \in Routers \ {r} : ~Busy(w, s) /\ master[s] # w
  BY DEF IInv, Owned, MastersWork, WorkersMaster, Busy
<1>3. CASE /\ master' = [master EXCEPT ![r] = None]
           /\ backlog' = [backlog EXCEPT ![r] = <<>>]
           /\ work' = [work EXCEPT ![w] = Idle]
           /\ clock' = now
  <2>1. ThreadsOK'
    BY <1>1, <1>3 DEF ThreadsOK, Works
  <2>2. Owned'
    BY <1>1, <1>2, <1>3 DEF IInv, Owned, MastersWork, BacklogIsOfMaster, BacklogIsOfRouter, WorkersMaster, Busy
  <2> QED BY <2>1, <2>2
<1>4. ASSUME NEW i \in DOMAIN pending, NEW x \in Works, x # Idle, x.update.id = r,
             master' = [master EXCEPT ![r] = w],
             backlog' = [backlog EXCEPT ![r] = SubSeq(pending, i + 1, Len(pending))],
             work' = [work EXCEPT ![w] = x],
             clock' \in Nat
      PROVE  ThreadsOK' /\ Owned'
  <2> DEFINE rest == SubSeq(pending, i + 1, Len(pending))
  <2>1. /\ rest \in Seq(Updates) /\ \A j \in DOMAIN rest : rest[j].id = r
    <3>1. /\ i \in Nat /\ i >= 1 /\ Len(pending) \in Nat /\ DOMAIN pending = 1..Len(pending)
          /\ \A j \in (i + 1)..Len(pending) : pending[j] \in Updates
      OBVIOUS
    <3>2. /\ rest \in Seq(Updates)
          /\ Len(rest) = IF i + 1 <= Len(pending) THEN Len(pending) - (i + 1) + 1 ELSE 0
          /\ \A j \in 1..(Len(pending) - (i + 1) + 1) : rest[j] = pending[i + 1 + j - 1]
      BY <3>1, SubSeqProperties
    <3> HIDE DEF rest
    <3>3. DOMAIN rest = 1..Len(rest)
      BY <3>2
    <3>4. ASSUME NEW j \in DOMAIN rest PROVE rest[j].id = r
      <4>1. j \in 1..(Len(pending) - (i + 1) + 1) /\ i + 1 + j - 1 \in 1..Len(pending)
        BY <3>1, <3>2, <3>3
      <4>2. rest[j] = pending[i + 1 + j - 1]
        BY <3>2, <4>1
      <4> QED BY <3>1, <4>1, <4>2
    <3> QED BY <3>2, <3>4
  <2> HIDE DEF rest
  <2>2. ThreadsOK'
    BY <1>1, <1>4, <2>1 DEF ThreadsOK, rest
  <2>3. MastersWork' /\ WorkersMaster' /\ BacklogIsOfMaster'
    BY <1>1, <1>2, <1>4 DEF IInv, Owned, MastersWork, BacklogIsOfMaster, WorkersMaster, Busy
  <2>4. BacklogIsOfRouter'
    BY <1>1, <1>4, <2>1 DEF IInv, Owned, BacklogIsOfRouter, rest
  <2> QED BY <2>2, <2>3, <2>4 DEF Owned
<1>5. ASSUME NEW i \in DOMAIN pending PROVE pending[i] \in Updates /\ pending[i].id = r
  OBVIOUS
<1>6. ASSUME NEW i \in DOMAIN pending,
             master' = [master EXCEPT ![r] = w],
             backlog' = [backlog EXCEPT ![r] = SubSeq(pending, i + 1, Len(pending))],
             Pursue(w, pending[i], now)
      PROVE  ThreadsOK' /\ Owned'
  <2>1. clock' \in Nat /\ \E x \in Works : x # Idle /\ x.update.id = r /\ work' = [work EXCEPT ![w] = x]
    BY <1>1, <1>5, <1>6, PursueType
  <2> QED BY <1>4, <1>6, <2>1
<1> QED BY <1>3, <1>6 DEF Proceed

-----------------------------------------------------------------------------
(* The steps of the threads. *)

LEMMA TakeIInv == ASSUME IInv, NEW w \in Workers, Take(w) PROVE IInv'
<1>1. PICK u \in BagToSet(queue) :
        /\ queue' = queue (-) SetToBag({u})
        /\ IF master[u.id] = None
           THEN Proceed(w, u.id, <<u>>, stamp[u.id], clock)
           ELSE /\ backlog' = [backlog EXCEPT ![u.id] = Append(@, u)]
                /\ UNCHANGED <<master, work, clock>>
  BY DEF Take
<1>2. work[w] = Idle /\ UNCHANGED <<server, fullsync, sync, routers, clean, troubles, history>>
  BY DEF Take
<1>3. u \in Updates /\ u.id \in Routers /\ QueueOK(queue)
  BY DEF IInv, TypeOK, QueueOK, Updates
<1>4. QueueOK(queue')
  BY <1>1, <1>3, TakeOne
<1>5. ThreadsOK' /\ Owned'
  <2>1. CASE master[u.id] = None
    <3>1. <<u>> \in Seq(Updates) /\ \A i \in DOMAIN <<u>> : <<u>>[i].id = u.id
      BY <1>3
    <3>2. Proceed(w, u.id, <<u>>, stamp[u.id], clock) /\ clock \in Nat
      BY <1>1, <2>1 DEF IInv, TypeOK
    <3> QED BY <1>2, <1>3, <2>1, <3>1, <3>2, ProceedOwned
  <2>2. CASE master[u.id] # None
    <3>1. /\ backlog' = [backlog EXCEPT ![u.id] = Append(@, u)]
          /\ UNCHANGED <<master, work, clock>>
      BY <1>1, <2>2
    <3> DEFINE more == Append(backlog[u.id], u)
    <3>2. backlog[u.id] \in Seq(Updates) /\ more \in Seq(Updates)
      BY <1>3 DEF IInv, TypeOK
    <3>3. \A i \in DOMAIN more : more[i].id = u.id
      BY <1>3, <3>2 DEF IInv, Owned, BacklogIsOfRouter
    <3>4. backlog' = [backlog EXCEPT ![u.id] = more] /\ backlog \in [Routers -> Seq(Updates)]
      BY <3>1 DEF IInv, TypeOK
    <3> HIDE DEF more
    <3>5. ThreadsOK'
      BY <1>3, <3>1, <3>2, <3>4 DEF IInv, TypeOK, ThreadsOK
    <3>6. MastersWork' /\ WorkersMaster' /\ BacklogIsOfMaster'
      BY <1>3, <2>2, <3>1, <3>4 DEF IInv, Owned, MastersWork, BacklogIsOfMaster, WorkersMaster, Busy
    <3>7. BacklogIsOfRouter'
      BY <1>3, <3>3, <3>4 DEF IInv, Owned, BacklogIsOfRouter
    <3> QED BY <3>5, <3>6, <3>7 DEF Owned
  <2> QED BY <2>1, <2>2
<1>6. TypeOK'
  BY <1>2, <1>4, <1>5 DEF server, routers, history, IInv, TypeOK, ThreadsOK, QueueOK
<1> QED BY <1>5, <1>6 DEF IInv

(* A thread at work is the master of its router, and so Done and Resync keep the order. *)
LEMMA WorkingType == ASSUME IInv, NEW w \in Workers, work[w].at \in {"fetch", "process", "remove"}
  PROVE /\ work[w] \in Works /\ work[w] # Idle
        /\ work[w].update \in Updates /\ work[w].router \in 0..MaxVersion
        /\ work[w].update.id \in Routers /\ Busy(w, work[w].update.id)
        /\ work[w].update.timestamp \in Nat
        /\ backlog[work[w].update.id] \in Seq(Updates)
        /\ \A i \in DOMAIN backlog[work[w].update.id] :
              backlog[work[w].update.id][i].id = work[w].update.id
<1>1. work[w] \in Works /\ work[w] # Idle
  BY DEF IInv, TypeOK, Idle
<1> QED BY <1>1, WorksType DEF IInv, TypeOK, Busy, Owned, BacklogIsOfRouter

LEMMA DoneOwned ==
  ASSUME IInv, NEW w \in Workers, work[w].at \in {"fetch", "process", "remove"}, Done(w)
  PROVE  /\ ThreadsOK' /\ Owned' /\ stamp' \in [Routers -> Nat]
         /\ UNCHANGED <<server, fullsync, sync, queue, clean, unheard, lost>>
<1> DEFINE u == work[w].update
           recorded == IF stamp[u.id] < u.timestamp THEN u.timestamp ELSE stamp[u.id]
<1>1. /\ u \in Updates /\ u.id \in Routers /\ Busy(w, u.id) /\ u.timestamp \in Nat
      /\ backlog[u.id] \in Seq(Updates) /\ \A i \in DOMAIN backlog[u.id] : backlog[u.id][i].id = u.id
  BY WorkingType
<1>2. stamp \in [Routers -> Nat] /\ clock \in Nat
  BY DEF IInv, TypeOK
<1>3. stamp' = [stamp EXCEPT ![u.id] = recorded] /\ Proceed(w, u.id, backlog[u.id], recorded, clock)
  BY DEF Done
<1>4. UNCHANGED <<server, fullsync, sync, queue, clean, unheard, lost>>
  BY DEF Done
<1>5. stamp' \in [Routers -> Nat]
  BY <1>1, <1>2, <1>3
<1> HIDE DEF u, recorded
<1> QED BY <1>1, <1>2, <1>3, <1>4, <1>5, ProceedOwned

LEMMA ResyncOwned ==
  ASSUME IInv, NEW w \in Workers, work[w].at \in {"fetch", "process", "remove"}, Resync(w)
  PROVE  /\ ThreadsOK' /\ Owned' /\ QueueOK(queue')
         /\ UNCHANGED <<server, fullsync, sync, stamp, clean, history>>
<1> DEFINE u == work[w].update
<1>1. /\ u \in Updates /\ u.id \in Routers /\ Busy(w, u.id)
      /\ backlog[u.id] \in Seq(Updates) /\ \A i \in DOMAIN backlog[u.id] : backlog[u.id][i].id = u.id
  BY WorkingType
<1>2. PICK t \in After(clock) :
        /\ queue' = Put(queue, [u EXCEPT !.timestamp = t, !.priority = SYNC, !.router = 0])
        /\ Proceed(w, u.id, backlog[u.id], stamp[u.id], t)
  BY DEF Resync
<1>3. t \in Nat
  BY <1>2, AfterType DEF IInv, TypeOK
<1>4. [u EXCEPT !.timestamp = t, !.priority = SYNC, !.router = 0] \in Updates
  BY <1>1, <1>3, AgainType
<1>5. QueueOK(queue) /\ QueueOK(queue')
  BY <1>2, <1>4, PutOne DEF IInv, TypeOK, QueueOK
<1>6. UNCHANGED <<server, fullsync, sync, stamp, clean, history>>
  BY DEF Resync
<1> HIDE DEF u
<1> QED BY <1>1, <1>2, <1>3, <1>5, <1>6, ProceedOwned

LEMMA WorkIInv == ASSUME IInv, NEW w \in Workers, Work(w) PROVE IInv'
<1>1. CASE Take(w)
  BY <1>1, TakeIInv
<1>2. CASE Answer(w)
  <2> DEFINE data == Served(work[w].update.id)
             x == [work[w] EXCEPT !.router = data, !.at = IF data = 0 THEN "remove" ELSE "process"]
  <2>1. /\ work[w] \in Works /\ work[w] # Idle /\ work[w].update \in Updates
        /\ data \in 0..MaxVersion
    BY <1>2, WorkingType, ServedType DEF Answer, IInv
  <2>2. x \in Works /\ x # Idle /\ x.update = work[w].update
    BY <2>1 DEF Works, Idle
  <2>3. work' = [work EXCEPT ![w] = x] /\ work \in [Workers -> Works]
    BY <1>2 DEF Answer, IInv, TypeOK
  <2>4. UNCHANGED <<server, clock, fullsync, sync, queue, master, backlog, routers, clean, troubles, history>>
    BY <1>2 DEF Answer
  <2> HIDE DEF x
  <2>5. TypeOK'
    BY <2>2, <2>3, <2>4 DEF server, routers, history, IInv, TypeOK
  <2>6. \A v \in Workers, r \in Routers : Busy(v, r)' <=> Busy(v, r)
    BY <2>1, <2>2, <2>3 DEF Busy
  <2>7. master \in [Routers -> Workers \cup {None}]
    BY DEF IInv, TypeOK
  <2>8. Owned'
    BY <2>4, <2>6, <2>7 DEF IInv, Owned, MastersWork, BacklogIsOfMaster, BacklogIsOfRouter, WorkersMaster
  <2> QED BY <2>5, <2>8 DEF IInv
<1>3. CASE FetchFails(w)
  <2>1. ThreadsOK' /\ Owned' /\ QueueOK(queue') /\ UNCHANGED <<server, fullsync, sync, stamp, clean, history>>
    BY <1>3, ResyncOwned DEF FetchFails
  <2>2. UNCHANGED <<known, host>> /\ troubles' \in 0..MaxTroubles
    BY <1>3 DEF FetchFails, Trouble, IInv, TypeOK
  <2> QED BY <2>1, <2>2 DEF server, history, IInv, TypeOK, ThreadsOK, QueueOK
<1>8. missed' \in SUBSET Routers
  <2>1. work[w].at \in {"remove", "process"} => work[w].update.id \in Routers
    BY WorkingType
  <2>2. missed \subseteq Routers
    BY DEF IInv, TypeOK
  <2>3. CASE Take(w) \/ Answer(w)
    BY <2>2, <2>3 DEF Take, Answer, history
  <2>4. CASE FetchFails(w) \/ ProcessFails(w)
    BY <2>2, <2>4 DEF FetchFails, ProcessFails, Resync, history
  <2>5. CASE Removed(w) \/ Process(w) \/ Reject(w) \/ BridgeMissing(w)
    BY <2>1, <2>2, <2>5 DEF Removed, Process, Reject, BridgeMissing
  <2>6. CASE RemoveFails(w)
    BY <2>1, <2>2, <2>6 DEF RemoveFails, Resync, history
  <2> QED BY <2>3, <2>4, <2>5, <2>6 DEF Work
<1>4. CASE Removed(w) \/ Process(w) \/ BridgeMissing(w)
  <2>1. /\ ThreadsOK' /\ Owned' /\ stamp' \in [Routers -> Nat]
        /\ UNCHANGED <<server, fullsync, sync, queue, clean, unheard, lost>>
    BY <1>4, DoneOwned DEF Removed, Process, BridgeMissing
  <2>2. known' \subseteq Routers /\ host' \in [Routers -> Versions \cup {0, Broken, Leftover}] /\ troubles' \in 0..MaxTroubles
    <3>1. work[w].router \in Versions \cup {0} /\ work[w].update.id \in Routers
      BY <1>4, WorkingType DEF Removed, Process, BridgeMissing, Versions
    <3>2. /\ known \subseteq Routers /\ host \in [Routers -> Versions \cup {0, Broken, Leftover}]
          /\ troubles \in 0..MaxTroubles
      BY DEF IInv, TypeOK
    <3>3. CASE Removed(w)
      BY <3>1, <3>2, <3>3 DEF Removed
    <3>4. CASE Process(w)
      BY <3>1, <3>2, <3>4 DEF Process
    <3>5. CASE BridgeMissing(w)
      BY <3>2, <3>5 DEF BridgeMissing, Trouble
    <3> QED BY <1>4, <3>3, <3>4, <3>5
  <2> QED BY <1>8, <2>1, <2>2 DEF server, IInv, TypeOK, ThreadsOK
<1>5. CASE RemoveFails(w) \/ ProcessFails(w)
  <2>1. known' \subseteq Routers /\ host' \in [Routers -> Versions \cup {0, Broken, Leftover}]
    BY <1>5, WorkingType DEF RemoveFails, ProcessFails, IInv, TypeOK
  <2>2. troubles' \in 0..MaxTroubles
    BY <1>5 DEF RemoveFails, ProcessFails, Trouble, IInv, TypeOK
  <2>3. work[w].at \in {"fetch", "process", "remove"} /\ (Done(w) \/ Resync(w))
    BY <1>5 DEF RemoveFails, ProcessFails
  <2>4. CASE Done(w)
    <3>1. ThreadsOK' /\ Owned' /\ stamp' \in [Routers -> Nat] /\ UNCHANGED <<server, fullsync, sync, queue, clean, unheard, lost>>
      BY <2>3, <2>4, DoneOwned
    <3> QED BY <1>8, <2>1, <2>2, <3>1 DEF server, IInv, TypeOK, ThreadsOK
  <2>5. CASE Resync(w)
    <3>1. ThreadsOK' /\ Owned' /\ QueueOK(queue') /\ UNCHANGED <<server, fullsync, sync, stamp, clean, history>>
      BY <2>3, <2>5, ResyncOwned
    <3> QED BY <2>1, <2>2, <3>1 DEF server, history, IInv, TypeOK, ThreadsOK, QueueOK
  <2> QED BY <2>3, <2>4, <2>5
<1>6. CASE Reject(w)
  <2>1. ThreadsOK' /\ Owned' /\ stamp' \in [Routers -> Nat] /\ UNCHANGED <<server, fullsync, sync, queue, clean, unheard, lost>>
    BY <1>6, DoneOwned DEF Reject
  <2>2. known' \subseteq Routers /\ host' \in [Routers -> Versions \cup {0, Broken, Leftover}]
    BY <1>6, WorkingType DEF Reject, IInv, TypeOK
  <2>3. troubles' \in 0..MaxTroubles
    BY <1>6 DEF Reject, Trouble, IInv, TypeOK
  <2> QED BY <1>8, <2>1, <2>2, <2>3 DEF server, IInv, TypeOK, ThreadsOK
<1> QED BY <1>1, <1>2, <1>3, <1>4, <1>5, <1>6 DEF Work

-----------------------------------------------------------------------------
(* The server, the notifications and the synchronisation leave the threads alone. *)

LEMMA OwnedStays == ASSUME Owned, UNCHANGED <<master, backlog, work>> PROVE Owned'
BY DEF Owned, MastersWork, BacklogIsOfMaster, BacklogIsOfRouter, WorkersMaster, Busy

LEMMA ServerIInv ==
  ASSUME IInv, (\E r \in Routers : Edit(r) \/ Withdraw(r) \/ Schedule(r)) \/ Presume \/ Beat \/ Switch \/ SetBack
  PROVE  IInv'
<1>1. UNCHANGED <<master, backlog, work>>
  BY DEF Edit, Withdraw, Schedule, Presume, Beat, Switch, SetBack, queues
<1>2. ASSUME NEW r \in Routers, Edit(r) \/ Withdraw(r) \/ Schedule(r) PROVE TypeOK'
  <2>1. /\ db \in [Routers -> 0..MaxVersion] /\ version \in 1..MaxVersion
        /\ notes \in [Routers -> Seq({"updated", "removed"})]
    BY DEF IInv, TypeOK
  <2>2. /\ Append(notes[r], "updated") \in Seq({"updated", "removed"})
        /\ Append(notes[r], "removed") \in Seq({"updated", "removed"})
    BY <2>1
  <2>3. /\ db' \in [Routers -> 0..MaxVersion] /\ version' \in 1..MaxVersion
        /\ notes' \in [Routers -> Seq({"updated", "removed"})]
    <3>1. CASE Edit(r) \/ Schedule(r)
      <4>1. version' \in 1..MaxVersion
        BY <2>1, <3>1 DEF Edit, Schedule
      <4>2. db' = [db EXCEPT ![r] = version']
        BY <3>1 DEF Edit, Schedule
      <4>3. notes' = notes \/ notes' = [notes EXCEPT ![r] = Append(@, "updated")]
        BY <3>1 DEF Edit, Schedule, Tell
      <4>4. db' \in [Routers -> 0..MaxVersion]
        BY <2>1, <4>1, <4>2
      <4>5. notes' \in [Routers -> Seq({"updated", "removed"})]
        BY <2>1, <2>2, <4>3
      <4> QED BY <4>1, <4>4, <4>5
    <3>2. CASE Withdraw(r)
      BY <2>1, <2>2, <3>2 DEF Withdraw, Tell
    <3> QED BY <1>2, <3>1, <3>2
  <2>4. UNCHANGED <<agent, clock, fullsync, sync, queues, routers, clean, troubles, missed, lost>>
    BY <1>2 DEF Edit, Withdraw, Schedule, history
  <2>5. unheard' \subseteq Routers
    BY <1>2 DEF Edit, Withdraw, Schedule, history, IInv, TypeOK
  <2> QED BY <2>3, <2>4, <2>5 DEF queues, routers, IInv, TypeOK
<1>3. ASSUME Presume \/ Beat \/ Switch \/ SetBack PROVE TypeOK'
  <2>3. /\ clock' \in Nat /\ missed' = missed
        /\ unheard' \subseteq Routers /\ lost' \subseteq Routers
    <3>1. clock \in Nat /\ unheard \subseteq Routers /\ lost \subseteq Routers
      BY DEF IInv, TypeOK
    <3>2. CASE Presume
      BY <3>1, <3>2 DEF Presume, history
    <3>3. CASE Beat
      BY <3>1, <3>3 DEF Beat
    <3>4. CASE Switch
      BY <3>1, <3>4 DEF Switch
    <3>5. CASE SetBack
      BY <3>1, <3>5 DEF SetBack
    <3> QED BY <1>3, <3>2, <3>3, <3>4, <3>5
  <2>1. agent' \in {"active", "dead", "disabled"} /\ fullsync' \in BOOLEAN /\ troubles' \in 0..MaxTroubles
    <3>1. agent \in {"active", "dead", "disabled"} /\ fullsync \in BOOLEAN /\ troubles \in 0..MaxTroubles
      BY DEF IInv, TypeOK
    <3>2. CASE Presume
      BY <3>1, <3>2 DEF Presume, Trouble
    <3>3. CASE Beat
      BY <3>1, <3>3 DEF Beat
    <3>4. CASE Switch
      BY <3>1, <3>4 DEF Switch, Trouble
    <3>5. CASE SetBack
      BY <3>1, <3>5 DEF SetBack, Trouble, server
    <3> QED BY <1>3, <3>2, <3>3, <3>4, <3>5
  <2>2. UNCHANGED <<db, version, notes, sync, queues, routers, clean>>
    BY <1>3 DEF Presume, Beat, Switch, SetBack, server
  <2> QED BY <2>1, <2>2, <2>3 DEF queues, routers, IInv, TypeOK
<1>4. TypeOK'
  BY <1>2, <1>3
<1> QED BY <1>1, <1>4, OwnedStays DEF IInv

LEMMA ReceiveIInv == ASSUME IInv, NEW r \in Routers, Receive(r) PROVE IInv'
<1> DEFINE action == IF Head(notes[r]) = "removed" THEN "delete" ELSE "update"
<1>1. PICK t \in After(clock) : clock' = t /\ queue' = Put(queue, Update(r, RPC, t, action, 0))
  BY DEF Receive
<1>2. t \in Nat
  BY <1>1, AfterType DEF IInv, TypeOK
<1>3. Update(r, RPC, t, action, 0) \in Updates
  BY <1>2, UpdateType
<1>4. QueueOK(queue) /\ QueueOK(queue')
  BY <1>1, <1>3, PutOne DEF IInv, TypeOK, QueueOK
<1>5. notes' \in [Routers -> Seq({"updated", "removed"})]
  <2>1. notes[r] \in Seq({"updated", "removed"}) /\ notes[r] # <<>>
    BY DEF Receive, IInv, TypeOK
  <2>2. Tail(notes[r]) \in Seq({"updated", "removed"})
    BY <2>1
  <2> QED BY <2>2 DEF Receive, IInv, TypeOK
<1>6. UNCHANGED <<db, version, agent, fullsync, sync, master, backlog, work, routers, clean, troubles, history>>
  BY DEF Receive
<1>7. TypeOK'
  BY <1>1, <1>2, <1>4, <1>5, <1>6 DEF routers, history, IInv, TypeOK, QueueOK
<1> QED BY <1>6, <1>7, OwnedStays DEF IInv

LEMMA SyncsType == ASSUME sync \in Syncs, sync # NoSync
  PROVE /\ sync.at \in {"ids", "chunk", "sweep"} /\ sync.timestamp \in Nat
        /\ sync.todo \subseteq Routers /\ sync.previous \subseteq Routers
        /\ sync.stale \subseteq Routers /\ sync.current \subseteq Routers
BY DEF Syncs

LEMMA SyncIInv == ASSUME IInv, Sync PROVE IInv'
<1>1. sync \in Syncs /\ known \subseteq Routers /\ clock \in Nat /\ QueueOK(queue)
  BY DEF IInv, TypeOK, QueueOK
<1>2. UNCHANGED <<server, master, backlog, work, stamp, known>>
  BY DEF Sync, SyncStart, SyncIds, SyncChunk, SyncEnd, SyncFails, Sweep, queues, routers
<1>10. unheard' \subseteq Routers /\ missed' \subseteq Routers /\ lost' \subseteq Routers
  <2>1. unheard \subseteq Routers /\ missed \subseteq Routers /\ lost \subseteq Routers
    BY DEF IInv, TypeOK
  <2>2. sync.at = "sweep" => sync.stale \subseteq Routers
    BY <1>1 DEF Syncs, NoSync
  <2> QED BY <2>1, <2>2 DEF Sync, SyncStart, SyncIds, SyncChunk, SyncEnd, SyncFails, Sweep, history
<1>3. ASSUME sync' \in Syncs, clock' \in Nat, QueueOK(queue'), fullsync' \in BOOLEAN, clean' \in BOOLEAN,
             troubles' \in 0..MaxTroubles, host' \in [Routers -> Versions \cup {0, Broken, Leftover}]
      PROVE  IInv'
  <2>1. TypeOK'
    BY <1>2, <1>3, <1>10 DEF server, IInv, TypeOK, QueueOK
  <2> QED BY <1>2, <2>1, OwnedStays DEF IInv
<1>4. CASE SyncStart
  <2>1. PICK t \in After(clock) :
          /\ clock' = t
          /\ sync' = [at |-> "ids", timestamp |-> t, previous |-> known,
                      stale |-> IF clean THEN {r \in Routers : host[r] # 0} ELSE {},
                      todo |-> {}, current |-> {}]
    BY <1>4 DEF SyncStart
  <2>2. t \in Nat
    BY <1>1, <2>1, AfterType
  <2>3. sync' \in Syncs
    BY <1>1, <2>1, <2>2 DEF Syncs
  <2> QED BY <1>1, <1>3, <1>4, <2>1, <2>2, <2>3 DEF SyncStart, queues, routers, IInv, TypeOK
<1>5. CASE SyncIds
  <2>1. sync # NoSync
    BY <1>5 DEF SyncIds, NoSync
  <2>2. sync' \in Syncs
    BY <1>1, <1>5, <2>1 DEF SyncIds, Syncs
  <2> QED BY <1>1, <1>3, <1>5, <2>2 DEF SyncIds, queues, routers, IInv, TypeOK
<1>6. CASE SyncChunk
  <2>1. PICK r \in sync.todo :
          LET found == {r} \cap {x \in Routers : Served(x) # 0} IN
          /\ sync' = [sync EXCEPT !.todo = @ \ {r}, !.current = @ \cup found]
          /\ queue' = queue (+)
               SetToBag({Update(x, SYNC, sync.timestamp, "update", Served(x)) : x \in found})
    BY <1>6 DEF SyncChunk
  <2> DEFINE found == {r} \cap {x \in Routers : Served(x) # 0}
             us == {Update(x, SYNC, sync.timestamp, "update", Served(x)) : x \in found}
  <2>2. sync # NoSync
    BY <1>6 DEF SyncChunk, NoSync
  <2>3. us \subseteq Updates
    <3>1. \A x \in found : Served(x) \in 0..MaxVersion /\ x \in Routers
      BY ServedType DEF IInv
    <3>2. sync.timestamp \in Nat
      BY <1>1, <2>2, SyncsType
    <3> QED BY <3>1, <3>2, UpdateType
  <2>4. QueueOK(queue')
    BY <1>1, <2>1, <2>3, PutAll
  <2>5. sync' \in Syncs
    <3>1. found \subseteq Routers
      OBVIOUS
    <3> HIDE DEF found
    <3>2. sync' = [sync EXCEPT !.todo = @ \ {r}, !.current = @ \cup found]
      BY <2>1 DEF found
    <3> QED BY <1>1, <2>2, <3>1, <3>2 DEF Syncs
  <2> QED BY <1>1, <1>3, <1>6, <2>4, <2>5 DEF SyncChunk, routers, IInv, TypeOK
<1>7. CASE SyncEnd
  <2> DEFINE vanished == sync.previous \ sync.current
             stale == sync.stale \ (sync.current \cup vanished)
             us == {Update(r, SYNC, sync.timestamp, "delete", 0) : r \in vanished}
  <2>1. /\ queue' = queue (+) SetToBag(us)
        /\ sync' = IF stale = {} THEN NoSync ELSE [sync EXCEPT !.at = "sweep", !.stale = stale]
        /\ fullsync' = FALSE /\ clean' = FALSE
    BY <1>7 DEF SyncEnd
  <2>2. sync # NoSync
    BY <1>7 DEF SyncEnd, NoSync
  <2>3. vanished \subseteq Routers /\ stale \subseteq Routers /\ sync.timestamp \in Nat
    BY <1>1, <2>2, SyncsType
  <2>4. us \subseteq Updates
    BY <2>3, UpdateType
  <2> HIDE DEF vanished, stale
  <2>5. QueueOK(queue')
    BY <1>1, <2>1, <2>4, PutAll
  <2>6. sync' \in Syncs
    BY <1>1, <2>1, <2>2, <2>3 DEF Syncs
  <2> QED BY <1>1, <1>3, <1>7, <2>1, <2>5, <2>6 DEF SyncEnd, routers, IInv, TypeOK
<1>8. CASE SyncFails
  BY <1>1, <1>3, <1>8 DEF SyncFails, Trouble, Syncs, queues, routers, IInv, TypeOK
<1>9. CASE Sweep
  <2>1. host \in [Routers -> Versions \cup {0, Broken, Leftover}] /\ troubles \in 0..MaxTroubles
    BY DEF IInv, TypeOK
  <2>2. host' \in [Routers -> Versions \cup {0, Broken, Leftover}] /\ troubles' \in 0..MaxTroubles
    BY <1>9, <2>1 DEF Sweep, Trouble
  <2>3. sync' \in Syncs /\ UNCHANGED <<clock, fullsync, queue, clean>>
    BY <1>9 DEF Sweep, queues, Syncs
  <2> QED BY <1>1, <1>3, <2>2, <2>3 DEF IInv, TypeOK
<1> QED BY <1>4, <1>5, <1>6, <1>7, <1>8, <1>9 DEF Sync

LEMMA RestartIInv == ASSUME IInv, Restart PROVE IInv'
<1>1. host' \in [Routers -> Versions \cup {0, Broken, Leftover}]
  BY DEF Restart, IInv, TypeOK
<1>2. IsABag(queue') /\ BagToSet(queue') \subseteq Updates
  BY DEF Restart, EmptyBag, SetToBag, IsABag, BagToSet
<1>3. /\ master' = [r \in Routers |-> None] /\ backlog' = [r \in Routers |-> <<>>]
      /\ work' = [w \in Workers |-> Idle] /\ stamp' = [r \in Routers |-> 0]
      /\ known' = {} /\ sync' = NoSync /\ fullsync' = TRUE /\ clean' = TRUE
      /\ UNCHANGED <<server, clock>>
  BY DEF Restart
<1>4. TypeOK'
  BY <1>1, <1>2, <1>3 DEF Restart, Trouble, server, IInv, TypeOK, Syncs, Works
<1>5. Owned'
  BY <1>3 DEF Owned, MastersWork, BacklogIsOfMaster, BacklogIsOfRouter, WorkersMaster, Busy
<1> QED BY <1>4, <1>5 DEF IInv

-----------------------------------------------------------------------------
(* The whole system. *)

LEMMA Inductive == Spec => []IInv
<1>1. IInv /\ [Next]_vars => IInv'
  <2> SUFFICES ASSUME IInv, [Next]_vars PROVE IInv'
    OBVIOUS
  <2>1. CASE \E r \in Routers : Edit(r) \/ Withdraw(r) \/ Schedule(r)
    BY <2>1, ServerIInv
  <2>2. ASSUME NEW r \in Routers, Receive(r) PROVE IInv'
    BY <2>2, ReceiveIInv
  <2>3. ASSUME NEW w \in Workers, Work(w) PROVE IInv'
    BY <2>3, WorkIInv
  <2>4. CASE Sync
    BY <2>4, SyncIInv
  <2>5. CASE Presume \/ Beat \/ Switch \/ SetBack
    BY <2>5, ServerIInv
  <2>6. CASE Restart
    BY <2>6, RestartIInv
  <2>7. CASE UNCHANGED vars
    <3>1. TypeOK'
      BY <2>7 DEF vars, server, queues, routers, history, IInv, TypeOK
    <3> QED BY <2>7, <3>1, OwnedStays DEF vars, queues, IInv
  <2> QED BY <2>1, <2>2, <2>3, <2>4, <2>5, <2>6, <2>7 DEF Next
<1> QED BY InitIInv, <1>1, PTL DEF Spec

(* The state of server, agent and host keeps its shape, whatever fails and whatever *)
(* falls into a synchronisation: updates keep their form on their way through the   *)
(* queue, a backlog and a retry (RouterProcessingQueue, _resync_router).            *)
THEOREM TypeCorrect == Spec => []TypeOK
<1>1. IInv => TypeOK
  BY DEF IInv
<1> QED BY <1>1, Inductive, PTL

(* For any routers, threads, failures and races, a router is worked on by one       *)
(* thread, its master, and an update the master took over stands in the backlog of  *)
(* a thread that is at work (ExclusiveRouterProcessor).                             *)
THEOREM OneThreadPerRouter == Spec => []ExclusiveProcessing
<1>1. IInv => ExclusiveProcessing
  BY DEF IInv, Owned, MastersWork, BacklogIsOfMaster, WorkersMaster, ExclusiveProcessing
<1> QED BY <1>1, Inductive, PTL
===============================================================================
