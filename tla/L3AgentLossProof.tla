---------------------------- MODULE L3AgentLossProof ----------------------------
(***************************************************************************)
(* Proofs about L3Agent: for any number of routers, threads and troubles,  *)
(* skipping updates by their stamps loses no change.  What the agent keeps *)
(* about a router is its line; the invariant speaks of one line at a time, *)
(* so most lemmas are about what may happen to a line.                     *)
(***************************************************************************)
EXTENDS L3AgentProof

USE BoundsAssumption, ForeignAssumption, NoneAssumption

(* All there is about a router: its updates in the queue and in the backlog of its  *)
(* master, what that thread does, and what the router's fate depends on.            *)
Line(r) ==
  [queue |-> {u \in BagToSet(queue) : u.id = r}, backlog |-> backlog[r],
   work |-> {work[w] : w \in {v \in Workers : Busy(v, r)}}, stamp |-> stamp[r], clock |-> clock,
   host |-> host[r], known |-> known \cap {r}, notes |-> notes[r],
   served |-> Served(r), sync |-> sync,
   deaf |-> IF r \in unheard THEN 1 ELSE 0, missed |-> IF r \in missed THEN 1 ELSE 0,
   asked |-> IF fullsync THEN 1 ELSE 0, clearing |-> IF clean THEN 1 ELSE 0]

InLine(l) == l.queue \cup Range(l.backlog)
Syncing(l) == l.sync.at \in {"ids", "chunk"}

IsFetch(u) == u.action = "update" /\ u.router = 0
IsDelete(u) == u.action = "delete"

-----------------------------------------------------------------------------
(* The shape of a line. *)

Typed(l) ==
  /\ l.queue \subseteq Updates /\ l.backlog \in Seq(Updates) /\ l.work \subseteq Works \ {Idle}
  /\ l.stamp \in Nat /\ l.clock \in Nat /\ l.served \in 0..MaxVersion
  /\ l.asked \in {0, 1} /\ l.clearing \in {0, 1}
  /\ l.sync.at \in {"off", "ids", "chunk", "sweep"} /\ (Syncing(l) => l.sync.timestamp \in Nat)
  /\ \A x, y \in l.work : x = y

(* Whatever is not a fetch has its data or is a delete; RPC updates come without data. *)
Formed(u) == (IsDelete(u) \/ u.priority = RPC) => u.router = 0
FormedWork(x) ==
  /\ Formed(x.update)
  /\ x.at = "fetch" => IsFetch(x.update) /\ x.router = 0
  /\ x.at = "remove" => x.router = 0 /\ x.update.router = 0
  /\ x.at = "process" => x.router # 0 /\ ~IsDelete(x.update)
  /\ x.update.router # 0 => x.router = x.update.router

Shaped(l, r) ==
  /\ Typed(l)
  /\ \A u \in InLine(l) : Formed(u) /\ u.timestamp <= l.clock
  /\ \A x \in l.work : FormedWork(x) /\ x.update.timestamp <= l.clock /\ l.stamp < x.update.timestamp
  /\ l.stamp <= l.clock
  /\ Syncing(l) => l.asked = 1 /\ l.sync.timestamp <= l.clock /\ (r \in l.sync.stale => l.clearing = 1)
  /\ l.sync.at = "ids" => r \notin l.sync.current
  /\ l.sync.at = "sweep" => l.clearing = 0

(* The queue is in order: what is taken before a fetch is older, or was told by the *)
(* server while the fetch has the priority of a synchronisation.                    *)
Precedes(y, h) == IsFetch(y) \/ y.timestamp < h.timestamp \/ (y.priority = RPC /\ h.priority = SYNC)
Ordered(l) ==
  /\ \A h \in l.queue : IsFetch(h) =>
       /\ \A i \in DOMAIN l.backlog : Precedes(l.backlog[i], h)
       /\ \A x \in l.work : Precedes(x.update, h)
  /\ \A j \in DOMAIN l.backlog : IsFetch(l.backlog[j]) =>
       /\ \A i \in 1..(j - 1) : Precedes(l.backlog[i], l.backlog[j])
       /\ \A x \in l.work : Precedes(x.update, l.backlog[j])

(* No fetch has the stamp of anything else. *)
Distinct(l) ==
  \A h \in InLine(l) : IsFetch(h) =>
    /\ \A u \in InLine(l) : IsFetch(u) \/ u.timestamp # h.timestamp
    /\ \A x \in l.work : IsFetch(x.update) \/ x.update.timestamp # h.timestamp
    /\ Syncing(l) => h.timestamp # l.sync.timestamp

-----------------------------------------------------------------------------
(* What must follow an update that would do harm. *)

(* The data are asked for again, later than t. *)
Later(l, t) ==
  \/ l.notes # <<>>
  \/ \E h \in InLine(l) : IsFetch(h) /\ h.timestamp > t
  \/ \E x \in l.work : IsFetch(x.update) /\ x.update.timestamp > t

(* Fresh, and to stay so when the thread is done. *)
Alive(l, h) == h.timestamp > l.stamp /\ \A x \in l.work : IsFetch(x.update) => h.timestamp > x.update.timestamp

DeletesOutrun(l) == l.served # 0 =>
  /\ \A d \in InLine(l) : IsDelete(d) /\ d.timestamp > l.stamp =>
       \/ Later(l, d.timestamp)
       \/ d.priority = SYNC /\ \E h \in InLine(l) : IsFetch(h) /\ Alive(l, h)
  /\ \A x \in l.work : IsDelete(x.update) => Later(l, x.update.timestamp)

Right(u, l) == IF IsDelete(u) THEN l.served = 0 ELSE u.router \in {0, l.served}
GoodWork(x, l) == x.at = "fetch" \/ x.router = l.served

(* The router is put right by something later than t. *)
Redone(l, t) ==
  \/ l.notes # <<>>
  \/ \E g \in InLine(l) : Right(g, l) /\ g.timestamp > t
  \/ \E x \in l.work : GoodWork(x, l) /\ x.update.timestamp > t

(* A synchronisation, asked for or yet to read the router, is to put right older data. *)
Demanded(l, t) ==
  l.served = 0 \/ (l.deaf = 0 /\ (l.asked = 0 \/ (Syncing(l) /\ t >= l.sync.timestamp)))
DataOutrun(l) ==
  /\ \A u \in InLine(l) : u.router \notin {0, l.served} /\ u.timestamp > l.stamp /\ Demanded(l, u.timestamp)
       => Redone(l, u.timestamp)
  /\ \A x \in l.work : ~IsDelete(x.update) /\ ~GoodWork(x, l) /\ Demanded(l, x.update.timestamp)
       => Redone(l, x.update.timestamp)

-----------------------------------------------------------------------------
(* What a synchronisation has seen to. *)

Synced(l, r) == l.sync.at = "chunk" /\ r \notin l.sync.todo
Caught(l, r) == Synced(l, r) /\ l.served # 0 /\ l.stamp < l.sync.timestamp =>
  /\ l.deaf = 0 => Redone(l, l.sync.timestamp - 1)
  /\ r \notin l.sync.current => Later(l, l.sync.timestamp)

CurrentInLine(l, r) == l.sync.at = "chunk" /\ r \in l.sync.current =>
  \/ l.stamp >= l.sync.timestamp
  \/ \E u \in InLine(l) : u.timestamp >= l.sync.timestamp
  \/ \E x \in l.work : x.update.timestamp >= l.sync.timestamp

-----------------------------------------------------------------------------
(* The host is right, unless the agent has missed the router, or will be. *)

Goal(l) == IF Compatible(l.served) THEN l.served ELSE 0
Shown(l) == l.host = Goal(l) \/ (Goal(l) = 0 /\ l.host = Leftover) \/ l.missed # 0

Coming(l) ==
  \/ l.notes # <<>>
  \/ \E g \in InLine(l) : Right(g, l) /\ g.timestamp > l.stamp
  \/ \E x \in l.work : GoodWork(x, l)

(* A synchronisation will find that the router is not to be here. *)
Remnant(l, r) ==
  \/ Syncing(l) /\ r \in l.known /\ r \in l.sync.previous \ l.sync.current
  \/ Syncing(l) /\ r \in l.sync.stale \ l.sync.current
  \/ l.sync.at = "sweep" /\ r \in l.sync.stale
  \/ l.sync.at \in {"off", "sweep"} /\ l.asked = 1 /\ (r \in l.known \/ l.clearing = 1)

Kept(l, r) ==
  \/ Shown(l) \/ Coming(l)
  \/ l.served = 0 /\ Remnant(l, r)
  \/ l.served # 0 /\ (l.deaf # 0 \/ l.asked = 1)
Repaired(l) == Syncing(l) /\ l.stamp >= l.sync.timestamp /\ (l.served = 0 \/ l.deaf = 0) =>
  Shown(l) \/ Coming(l)

(* What is on the host and unknown to the agent. *)
Accounted(l, r) == r \notin l.known /\ l.host \notin {0, Leftover} /\ l.missed = 0 =>
  \/ l.notes # <<>>
  \/ \E u \in InLine(l) : u.timestamp > l.stamp
  \/ l.work # {}
  \/ l.clearing = 1 /\ (Syncing(l) => r \in l.sync.stale /\ l.stamp < l.sync.timestamp)
  \/ l.sync.at = "sweep" /\ r \in l.sync.stale

LineInv(l, r) ==
  /\ Shaped(l, r) /\ Ordered(l) /\ Distinct(l)
  /\ DeletesOutrun(l) /\ DataOutrun(l)
  /\ Caught(l, r) /\ CurrentInLine(l, r)
  /\ Kept(l, r) /\ Repaired(l) /\ Accounted(l, r)

NoLoss == \A r \in Routers \ lost : LineInv(Line(r), r)

(* The last a router was told of is its withdrawal only while it is away. *)
Removals == \A r \in Routers : notes[r] # <<>> /\ Last(notes[r]) = "removed" => db[r] = 0

-----------------------------------------------------------------------------
(* What leaves a line as it is, in one respect or another. *)

SameUpdates(l, m) == m.queue = l.queue /\ m.backlog = l.backlog /\ m.work = l.work
SameRouter(l, m) == m.stamp = l.stamp /\ m.host = l.host /\ m.known = l.known /\ m.missed = l.missed
SameServer(l, m) == m.notes = l.notes /\ m.served = l.served /\ m.deaf = l.deaf
SameFlags(l, m) == m.asked = l.asked /\ m.clearing = l.clearing
SameSync(l, m, r) ==
  /\ m.sync.at = l.sync.at /\ (Syncing(l) => m.sync.timestamp = l.sync.timestamp)
  /\ r \in m.sync.previous <=> r \in l.sync.previous
  /\ r \in m.sync.stale <=> r \in l.sync.stale
  /\ r \in m.sync.todo <=> r \in l.sync.todo
  /\ r \in m.sync.current <=> r \in l.sync.current

USE DEF SameUpdates, SameRouter, SameServer, SameFlags, SameSync, Syncing

LEMMA UpdateFields == ASSUME NEW u \in Updates
  PROVE /\ u.timestamp \in Nat /\ u.priority \in {RPC, SYNC} /\ u.action \in {"update", "delete"}
        /\ u.router \in 0..MaxVersion
BY DEF Updates

LEMMA LineFields ==
  ASSUME NEW r, NEW l, Shaped(l, r)
  PROVE  /\ \A u \in InLine(l) : u \in Updates /\ u.timestamp \in Nat /\ u.timestamp <= l.clock /\ Formed(u)
                                 /\ u.priority \in {RPC, SYNC} /\ u.action \in {"update", "delete"}
         /\ \A x \in l.work : /\ x \in Works /\ x # Idle /\ x.at \in {"fetch", "process", "remove"}
                              /\ x.update \in Updates /\ x.router \in 0..MaxVersion
                              /\ x.update.timestamp \in Nat /\ x.update.timestamp <= l.clock
                              /\ l.stamp < x.update.timestamp /\ FormedWork(x)
                              /\ x.update.priority \in {RPC, SYNC} /\ x.update.action \in {"update", "delete"}
         /\ \A x, y \in l.work : x = y
         /\ l.stamp \in Nat /\ l.clock \in Nat /\ l.stamp <= l.clock
         /\ Syncing(l) => l.sync.timestamp \in Nat /\ l.sync.timestamp <= l.clock
<1>1. Range(l.backlog) \subseteq Updates /\ Typed(l)
  BY DEF Shaped, Typed, Range
<1>2. \A u \in InLine(l) : u \in Updates
  BY <1>1 DEF Typed, InLine
<1>3. \A x \in l.work : x \in Works /\ x # Idle
  BY <1>1 DEF Typed
<1>4. \A u \in InLine(l) : Formed(u) /\ u.timestamp <= l.clock
  BY DEF Shaped
<1>5. \A x \in l.work : FormedWork(x) /\ x.update.timestamp <= l.clock /\ l.stamp < x.update.timestamp
  BY DEF Shaped
<1>6. \A x \in l.work : x.at \in {"fetch", "process", "remove"} /\ x.update \in Updates /\ x.router \in 0..MaxVersion
  BY <1>3, WorksType
<1>7. \A x \in l.work : x.update.timestamp \in Nat /\ x.update.priority \in {RPC, SYNC} /\ x.update.action \in {"update", "delete"}
  BY <1>6, UpdateFields
<1>8. \A u \in InLine(l) : u.timestamp \in Nat /\ u.priority \in {RPC, SYNC} /\ u.action \in {"update", "delete"}
  BY <1>2, UpdateFields
<1>9. /\ \A x, y \in l.work : x = y
      /\ l.stamp \in Nat /\ l.clock \in Nat /\ l.stamp <= l.clock
      /\ Syncing(l) => l.sync.timestamp \in Nat /\ l.sync.timestamp <= l.clock
  BY DEF Shaped, Typed
<1> QED BY <1>2, <1>3, <1>4, <1>5, <1>6, <1>7, <1>8, <1>9

(* Time goes by, and other routers are worked on. *)
LEMMA ClockPasses ==
  ASSUME NEW r, NEW l, NEW m, LineInv(l, r), SameUpdates(l, m), SameRouter(l, m), SameServer(l, m),
         SameFlags(l, m), SameSync(l, m, r), m.clock \in Nat, m.clock >= l.clock
  PROVE  LineInv(m, r)
<1>1. InLine(m) = InLine(l) /\ Shaped(l, r)
  BY DEF InLine, LineInv
<1>2. Shaped(m, r)
  <2>1. Typed(m)
    BY <1>1 DEF Shaped, Typed
  <2>2. \A u \in InLine(m) : Formed(u) /\ u.timestamp <= m.clock
    BY <1>1, LineFields
  <2>3. \A x \in m.work : FormedWork(x) /\ x.update.timestamp <= m.clock /\ m.stamp < x.update.timestamp
    BY <1>1, LineFields
  <2> QED BY <1>1, <2>1, <2>2, <2>3, LineFields DEF Shaped
<1>3. Ordered(m) /\ Distinct(m)
  BY <1>1 DEF LineInv, Ordered, Distinct
<1>4. DeletesOutrun(m)
  BY <1>1 DEF LineInv, DeletesOutrun, Later, Alive
<1>5. DataOutrun(m)
  BY <1>1 DEF LineInv, DataOutrun, Redone, Right, GoodWork, Demanded
<1>6. Caught(m, r) /\ CurrentInLine(m, r)
  BY <1>1 DEF LineInv, Caught, CurrentInLine, Synced, Redone, Right, GoodWork, Later
<1>7. Kept(m, r) /\ Repaired(m)
  BY <1>1 DEF LineInv, Kept, Repaired, Shown, Goal, Coming, Right, GoodWork, Remnant
<1>8. Accounted(m, r)
  BY <1>1 DEF LineInv, Accounted
<1> QED BY <1>2, <1>3, <1>4, <1>5, <1>6, <1>7, <1>8 DEF LineInv

-----------------------------------------------------------------------------
(* The server. *)

(* A notification is on its way. *)
LEMMA ServerTells ==
  ASSUME NEW r, NEW l, NEW m, LineInv(l, r), SameUpdates(l, m), SameRouter(l, m), SameFlags(l, m),
         SameSync(l, m, r), m.clock = l.clock, m.deaf = l.deaf, m.notes # <<>>, m.served \in 0..MaxVersion
  PROVE  LineInv(m, r)
<1>1. InLine(m) = InLine(l)
  BY DEF InLine
<1>2. Shaped(m, r)
  BY <1>1 DEF LineInv, Shaped, Typed
<1>3. Ordered(m) /\ Distinct(m)
  BY <1>1 DEF LineInv, Ordered, Distinct
<1>4. DeletesOutrun(m) /\ DataOutrun(m)
  BY DEF DeletesOutrun, DataOutrun, Later, Redone
<1>5. Caught(m, r)
  BY DEF Caught, Later, Redone
<1>6. CurrentInLine(m, r)
  BY <1>1 DEF LineInv, CurrentInLine
<1>7. Kept(m, r) /\ Repaired(m) /\ Accounted(m, r)
  BY DEF Kept, Repaired, Accounted, Coming
<1> QED BY <1>2, <1>3, <1>4, <1>5, <1>6, <1>7 DEF LineInv

(* A router changes, and the agent, who is taken for dead, is not told. *)
LEMMA ServerIsSilent ==
  ASSUME NEW r, NEW l, NEW m, LineInv(l, r), SameUpdates(l, m), SameRouter(l, m), SameFlags(l, m),
         SameSync(l, m, r), m.clock = l.clock, m.notes = l.notes, m.served \in 0..MaxVersion,
         m.deaf # 0, l.served # 0, m.served # 0
  PROVE  LineInv(m, r)
<1>1. InLine(m) = InLine(l)
  BY DEF InLine
<1>2. Shaped(m, r)
  BY <1>1 DEF LineInv, Shaped, Typed
<1>3. Ordered(m) /\ Distinct(m)
  BY <1>1 DEF LineInv, Ordered, Distinct
<1>4. DeletesOutrun(m) /\ DataOutrun(m)
  BY <1>1 DEF LineInv, DeletesOutrun, DataOutrun, Later, Alive, Demanded
<1>5. Caught(m, r) /\ CurrentInLine(m, r)
  BY <1>1 DEF LineInv, Caught, Synced, Later, CurrentInLine
<1>6. Kept(m, r) /\ Repaired(m)
  BY DEF Kept, Repaired
<1>7. Accounted(m, r)
  BY <1>1 DEF LineInv, Accounted
<1> QED BY <1>2, <1>3, <1>4, <1>5, <1>6, <1>7 DEF LineInv

(* A synchronisation is asked for when the agent is back. *)
LEMMA AgentIsBack ==
  ASSUME NEW r, NEW l, NEW m, LineInv(l, r), SameUpdates(l, m), SameRouter(l, m),
         SameSync(l, m, r), m.clock = l.clock, m.notes = l.notes, m.served = l.served,
         m.clearing = l.clearing, l.sync.at \in {"off", "sweep"}, m.asked = 1
  PROVE  LineInv(m, r)
<1>1. InLine(m) = InLine(l)
  BY DEF InLine
<1>2. Shaped(m, r)
  BY <1>1 DEF LineInv, Shaped, Typed
<1>3. Ordered(m) /\ Distinct(m)
  BY <1>1 DEF LineInv, Ordered, Distinct
<1>4. DeletesOutrun(m) /\ DataOutrun(m)
  BY <1>1 DEF LineInv, DeletesOutrun, DataOutrun, Later, Alive, Demanded, Redone, Right, GoodWork
<1>5. Caught(m, r) /\ CurrentInLine(m, r)
  BY DEF Caught, Synced, CurrentInLine
<1>6. Kept(m, r) /\ Repaired(m)
  BY <1>1 DEF LineInv, Kept, Repaired, Shown, Goal, Coming, Right, GoodWork, Remnant
<1>7. Accounted(m, r)
  BY <1>1 DEF LineInv, Accounted
<1> QED BY <1>2, <1>3, <1>4, <1>5, <1>6, <1>7 DEF LineInv

(* The agent is switched on or off when nothing of it is in line. *)
LEMMA AgentSwitched ==
  ASSUME NEW r, NEW l, NEW m, LineInv(l, r), SameUpdates(l, m), SameRouter(l, m),
         SameSync(l, m, r), m.clock = l.clock, m.notes = l.notes, m.served \in 0..MaxVersion,
         m.clearing = l.clearing, l.sync.at \in {"off", "sweep"}, m.asked = 1, l.work = {}, InLine(l) = {}
  PROVE  LineInv(m, r)
<1>1. InLine(m) = {}
  BY DEF InLine
<1>2. Shaped(m, r)
  BY <1>1 DEF LineInv, Shaped, Typed
<1>3. Ordered(m) /\ Distinct(m)
  BY <1>1 DEF LineInv, Ordered, Distinct, InLine, Range
<1>4. DeletesOutrun(m) /\ DataOutrun(m)
  BY <1>1 DEF DeletesOutrun, DataOutrun
<1>5. Caught(m, r) /\ CurrentInLine(m, r) /\ Repaired(m)
  BY DEF Caught, Synced, CurrentInLine, Repaired
<1>6. Kept(m, r)
  BY <1>1, <1>2 DEF LineInv, Kept, Shown, Goal, Coming, Remnant, Accounted, Shaped, Typed
<1>7. Accounted(m, r)
  BY <1>1 DEF LineInv, Accounted
<1> QED BY <1>2, <1>3, <1>4, <1>5, <1>6, <1>7 DEF LineInv

-----------------------------------------------------------------------------
(* Updates join and leave the line. *)

LEMMA UpdateReceived ==
  ASSUME NEW r, NEW l, NEW m, NEW u \in Updates, LineInv(l, r), SameRouter(l, m), SameFlags(l, m), SameSync(l, m, r),
         m.served = l.served, m.deaf = l.deaf, m.clock \in Nat, m.clock > l.clock,
         m.queue = l.queue \cup {u}, m.backlog = l.backlog, m.work = l.work,
         IsFetch(u), u.timestamp = m.clock
  PROVE  LineInv(m, r)
<1>1. InLine(m) = InLine(l) \cup {u} /\ Shaped(l, r)
  BY DEF InLine, LineInv
<1>2. Shaped(m, r)
  <2>1. Typed(m)
    BY <1>1 DEF Shaped, Typed
  <2>2. \A v \in InLine(m) : Formed(v) /\ v.timestamp <= m.clock
    BY <1>1, LineFields DEF Formed, IsFetch
  <2>3. \A x \in m.work : FormedWork(x) /\ x.update.timestamp <= m.clock /\ m.stamp < x.update.timestamp
    BY <1>1, LineFields
  <2> QED BY <1>1, <2>1, <2>2, <2>3, LineFields DEF Shaped
<1>3. \A v \in InLine(l) : v.timestamp < u.timestamp
  BY <1>1, LineFields
<1>4. \A x \in l.work : x.update.timestamp < u.timestamp
  BY <1>1, LineFields
<1>5. Syncing(l) => l.sync.timestamp < u.timestamp /\ l.sync.timestamp \in Nat
  BY <1>1, LineFields
<1>6. l.stamp < u.timestamp
  BY <1>1, LineFields
<1>7. Ordered(m)
  <2>1. \A i \in DOMAIN l.backlog : l.backlog[i].timestamp < u.timestamp
    BY <1>3 DEF InLine, Range
  <2>2. \A i \in DOMAIN l.backlog : Precedes(l.backlog[i], u)
    BY <2>1 DEF Precedes
  <2>3. \A x \in l.work : Precedes(x.update, u)
    BY <1>4 DEF Precedes
  <2> QED BY <2>2, <2>3 DEF LineInv, Ordered
<1>8. Distinct(m)
  <2>1. \A v \in InLine(l) : v.timestamp # u.timestamp
    BY <1>1, <1>3, LineFields
  <2>2. \A x \in l.work : x.update.timestamp # u.timestamp
    BY <1>1, <1>4, LineFields
  <2>3. Syncing(l) => u.timestamp # l.sync.timestamp
    BY <1>1, <1>5
  <2> QED BY <1>1, <2>1, <2>2, <2>3 DEF LineInv, Distinct
<1>9. ASSUME NEW t, t < u.timestamp PROVE Later(m, t)
  BY <1>1, <1>9 DEF Later
<1>10. ASSUME NEW t, t < u.timestamp PROVE Redone(m, t)
  BY <1>1, <1>10 DEF Redone, Right, IsFetch, IsDelete
<1>11. DeletesOutrun(m)
  BY <1>1, <1>3, <1>4, <1>9 DEF DeletesOutrun, IsFetch, IsDelete
<1>12. DataOutrun(m)
  BY <1>1, <1>3, <1>4, <1>10 DEF DataOutrun, IsFetch
<1>13. Caught(m, r)
  <2>1. Syncing(l) => l.sync.timestamp - 1 < u.timestamp
    BY <1>1, <1>5
  <2> QED BY <2>1, <1>5, <1>9, <1>10 DEF Caught, Synced
<1>14. CurrentInLine(m, r)
  BY <1>1 DEF LineInv, CurrentInLine
<1>15. Coming(m)
  BY <1>1, <1>6 DEF Coming, Right, IsFetch, IsDelete
<1>16. Kept(m, r) /\ Repaired(m)
  BY <1>15 DEF Kept, Repaired
<1>17. Accounted(m, r)
  BY <1>1, <1>6 DEF Accounted
<1> QED BY <1>2, <1>7, <1>8, <1>11, <1>12, <1>13, <1>14, <1>16, <1>17 DEF LineInv

(* Unless more is on its way, the server does not want the router here. *)
LEMMA DeleteReceived ==
  ASSUME NEW r, NEW l, NEW m, NEW u \in Updates, LineInv(l, r), SameRouter(l, m), SameFlags(l, m), SameSync(l, m, r),
         m.served = l.served, m.deaf = l.deaf, m.clock \in Nat, m.clock > l.clock,
         m.queue = l.queue \cup {u}, m.backlog = l.backlog, m.work = l.work,
         IsDelete(u), u.router = 0, u.timestamp = m.clock, m.notes # <<>> \/ m.served = 0
  PROVE  LineInv(m, r)
<1>1. InLine(m) = InLine(l) \cup {u} /\ Shaped(l, r)
  BY DEF InLine, LineInv
<1>2. Shaped(m, r)
  <2>1. Typed(m)
    BY <1>1 DEF Shaped, Typed
  <2>2. \A v \in InLine(m) : Formed(v) /\ v.timestamp <= m.clock
    BY <1>1, LineFields DEF Formed
  <2>3. \A x \in m.work : FormedWork(x) /\ x.update.timestamp <= m.clock /\ m.stamp < x.update.timestamp
    BY <1>1, LineFields
  <2> QED BY <1>1, <2>1, <2>2, <2>3, LineFields DEF Shaped
<1>3. \A v \in InLine(l) : v.timestamp < u.timestamp /\ v.timestamp # u.timestamp
  BY <1>1, LineFields
<1>4. \A x \in l.work : x.update.timestamp < u.timestamp
  BY <1>1, LineFields
<1>5. ~IsFetch(u)
  BY DEF IsFetch, IsDelete
<1>6. l.stamp < u.timestamp
  BY <1>1, LineFields
<1>7. Ordered(m)
  BY <1>5 DEF LineInv, Ordered
<1>8. Distinct(m)
  BY <1>1, <1>3, <1>5 DEF LineInv, Distinct
<1>9. DeletesOutrun(m)
  BY DEF DeletesOutrun, Later
<1>10. ASSUME NEW t, t < u.timestamp PROVE Redone(m, t)
  BY <1>1, <1>10 DEF Redone, Right
<1>11. DataOutrun(m)
  BY <1>1, <1>3, <1>4, <1>10 DEF DataOutrun
<1>12. Caught(m, r)
  <2>1. CASE m.notes # <<>>
    BY <2>1 DEF Caught, Redone, Later
  <2>2. CASE m.served = 0
    BY <2>2 DEF Caught
  <2> QED BY <2>1, <2>2
<1>13. CurrentInLine(m, r)
  BY <1>1 DEF LineInv, CurrentInLine
<1>14. Coming(m)
  BY <1>1, <1>6 DEF Coming, Right
<1>15. Kept(m, r) /\ Repaired(m)
  BY <1>14 DEF Kept, Repaired
<1>16. Accounted(m, r)
  BY <1>1, <1>6 DEF Accounted
<1> QED BY <1>2, <1>7, <1>8, <1>9, <1>11, <1>12, <1>13, <1>15, <1>16 DEF LineInv

(* The first of the queue joins the backlog. *)
LEMMA UpdateTakenOver ==
  ASSUME NEW r, NEW l, NEW m, NEW u \in l.queue, LineInv(l, r), SameRouter(l, m), SameServer(l, m),
         SameFlags(l, m), SameSync(l, m, r), m.clock = l.clock, m.work = l.work,
         \A v \in l.queue : ~Before(v, u),
         m.queue \subseteq l.queue, l.queue \ {u} \subseteq m.queue, m.backlog = Append(l.backlog, u)
  PROVE  LineInv(m, r)
<1>1. Shaped(l, r) /\ l.backlog \in Seq(Updates) /\ u \in Updates
  BY DEF LineInv, Shaped, Typed
<1>2. /\ DOMAIN m.backlog = DOMAIN l.backlog \cup {Len(l.backlog) + 1} /\ Len(l.backlog) \in Nat
      /\ \A i \in DOMAIN l.backlog : m.backlog[i] = l.backlog[i]
      /\ m.backlog[Len(l.backlog) + 1] = u /\ DOMAIN l.backlog = 1..Len(l.backlog)
      /\ m.backlog \in Seq(Updates)
  BY <1>1
<1>3. InLine(m) = InLine(l)
  <2>1. Range(m.backlog) = Range(l.backlog) \cup {u}
    BY <1>2 DEF Range
  <2> QED BY <2>1 DEF InLine
<1>4. Shaped(m, r)
  BY <1>1, <1>2, <1>3 DEF Shaped, Typed
<1>5. Ordered(m)
  <2>1. ASSUME NEW h \in m.queue, IsFetch(h) PROVE Precedes(u, h)
    <3>1. ~Before(h, u) /\ h \in InLine(l) /\ u \in InLine(l)
      BY <2>1 DEF InLine
    <3>2. h.priority \in {RPC, SYNC} /\ u.priority \in {RPC, SYNC} /\ h.timestamp \in Nat /\ u.timestamp \in Nat
      BY <1>1, <3>1, LineFields
    <3>3. u.timestamp <= h.timestamp \/ (u.priority = RPC /\ h.priority = SYNC)
      BY <3>1, <3>2 DEF Before, RPC, SYNC
    <3>4. IsFetch(u) \/ u.timestamp # h.timestamp
      BY <2>1, <3>1 DEF LineInv, Distinct
    <3> QED BY <3>2, <3>3, <3>4 DEF Precedes
  <2>2. ASSUME NEW h \in m.queue, IsFetch(h), NEW i \in DOMAIN m.backlog PROVE Precedes(m.backlog[i], h)
    BY <1>2, <2>1, <2>2 DEF LineInv, Ordered
  <2>3. ASSUME NEW h \in m.queue, IsFetch(h), NEW x \in m.work PROVE Precedes(x.update, h)
    BY <2>3 DEF LineInv, Ordered
  <2>4. ASSUME NEW j \in DOMAIN m.backlog, IsFetch(m.backlog[j])
        PROVE /\ \A i \in 1..(j - 1) : Precedes(m.backlog[i], m.backlog[j])
              /\ \A x \in m.work : Precedes(x.update, m.backlog[j])
    <3>1. CASE j \in DOMAIN l.backlog
      <4>1. \A i \in 1..(j - 1) : m.backlog[i] = l.backlog[i]
        BY <1>2, <3>1
      <4> QED BY <1>2, <2>4, <3>1, <4>1 DEF LineInv, Ordered
    <3>2. CASE j = Len(l.backlog) + 1
      <4>1. \A i \in 1..(j - 1) : m.backlog[i] = l.backlog[i] /\ i \in DOMAIN l.backlog
        BY <1>2, <3>2
      <4> QED BY <1>2, <2>4, <3>2, <4>1 DEF LineInv, Ordered
    <3> QED BY <1>2, <3>1, <3>2
  <2> QED BY <2>2, <2>3, <2>4 DEF Ordered
<1>6. Distinct(m)
  BY <1>3 DEF LineInv, Distinct
<1>7. DeletesOutrun(m) /\ DataOutrun(m)
  BY <1>3 DEF LineInv, DeletesOutrun, DataOutrun, Later, Alive, Demanded, Redone, Right, GoodWork
<1>8. Caught(m, r) /\ CurrentInLine(m, r)
  BY <1>3 DEF LineInv, Caught, CurrentInLine, Synced, Redone, Right, GoodWork, Later
<1>9. Kept(m, r) /\ Repaired(m)
  BY <1>3 DEF LineInv, Kept, Repaired, Shown, Goal, Coming, Right, GoodWork, Remnant
<1>10. Accounted(m, r)
  BY <1>3 DEF LineInv, Accounted
<1> QED BY <1>4, <1>5, <1>6, <1>7, <1>8, <1>9, <1>10 DEF LineInv

(* The backlog is done with when all of it is old. *)
LEMMA BacklogIsOld ==
  ASSUME NEW r, NEW l, NEW m, LineInv(l, r), SameRouter(l, m), SameServer(l, m),
         SameFlags(l, m), SameSync(l, m, r), m.clock = l.clock, m.queue = l.queue,
         l.work = {}, m.work = {}, m.backlog = <<>>,
         \A i \in DOMAIN l.backlog : ~Fresh(l.backlog[i], l.stamp)
  PROVE  LineInv(m, r)
<1>1. Shaped(l, r) /\ InLine(m) = m.queue
  BY DEF LineInv, InLine, Range
<1>2. /\ InLine(m) \subseteq InLine(l)
      /\ \A u \in InLine(l) : u \in InLine(m) \/ u.timestamp <= l.stamp
  <2>1. \A u \in Range(l.backlog) : ~(l.stamp < u.timestamp)
    BY DEF Range, Fresh
  <2> QED BY <1>1, <2>1, LineFields DEF InLine
<1>3. l.stamp \in Nat /\ (Syncing(l) => l.sync.timestamp \in Nat)
  BY <1>1, LineFields
<1>4. Shaped(m, r)
  <2>1. Typed(m)
    BY <1>1 DEF Shaped, Typed
  <2> QED BY <1>1, <1>2, <2>1 DEF Shaped
<1>5. Ordered(m) /\ Distinct(m)
  BY <1>2 DEF LineInv, Ordered, Distinct
<1>6. ASSUME NEW t \in Int, t >= l.stamp, Later(l, t) PROVE Later(m, t)
  BY <1>1, <1>2, <1>6, LineFields DEF Later
<1>7. ASSUME NEW t \in Int, t >= l.stamp, Redone(l, t) PROVE Redone(m, t)
  BY <1>1, <1>2, <1>7, LineFields DEF Redone, Right
<1>8. \A h \in InLine(l) : Alive(l, h) => h \in InLine(m) /\ Alive(m, h)
  BY <1>1, <1>2, LineFields DEF Alive
<1>9. DeletesOutrun(m)
  <2> SUFFICES ASSUME m.served # 0, NEW d \in InLine(m), IsDelete(d), d.timestamp > m.stamp
               PROVE  \/ Later(m, d.timestamp)
                      \/ d.priority = SYNC /\ \E h \in InLine(m) : IsFetch(h) /\ Alive(m, h)
    BY DEF DeletesOutrun
  <2>1. \/ Later(l, d.timestamp)
        \/ d.priority = SYNC /\ \E h \in InLine(l) : IsFetch(h) /\ Alive(l, h)
    BY <1>2 DEF LineInv, DeletesOutrun
  <2>2. d.timestamp \in Int /\ d.timestamp >= l.stamp
    BY <1>1, <1>2, LineFields
  <2> QED BY <1>6, <1>8, <2>1, <2>2
<1>10. DataOutrun(m)
  <2> SUFFICES ASSUME NEW u \in InLine(m), u.router \notin {0, m.served}, u.timestamp > m.stamp, Demanded(m, u.timestamp)
               PROVE  Redone(m, u.timestamp)
    BY DEF DataOutrun
  <2>1. Redone(l, u.timestamp)
    BY <1>2 DEF LineInv, DataOutrun, Demanded
  <2>2. u.timestamp \in Int /\ u.timestamp >= l.stamp
    BY <1>1, <1>2, LineFields
  <2> QED BY <1>7, <2>1, <2>2
<1>11. Caught(m, r)
  <2> SUFFICES ASSUME Synced(m, r), m.served # 0, m.stamp < m.sync.timestamp
               PROVE  /\ m.deaf = 0 => Redone(m, m.sync.timestamp - 1)
                      /\ r \notin m.sync.current => Later(m, m.sync.timestamp)
    BY DEF Caught
  <2>1. /\ l.deaf = 0 => Redone(l, l.sync.timestamp - 1)
        /\ r \notin l.sync.current => Later(l, l.sync.timestamp)
        /\ m.sync.timestamp = l.sync.timestamp
    BY DEF LineInv, Caught, Synced
  <2>2. l.sync.timestamp \in Int /\ l.sync.timestamp - 1 \in Int /\ l.sync.timestamp - 1 >= l.stamp
        /\ l.sync.timestamp >= l.stamp
    BY <1>3, <2>1 DEF Synced
  <2> QED BY <1>6, <1>7, <2>1, <2>2
<1>12. CurrentInLine(m, r)
  <2> SUFFICES ASSUME l.sync.at = "chunk", r \in l.sync.current, l.stamp < l.sync.timestamp
               PROVE  \E u \in InLine(m) : u.timestamp >= l.sync.timestamp
    BY <1>3 DEF CurrentInLine
  <2>1. PICK u \in InLine(l) : u.timestamp >= l.sync.timestamp
    BY <1>3 DEF LineInv, CurrentInLine
  <2> QED BY <1>1, <1>2, <2>1, LineFields
<1>13. Coming(l) => Coming(m)
  BY <1>1, <1>2, LineFields DEF Coming, Right
<1>14. Kept(m, r) /\ Repaired(m)
  BY <1>13 DEF LineInv, Kept, Repaired, Shown, Goal, Remnant
<1>15. Accounted(m, r)
  BY <1>1, <1>2, LineFields DEF LineInv, Accounted
<1> QED BY <1>4, <1>5, <1>9, <1>10, <1>11, <1>12, <1>14, <1>15 DEF LineInv

LEMMA RestOfSeq == ASSUME NEW S, NEW s \in Seq(S), NEW i \in 1..Len(s), NEW t, t = SubSeq(s, i + 1, Len(s))
  PROVE /\ t \in Seq(S)
        /\ Len(t) = Len(s) - i /\ DOMAIN t = 1..(Len(s) - i)
        /\ \A j \in 1..(Len(s) - i) : t[j] = s[i + j] /\ i + j \in DOMAIN s
<1> DEFINE n == Len(s)
<1>1. /\ i \in Int /\ i >= 1 /\ i <= n /\ n \in Int /\ DOMAIN s = 1..n
      /\ \A j \in (i + 1)..n : s[j] \in S
  OBVIOUS
<1>2. /\ t \in Seq(S)
      /\ Len(t) = IF i + 1 <= n THEN n - (i + 1) + 1 ELSE 0
      /\ \A j \in 1..(n - (i + 1) + 1) : t[j] = s[i + 1 + j - 1]
  BY <1>1, SubSeqProperties
<1> HIDE DEF n
<1>3. n - (i + 1) + 1 = n - i
  BY <1>1
<1>4. Len(t) = n - i
  BY <1>1, <1>2, <1>3
<1>5. DOMAIN t = 1..(n - i)
  BY <1>2, <1>4
<1>6. ASSUME NEW j \in 1..(n - i) PROVE t[j] = s[i + j] /\ i + j \in DOMAIN s
  <2>1. j \in 1..(n - (i + 1) + 1) /\ i + j \in 1..n /\ j \in Int
    BY <1>1, <1>3
  <2>2. i + 1 + j - 1 = i + j
    BY <1>1, <2>1
  <2>3. t[j] = s[i + 1 + j - 1]
    BY <1>2, <2>1
  <2> QED BY <1>1, <2>1, <2>2, <2>3
<1> QED BY <1>2, <1>4, <1>5, <1>6 DEF n

Rest(s, i) == SubSeq(s, i + 1, Len(s))

(* The thread turns to the first update that is not old; for a fetch, at the time of now. *)
LEMMA WorkBegins ==
  ASSUME NEW r, NEW l, NEW m, LineInv(l, r), SameRouter(l, m), SameServer(l, m),
         SameFlags(l, m), SameSync(l, m, r), m.clock \in Nat, m.clock >= l.clock, m.queue = l.queue,
         l.work = {}, NEW i \in DOMAIN l.backlog, Fresh(l.backlog[i], l.stamp),
         \A j \in 1..(i - 1) : ~Fresh(l.backlog[j], l.stamp),
         m.backlog = Rest(l.backlog, i),
         NEW x \in Works, x # Idle, m.work = {x}, NEW u, u = l.backlog[i],
         x.at = Stage(u), x.router = u.router,
         x.update.action = u.action, x.update.router = u.router, x.update.priority = u.priority,
         \/ IsFetch(u) /\ x.update.timestamp = m.clock /\ m.clock > l.clock
         \/ ~IsFetch(u) /\ x.update = u
  PROVE  LineInv(m, r)
<1>1. Shaped(l, r) /\ l.backlog \in Seq(Updates)
  BY DEF LineInv, Shaped, Typed
<1> DEFINE n == Len(l.backlog)
<1>2. /\ i \in 1..n /\ n \in Nat /\ DOMAIN l.backlog = 1..n /\ i \in Int
      /\ \A j \in 1..n : l.backlog[j] \in Updates
  BY <1>1
<1>3. /\ m.backlog \in Seq(Updates)
      /\ DOMAIN m.backlog = 1..(n - i)
      /\ \A j \in 1..(n - i) : m.backlog[j] = l.backlog[i + j] /\ i + j \in DOMAIN l.backlog
  <2>1. PICK b, t : b = l.backlog /\ t = m.backlog
    OBVIOUS
  <2>2. b \in Seq(Updates) /\ i \in 1..Len(b) /\ t = SubSeq(b, i + 1, Len(b))
    BY <1>1, <1>2, <2>1 DEF Rest
  <2>3. /\ t \in Seq(Updates)
        /\ DOMAIN t = 1..(Len(b) - i)
        /\ \A j \in 1..(Len(b) - i) : t[j] = b[i + j] /\ i + j \in DOMAIN b
    BY ONLY <2>2, RestOfSeq
  <2> QED BY <2>1, <2>3
<1> HIDE DEF n
<1>4. u \in InLine(l) /\ l.stamp < u.timestamp
  BY <1>2 DEF InLine, Range, Fresh
<1>5. /\ l.stamp \in Nat /\ l.clock \in Nat /\ l.stamp <= l.clock
      /\ Syncing(l) => l.sync.timestamp \in Nat /\ l.sync.timestamp <= l.clock
      /\ \A v \in InLine(l) : v \in Updates /\ v.timestamp \in Nat /\ v.timestamp <= l.clock /\ Formed(v)
                              /\ v.priority \in {RPC, SYNC} /\ v.action \in {"update", "delete"}
  BY <1>1, LineFields
<1>6. InLine(m) \subseteq InLine(l)
  BY <1>3 DEF InLine, Range
<1>7. \A v \in InLine(l) : v.timestamp > l.stamp => v \in InLine(m) \/ v = u
  <2> SUFFICES ASSUME NEW v \in InLine(l), v.timestamp > l.stamp, v \notin l.queue, v # u PROVE v \in Range(m.backlog)
    BY DEF InLine
  <2>1. PICK j \in 1..n : v = l.backlog[j]
    BY <1>2 DEF InLine, Range
  <2>2. j > i
    <3>1. j # i
      BY <2>1
    <3>2. j < i => j \in 1..(i - 1)
      BY <1>2
    <3>3. ~(j < i)
      BY <2>1, <3>2 DEF Fresh
    <3> QED BY <1>2, <3>1, <3>3
  <2>3. j - i \in 1..(n - i) /\ i + (j - i) = j
    BY <1>2, <2>2
  <2> QED BY <1>3, <2>1, <2>3 DEF Range
<1>8. /\ x.update.timestamp \in Nat /\ x.update.timestamp >= u.timestamp /\ x.update.timestamp <= m.clock
      /\ x.update \in Updates
  BY <1>4, <1>5, WorksType
<1>9. /\ IsFetch(x.update) <=> IsFetch(u)
      /\ IsDelete(x.update) <=> IsDelete(u)
  BY DEF IsFetch, IsDelete
<1>10. FormedWork(x)
  BY <1>4, <1>5 DEF FormedWork, Formed, IsFetch, IsDelete, Stage
<1>11. Shaped(m, r)
  <2>1. Typed(m)
    BY <1>1, <1>3 DEF Shaped, Typed
  <2>2. \A v \in InLine(m) : Formed(v) /\ v.timestamp <= m.clock
    BY <1>5, <1>6
  <2>3. m.stamp < x.update.timestamp /\ m.stamp <= m.clock
    BY <1>4, <1>5, <1>8
  <2>4. Syncing(m) => m.sync.timestamp <= m.clock
    BY <1>5
  <2> QED BY <1>1, <1>8, <1>10, <2>1, <2>2, <2>3, <2>4 DEF Shaped
<1>12. ASSUME NEW v \in InLine(l), IsFetch(v) PROVE IsFetch(u) \/ Precedes(u, v) \/ v.timestamp <= l.stamp
  <2>1. CASE v \in l.queue
    BY <1>2, <1>12, <2>1 DEF LineInv, Ordered
  <2>2. CASE v \in Range(l.backlog)
    <3>1. PICK j \in 1..n : v = l.backlog[j]
      BY <1>2, <2>2 DEF Range
    <3>2. CASE j < i
      <4>1. j \in 1..(i - 1)
        BY <1>2, <3>2
      <4>2. ~(l.stamp < v.timestamp)
        BY <3>1, <4>1 DEF Fresh
      <4> QED BY <1>5, <4>2
    <3>3. CASE j = i
      BY <1>12, <3>1, <3>3
    <3>4. CASE j > i
      <4>1. i \in 1..(j - 1)
        BY <1>2, <3>4
      <4> QED BY <1>2, <1>12, <3>1, <4>1 DEF LineInv, Ordered
    <3> QED BY <1>2, <3>2, <3>3, <3>4
  <2> QED BY <2>1, <2>2 DEF InLine
<1>13. Ordered(m)
  <2>1. ASSUME NEW h \in m.queue, IsFetch(h)
        PROVE (\A j \in DOMAIN m.backlog : Precedes(m.backlog[j], h)) /\ Precedes(x.update, h)
    <3>1. \A j \in DOMAIN l.backlog : Precedes(l.backlog[j], h)
      BY <2>1 DEF LineInv, Ordered
    <3>2. \A j \in DOMAIN m.backlog : Precedes(m.backlog[j], h)
      BY <1>3, <3>1
    <3>3. Precedes(x.update, h)
      BY <1>2, <3>1 DEF Precedes, IsFetch
    <3> QED BY <3>2, <3>3
  <2>2. ASSUME NEW j \in DOMAIN m.backlog, IsFetch(m.backlog[j])
        PROVE /\ \A k \in 1..(j - 1) : Precedes(m.backlog[k], m.backlog[j])
              /\ Precedes(x.update, m.backlog[j])
    <3>1. j \in 1..(n - i) /\ m.backlog[j] = l.backlog[i + j] /\ i + j \in DOMAIN l.backlog
      BY <1>3, <2>2
    <3>2. \A k \in 1..(i + j - 1) : Precedes(l.backlog[k], m.backlog[j])
      <4>1. i \in Int /\ j \in Int
        BY <1>2, <3>1
      <4>2. PICK q \in Int : q = i + j
        BY <4>1
      <4>3. IsFetch(l.backlog[q]) /\ q \in DOMAIN l.backlog /\ Ordered(l) /\ m.backlog[j] = l.backlog[q]
        BY <2>2, <3>1, <4>2 DEF LineInv
      <4>4. \A k \in 1..(q - 1) : Precedes(l.backlog[k], m.backlog[j])
        BY ONLY <4>3 DEF Ordered
      <4> QED BY ONLY <4>1, <4>2, <4>4
    <3>3. ASSUME NEW k \in 1..(j - 1) PROVE m.backlog[k] = l.backlog[i + k] /\ i + k \in 1..(i + j - 1)
      <4>1. j \in Int /\ k \in Int /\ j <= n - i /\ 1 <= k /\ k <= j - 1
        BY <1>2, <3>1
      <4>2. k \in 1..(n - i) /\ i + k \in 1..(i + j - 1)
        BY <1>2, <4>1
      <4> QED BY <1>3, <4>2
    <3>4. i \in 1..(i + j - 1)
      BY <1>2, <3>1
    <3>5. Precedes(u, m.backlog[j])
      BY <3>2, <3>4
    <3>6. Precedes(x.update, m.backlog[j])
      BY <3>5 DEF Precedes, IsFetch
    <3> QED BY <3>2, <3>3, <3>6
  <2> QED BY <2>1, <2>2 DEF Ordered
<1>14. Distinct(m)
  BY <1>4, <1>6, <1>9 DEF LineInv, Distinct
<1>15. ASSUME NEW t \in Int, t >= l.stamp, Later(l, t) PROVE Later(m, t)
  <2>1. CASE l.notes # <<>>
    BY <2>1 DEF Later
  <2>2. CASE \E h \in InLine(l) : IsFetch(h) /\ h.timestamp > t
    <3>1. PICK h \in InLine(l) : IsFetch(h) /\ h.timestamp > t
      BY <2>2
    <3>2. h \in InLine(m) \/ h = u
      BY <1>5, <1>7, <1>15, <3>1
    <3>3. h = u => IsFetch(x.update) /\ x.update.timestamp > t
      BY <1>5, <1>8, <1>9, <1>15, <3>1
    <3> QED BY <3>1, <3>2, <3>3 DEF Later
  <2> QED BY <1>15, <2>1, <2>2 DEF Later
<1>16. Right(u, l) => GoodWork(x, m)
  BY <1>4, <1>5 DEF Right, GoodWork, Formed, Stage, IsDelete
<1>17. ASSUME NEW t \in Int, t >= l.stamp, Redone(l, t) PROVE Redone(m, t)
  <2>1. CASE l.notes # <<>>
    BY <2>1 DEF Redone
  <2>2. CASE \E g \in InLine(l) : Right(g, l) /\ g.timestamp > t
    <3>1. PICK g \in InLine(l) : Right(g, l) /\ g.timestamp > t
      BY <2>2
    <3>2. g \in InLine(m) \/ g = u
      BY <1>5, <1>7, <1>17, <3>1
    <3>3. g = u => GoodWork(x, m) /\ x.update.timestamp > t
      BY <1>5, <1>8, <1>16, <1>17, <3>1
    <3>4. Right(g, m)
      BY <3>1 DEF Right
    <3> QED BY <3>1, <3>2, <3>3, <3>4 DEF Redone
  <2> QED BY <1>17, <2>1, <2>2 DEF Redone
<1>18. Coming(l) => Coming(m)
  <2>1. ASSUME NEW g \in InLine(l), Right(g, l), g.timestamp > l.stamp PROVE Coming(m)
    <3>1. g \in InLine(m) \/ g = u
      BY <1>7, <2>1
    <3>2. Right(g, m)
      BY <2>1 DEF Right
    <3> QED BY <1>16, <2>1, <3>1, <3>2 DEF Coming
  <2> QED BY <2>1 DEF Coming
<1>19. DeletesOutrun(m)
  <2>1. ASSUME m.served # 0, NEW d \in InLine(m), IsDelete(d), d.timestamp > m.stamp
        PROVE  \/ Later(m, d.timestamp)
               \/ d.priority = SYNC /\ \E h \in InLine(m) : IsFetch(h) /\ Alive(m, h)
    <3>1. \/ Later(l, d.timestamp)
          \/ d.priority = SYNC /\ \E h \in InLine(l) : IsFetch(h) /\ Alive(l, h)
      BY <1>6, <2>1 DEF LineInv, DeletesOutrun
    <3>2. d.timestamp \in Int /\ d.timestamp >= l.stamp /\ d.timestamp <= l.clock
      BY <1>5, <1>6, <2>1
    <3>3. CASE Later(l, d.timestamp)
      BY <1>15, <3>2, <3>3
    <3>4. CASE IsFetch(u)
      <4>1. x.update.timestamp > d.timestamp
        BY <1>5, <3>2, <3>4
      <4> QED BY <1>9, <3>4, <4>1 DEF Later
    <3>5. CASE ~IsFetch(u) /\ d.priority = SYNC /\ \E h \in InLine(l) : IsFetch(h) /\ Alive(l, h)
      <4>1. PICK h \in InLine(l) : IsFetch(h) /\ Alive(l, h)
        BY <3>5
      <4>2. h \in InLine(m) /\ Alive(m, h)
        BY <1>7, <1>9, <3>5, <4>1 DEF Alive
      <4> QED BY <3>5, <4>1, <4>2
    <3> QED BY <3>1, <3>3, <3>4, <3>5
  <2>2. ASSUME m.served # 0, IsDelete(x.update) PROVE Later(m, x.update.timestamp)
    <3>1. ~IsFetch(u) /\ x.update = u /\ IsDelete(u)
      BY <1>9, <2>2 DEF IsFetch, IsDelete
    <3>2. u.timestamp \in Int /\ u.timestamp >= l.stamp
      BY <1>4, <1>5
    <3>3. \/ Later(l, u.timestamp)
          \/ u.priority = SYNC /\ \E h \in InLine(l) : IsFetch(h) /\ Alive(l, h)
      BY <1>4, <2>2, <3>1 DEF LineInv, DeletesOutrun
    <3>4. CASE Later(l, u.timestamp)
      BY <1>15, <3>1, <3>2, <3>4
    <3>5. CASE u.priority = SYNC /\ \E h \in InLine(l) : IsFetch(h) /\ Alive(l, h)
      <4>1. PICK h \in InLine(l) : IsFetch(h) /\ Alive(l, h)
        BY <3>5
      <4>2. h \in InLine(m) /\ h.timestamp > l.stamp
        BY <1>7, <3>1, <4>1 DEF Alive
      <4>3. Precedes(u, h)
        BY <1>5, <1>12, <3>1, <4>1, <4>2
      <4>4. u.timestamp < h.timestamp
        BY <3>1, <3>5, <4>3 DEF Precedes, RPC, SYNC
      <4> QED BY <3>1, <4>1, <4>2, <4>4 DEF Later
    <3> QED BY <3>3, <3>4, <3>5
  <2> QED BY <2>1, <2>2 DEF DeletesOutrun
<1>20. DataOutrun(m)
  <2>1. ASSUME NEW v \in InLine(m), v.router \notin {0, m.served}, v.timestamp > m.stamp, Demanded(m, v.timestamp)
        PROVE  Redone(m, v.timestamp)
    <3>1. Redone(l, v.timestamp)
      BY <1>6, <2>1 DEF LineInv, DataOutrun, Demanded
    <3> QED BY <1>5, <1>6, <1>17, <2>1, <3>1
  <2>2. ASSUME ~IsDelete(x.update), ~GoodWork(x, m), Demanded(m, x.update.timestamp)
        PROVE  Redone(m, x.update.timestamp)
    <3>1. ~IsFetch(u) /\ x.update = u
      BY <2>2 DEF GoodWork, IsFetch, Stage
    <3>2. u.router \notin {0, l.served}
      BY <1>4, <1>5, <2>2, <3>1 DEF GoodWork, IsFetch, IsDelete
    <3>3. Redone(l, u.timestamp)
      BY <1>4, <2>2, <3>1, <3>2 DEF LineInv, DataOutrun, Demanded
    <3> QED BY <1>4, <1>5, <1>17, <3>1, <3>3
  <2> QED BY <2>1, <2>2 DEF DataOutrun
<1>21. Caught(m, r)
  <2> SUFFICES ASSUME Synced(m, r), m.served # 0, m.stamp < m.sync.timestamp
               PROVE  /\ m.deaf = 0 => Redone(m, m.sync.timestamp - 1)
                      /\ r \notin m.sync.current => Later(m, m.sync.timestamp)
    BY DEF Caught
  <2>1. /\ l.deaf = 0 => Redone(l, l.sync.timestamp - 1)
        /\ r \notin l.sync.current => Later(l, l.sync.timestamp)
        /\ m.sync.timestamp = l.sync.timestamp
    BY DEF LineInv, Caught, Synced
  <2>2. l.sync.timestamp \in Int /\ l.sync.timestamp - 1 \in Int /\ l.sync.timestamp - 1 >= l.stamp
        /\ l.sync.timestamp >= l.stamp
    BY <1>5, <2>1 DEF Synced
  <2> QED BY <1>15, <1>17, <2>1, <2>2
<1>22. CurrentInLine(m, r)
  <2> SUFFICES ASSUME l.sync.at = "chunk", r \in l.sync.current, ~(l.stamp >= l.sync.timestamp)
               PROVE  (\E v \in InLine(m) : v.timestamp >= l.sync.timestamp) \/ x.update.timestamp >= l.sync.timestamp
    BY DEF CurrentInLine
  <2>1. PICK v \in InLine(l) : v.timestamp >= l.sync.timestamp
    BY DEF LineInv, CurrentInLine
  <2>2. v.timestamp > l.stamp
    BY <1>5, <2>1
  <2>3. v \in InLine(m) \/ v = u
    BY <1>7, <2>2
  <2>4. v = u => x.update.timestamp >= l.sync.timestamp
    BY <1>5, <1>8, <2>1
  <2> QED BY <2>1, <2>3, <2>4
<1>23. Kept(m, r) /\ Repaired(m)
  BY <1>18 DEF LineInv, Kept, Repaired, Shown, Goal, Remnant
<1>24. Accounted(m, r)
  BY DEF LineInv, Accounted
<1> QED BY <1>11, <1>13, <1>14, <1>19, <1>20, <1>21, <1>22, <1>23, <1>24 DEF LineInv

-----------------------------------------------------------------------------
(* A thread is done with an update. *)

LEMMA WorkDone ==
  ASSUME NEW r, NEW l, NEW m, LineInv(l, r), SameServer(l, m), SameFlags(l, m), SameSync(l, m, r),
         m.clock = l.clock, m.queue = l.queue, m.backlog = l.backlog, m.work = {},
         NEW x \in l.work, x.at # "fetch", m.stamp = x.update.timestamp,
         GoodWork(x, l) => Shown(m), r \notin m.known => m.host \in {0, Leftover} \/ m.missed # 0
  PROVE  LineInv(m, r)
<1>1. InLine(m) = InLine(l) /\ Shaped(l, r)
  BY DEF InLine, LineInv
<1>2. /\ l.stamp \in Nat /\ l.clock \in Nat /\ m.stamp \in Nat /\ l.stamp < m.stamp /\ m.stamp <= l.clock
      /\ Syncing(l) => l.sync.timestamp \in Nat /\ l.sync.timestamp <= l.clock
      /\ x.update.action \in {"update", "delete"} /\ x.update.priority \in {RPC, SYNC} /\ FormedWork(x)
      /\ x.at \in {"fetch", "process", "remove"} /\ \A y \in l.work : y = x
  BY <1>1, LineFields
<1>3. \A u \in InLine(l) : u.timestamp \in Nat /\ u.timestamp <= l.clock /\ Formed(u)
  BY <1>1, LineFields
<1>4. Shaped(m, r)
  <2>1. Typed(m)
    BY <1>1, <1>2 DEF Shaped, Typed
  <2> QED BY <1>1, <1>2, <2>1 DEF Shaped
<1>5. Ordered(m) /\ Distinct(m)
  BY <1>1 DEF LineInv, Ordered, Distinct
<1>6. ASSUME NEW t \in Int, t >= m.stamp, Later(l, t) PROVE Later(m, t)
  BY <1>1, <1>2, <1>6 DEF Later
<1>7. ASSUME NEW t \in Int, t >= m.stamp, Redone(l, t) PROVE Redone(m, t)
  <2>1. \A g \in InLine(l) : Right(g, l) => Right(g, m)
    BY DEF Right
  <2> QED BY <1>1, <1>2, <1>7, <2>1 DEF Redone
<1>8. ASSUME NEW t \in Int, t >= m.stamp, Later(l, t) \/ Redone(l, t) PROVE Coming(m)
  <2>1. Later(m, t) \/ Redone(m, t)
    BY <1>6, <1>7, <1>8
  <2>2. \A h \in InLine(m) : IsFetch(h) => Right(h, m)
    BY DEF Right, IsFetch, IsDelete
  <2>3. ASSUME NEW h \in InLine(m), h.timestamp > t PROVE h.timestamp > m.stamp
    BY <1>1, <1>2, <1>3, <1>8, <2>3
  <2> QED BY <2>1, <2>2, <2>3 DEF Coming, Later, Redone
<1>9. \A h \in InLine(l) : h.timestamp > m.stamp => Alive(m, h)
  BY DEF Alive
<1>10. DeletesOutrun(m)
  <2> SUFFICES ASSUME m.served # 0, NEW d \in InLine(m), IsDelete(d), d.timestamp > m.stamp
               PROVE  \/ Later(m, d.timestamp)
                      \/ d.priority = SYNC /\ \E h \in InLine(m) : IsFetch(h) /\ Alive(m, h)
    BY DEF DeletesOutrun
  <2>1. \/ Later(l, d.timestamp)
        \/ d.priority = SYNC /\ \E h \in InLine(l) : IsFetch(h) /\ Alive(l, h)
    BY <1>1, <1>2, <1>3 DEF LineInv, DeletesOutrun
  <2>2. CASE Later(l, d.timestamp)
    BY <1>1, <1>2, <1>3, <1>6, <2>2
  <2>3. CASE d.priority = SYNC /\ \E h \in InLine(l) : IsFetch(h) /\ Alive(l, h)
    <3>1. PICK h \in InLine(l) : IsFetch(h) /\ Alive(l, h)
      BY <2>3
    <3>2. CASE h.timestamp > m.stamp
      BY <1>1, <1>9, <2>3, <3>1, <3>2
    <3>3. CASE ~(h.timestamp > m.stamp)
      <4>1. ~IsFetch(x.update)
        BY <3>1, <3>3 DEF Alive
      <4>2. Precedes(x.update, h)
        BY <3>1 DEF LineInv, Ordered, InLine, Range
      <4>3. x.update.priority = RPC
        BY <1>2, <1>3, <3>3, <4>1, <4>2 DEF Precedes
      <4>4. IsDelete(x.update)
        BY <1>2, <4>1, <4>3 DEF FormedWork, Formed, IsFetch, IsDelete
      <4>5. Later(l, m.stamp)
        BY <4>4 DEF LineInv, DeletesOutrun
      <4>6. Later(m, m.stamp)
        BY <1>2, <1>6, <4>5
      <4>7. CASE m.notes # <<>>
        BY <4>7 DEF Later
      <4>8. CASE \E h2 \in InLine(m) : IsFetch(h2) /\ h2.timestamp > m.stamp
        BY <1>1, <1>9, <2>3, <4>8
      <4> QED BY <4>6, <4>7, <4>8 DEF Later
    <3> QED BY <3>2, <3>3
  <2> QED BY <2>1, <2>2, <2>3
<1>11. DataOutrun(m)
  <2> SUFFICES ASSUME NEW u \in InLine(m), u.router \notin {0, m.served}, u.timestamp > m.stamp, Demanded(m, u.timestamp)
               PROVE  Redone(m, u.timestamp)
    BY DEF DataOutrun
  <2>1. u.timestamp > l.stamp /\ u.timestamp \in Int /\ u.timestamp >= m.stamp
    BY <1>1, <1>2, <1>3
  <2>2. Redone(l, u.timestamp)
    BY <1>1, <2>1 DEF LineInv, DataOutrun, Demanded
  <2> QED BY <1>7, <2>1, <2>2
<1>12. Caught(m, r)
  <2> SUFFICES ASSUME Synced(m, r), m.served # 0, m.stamp < m.sync.timestamp
               PROVE  /\ m.deaf = 0 => Redone(m, m.sync.timestamp - 1)
                      /\ r \notin m.sync.current => Later(m, m.sync.timestamp)
    BY DEF Caught
  <2>1. m.sync.timestamp = l.sync.timestamp /\ l.stamp < l.sync.timestamp /\ l.sync.timestamp \in Nat
    BY <1>2 DEF Synced
  <2>2. /\ l.deaf = 0 => Redone(l, l.sync.timestamp - 1)
        /\ r \notin l.sync.current => Later(l, l.sync.timestamp)
    BY <2>1 DEF LineInv, Caught, Synced
  <2>3. l.sync.timestamp - 1 \in Int /\ l.sync.timestamp - 1 >= m.stamp /\ l.sync.timestamp >= m.stamp
    BY <1>2, <2>1
  <2> QED BY <1>6, <1>7, <2>1, <2>2, <2>3
<1>13. CurrentInLine(m, r)
  BY <1>1, <1>2 DEF LineInv, CurrentInLine
<1>14. \/ Shown(m) \/ Coming(m)
       \/ ~IsDelete(x.update) /\ ~Demanded(l, m.stamp)
  <2>1. CASE GoodWork(x, l)
    BY <2>1
  <2>2. CASE ~GoodWork(x, l) /\ IsDelete(x.update)
    <3>1. l.served # 0
      BY <1>2, <2>2 DEF FormedWork, GoodWork
    <3>2. Later(l, m.stamp)
      BY <2>2, <3>1 DEF LineInv, DeletesOutrun
    <3> QED BY <1>2, <1>8, <3>2
  <2>3. CASE ~GoodWork(x, l) /\ ~IsDelete(x.update) /\ Demanded(l, m.stamp)
    <3>1. Redone(l, m.stamp)
      BY <2>3 DEF LineInv, DataOutrun
    <3> QED BY <1>2, <1>8, <3>1
  <2> QED BY <2>1, <2>2, <2>3
<1>15. Kept(m, r) /\ Repaired(m)
  <2>1. l.asked \in {0, 1}
    BY <1>1 DEF Shaped, Typed
  <2> QED BY <1>2, <1>14, <2>1 DEF Kept, Repaired, Demanded
<1>16. Accounted(m, r)
  BY DEF LineInv, Accounted
<1> QED BY <1>4, <1>5, <1>10, <1>11, <1>12, <1>13, <1>15, <1>16 DEF LineInv

(* The update is put back, without data and under a new stamp. *)
LEMMA WorkRepeated ==
  ASSUME NEW r, NEW l, NEW m, NEW u \in Updates, LineInv(l, r), SameServer(l, m), SameFlags(l, m), SameSync(l, m, r),
         m.clock \in Nat, m.clock > l.clock, m.stamp = l.stamp,
         m.queue = l.queue \cup {u}, m.backlog = l.backlog, m.work = {}, NEW x \in l.work,
         u.action = x.update.action, u.router = 0, u.priority = SYNC, u.timestamp = m.clock
  PROVE  LineInv(m, r)
<1>1. InLine(m) = InLine(l) \cup {u} /\ Shaped(l, r)
  BY DEF InLine, LineInv
<1>2. /\ l.stamp \in Nat /\ l.clock \in Nat /\ l.stamp < x.update.timestamp /\ x.update.timestamp \in Nat
      /\ x.update.timestamp <= l.clock /\ x.update.action \in {"update", "delete"} /\ FormedWork(x)
      /\ x.at \in {"fetch", "process", "remove"}
      /\ Syncing(l) => l.sync.timestamp \in Nat /\ l.sync.timestamp <= l.clock
      /\ \A y \in l.work : y = x
  BY <1>1, LineFields
<1>3. \A v \in InLine(l) : v.timestamp \in Nat /\ v.timestamp <= l.clock /\ Formed(v)
  BY <1>1, LineFields
<1>4. Shaped(m, r)
  <2>1. Typed(m)
    BY <1>1, <1>2 DEF Shaped, Typed
  <2>2. \A v \in InLine(m) : Formed(v) /\ v.timestamp <= m.clock
    BY <1>1, <1>3, <1>2 DEF Formed
  <2> QED BY <1>1, <1>2, <2>1, <2>2 DEF Shaped
<1>5. \A v \in InLine(l) : v.timestamp < u.timestamp /\ v.timestamp # u.timestamp
  BY <1>2, <1>3
<1>6. x.update.timestamp < u.timestamp /\ m.stamp < u.timestamp /\ (Syncing(l) => l.sync.timestamp < u.timestamp)
  BY <1>2
<1>7. Ordered(m)
  <2>1. \A i \in DOMAIN l.backlog : Precedes(l.backlog[i], u)
    BY <1>5 DEF Precedes, InLine, Range
  <2> QED BY <2>1 DEF LineInv, Ordered
<1>8. Distinct(m)
  <2>1. Syncing(l) => u.timestamp # l.sync.timestamp
    BY <1>2, <1>6
  <2> QED BY <1>1, <1>5, <2>1 DEF LineInv, Distinct
<1>9. ~IsDelete(u) => IsFetch(u)
  BY <1>2 DEF IsDelete, IsFetch
<1>10. IsFetch(x.update) => IsFetch(u)
  BY DEF IsFetch
<1>11. GoodWork(x, l) => Right(u, m)
  BY <1>2, <1>9 DEF GoodWork, Right, FormedWork, IsFetch, IsDelete
<1>12. ASSUME NEW t, t < u.timestamp, Later(l, t) PROVE Later(m, t)
  BY <1>1, <1>2, <1>10, <1>12 DEF Later
<1>13. ASSUME NEW t, t < u.timestamp, Redone(l, t) PROVE Redone(m, t)
  <2>1. \A g \in InLine(l) : Right(g, l) => Right(g, m)
    BY DEF Right
  <2> QED BY <1>1, <1>2, <1>11, <1>13, <2>1 DEF Redone
<1>14. DeletesOutrun(m)
  <2> SUFFICES ASSUME m.served # 0, NEW d \in InLine(m), IsDelete(d), d.timestamp > m.stamp
               PROVE  \/ Later(m, d.timestamp)
                      \/ d.priority = SYNC /\ \E h \in InLine(m) : IsFetch(h) /\ Alive(m, h)
    BY DEF DeletesOutrun
  <2>1. CASE d \in InLine(l)
    <3>1. \/ Later(l, d.timestamp)
          \/ d.priority = SYNC /\ \E h \in InLine(l) : IsFetch(h) /\ Alive(l, h)
      BY <2>1 DEF LineInv, DeletesOutrun
    <3>2. \A h \in InLine(l) : Alive(l, h) => Alive(m, h)
      BY DEF Alive
    <3> QED BY <1>1, <1>5, <1>12, <2>1, <3>1, <3>2
  <2>2. CASE d = u
    <3>1. IsDelete(x.update)
      BY <2>2 DEF IsDelete
    <3>2. Later(l, x.update.timestamp)
      BY <3>1 DEF LineInv, DeletesOutrun
    <3>3. CASE l.notes # <<>>
      BY <3>3 DEF Later
    <3>4. CASE \E h \in InLine(l) : IsFetch(h) /\ h.timestamp > x.update.timestamp
      <4>1. PICK h \in InLine(l) : IsFetch(h) /\ h.timestamp > x.update.timestamp
        BY <3>4
      <4>2. h.timestamp > m.stamp
        BY <1>2, <1>3, <4>1
      <4>3. Alive(m, h)
        BY <4>2 DEF Alive
      <4> QED BY <1>1, <2>2, <4>1, <4>3
    <3>5. CASE \E y \in l.work : IsFetch(y.update) /\ y.update.timestamp > x.update.timestamp
      BY <1>2, <3>5
    <3> QED BY <3>2, <3>3, <3>4, <3>5 DEF Later
  <2> QED BY <1>1, <2>1, <2>2
<1>15. DataOutrun(m)
  <2> SUFFICES ASSUME NEW v \in InLine(m), v.router \notin {0, m.served}, v.timestamp > m.stamp, Demanded(m, v.timestamp)
               PROVE  Redone(m, v.timestamp)
    BY DEF DataOutrun
  <2>1. v \in InLine(l)
    BY <1>1
  <2>2. Redone(l, v.timestamp)
    BY <2>1 DEF LineInv, DataOutrun, Demanded
  <2> QED BY <1>5, <1>13, <2>1, <2>2
<1>16. Caught(m, r)
  <2> SUFFICES ASSUME Synced(m, r), m.served # 0, m.stamp < m.sync.timestamp
               PROVE  /\ m.deaf = 0 => Redone(m, m.sync.timestamp - 1)
                      /\ r \notin m.sync.current => Later(m, m.sync.timestamp)
    BY DEF Caught
  <2>1. /\ l.deaf = 0 => Redone(l, l.sync.timestamp - 1)
        /\ r \notin l.sync.current => Later(l, l.sync.timestamp)
        /\ m.sync.timestamp = l.sync.timestamp
    BY DEF LineInv, Caught, Synced
  <2>2. l.sync.timestamp - 1 < u.timestamp /\ l.sync.timestamp < u.timestamp
    BY <1>2, <1>6, <2>1 DEF Synced
  <2> QED BY <1>12, <1>13, <2>1, <2>2
<1>17. CurrentInLine(m, r)
  <2>1. Syncing(l) => u.timestamp >= l.sync.timestamp
    BY <1>2, <1>6
  <2> QED BY <1>1, <2>1 DEF LineInv, CurrentInLine
<1>18. Coming(m)
  <2>1. CASE ~IsDelete(u) \/ m.served = 0
    BY <1>1, <1>6, <1>9, <2>1 DEF Coming, Right, IsFetch
  <2>2. CASE IsDelete(u) /\ m.served # 0
    <3>1. Later(l, x.update.timestamp)
      BY <2>2 DEF LineInv, DeletesOutrun, IsDelete
    <3>2. \A h \in InLine(l) : h.timestamp > x.update.timestamp => h.timestamp > m.stamp
      BY <1>2, <1>3
    <3>3. \A h \in InLine(l) : IsFetch(h) => Right(h, m)
      BY DEF IsFetch, IsDelete, Right
    <3> QED BY <1>1, <1>2, <3>1, <3>2, <3>3 DEF Later, Coming
  <2> QED BY <2>1, <2>2
<1>19. Kept(m, r) /\ Repaired(m)
  BY <1>18 DEF Kept, Repaired
<1>20. Accounted(m, r)
  BY <1>1, <1>6 DEF LineInv, Accounted
<1> QED BY <1>4, <1>7, <1>8, <1>14, <1>15, <1>16, <1>17, <1>19, <1>20 DEF LineInv

(* The server answers a fetch with what it has. *)
LEMMA WorkAnswered ==
  ASSUME NEW r, NEW l, NEW m, LineInv(l, r), SameRouter(l, m), SameServer(l, m), SameFlags(l, m), SameSync(l, m, r),
         m.clock = l.clock, m.queue = l.queue, m.backlog = l.backlog, NEW x \in l.work, x.at = "fetch",
         NEW y \in Works, y # Idle, m.work = {y}, y.update = x.update, y.router = l.served,
         y.at = IF l.served = 0 THEN "remove" ELSE "process"
  PROVE  LineInv(m, r)
<1>1. InLine(m) = InLine(l) /\ Shaped(l, r)
  BY DEF InLine, LineInv
<1>2. FormedWork(x) /\ (\A z \in l.work : z = x) /\ l.served \in 0..MaxVersion
  BY <1>1, LineFields DEF Shaped, Typed
<1>3. IsFetch(x.update) /\ FormedWork(y) /\ GoodWork(y, m)
  BY <1>2 DEF FormedWork, IsFetch, IsDelete, GoodWork
<1>4. Shaped(m, r)
  BY <1>1, <1>2, <1>3 DEF Shaped, Typed
<1>5. Ordered(m) /\ Distinct(m)
  BY <1>1 DEF LineInv, Ordered, Distinct
<1>6. \A t : Later(l, t) => Later(m, t)
  BY <1>1, <1>2 DEF Later
<1>7. \A t : Redone(l, t) => Redone(m, t)
  BY <1>1, <1>2, <1>3 DEF Redone, Right
<1>8. DeletesOutrun(m)
  BY <1>1, <1>2, <1>3, <1>6 DEF LineInv, DeletesOutrun, Alive, IsFetch, IsDelete
<1>9. DataOutrun(m)
  BY <1>1, <1>3, <1>7 DEF LineInv, DataOutrun, Demanded
<1>10. Caught(m, r) /\ CurrentInLine(m, r)
  BY <1>1, <1>2, <1>6, <1>7 DEF LineInv, Caught, CurrentInLine, Synced
<1>11. Coming(m)
  BY <1>3 DEF Coming
<1>12. Kept(m, r) /\ Repaired(m)
  BY <1>11 DEF Kept, Repaired
<1>13. Accounted(m, r)
  BY DEF LineInv, Accounted
<1> QED BY <1>4, <1>5, <1>8, <1>9, <1>10, <1>12, <1>13 DEF LineInv

-----------------------------------------------------------------------------
(* The synchronisation. *)

(* What is of now is not yet in line. *)
LEMMA SyncStarts ==
  ASSUME NEW r, NEW l, NEW m, LineInv(l, r), SameUpdates(l, m), SameRouter(l, m), SameFlags(l, m),
         m.notes = l.notes, m.served = l.served,
         m.clock \in Nat, m.clock > l.clock, l.asked = 1, l.sync.at = "off",
         m.sync.at = "ids", m.sync.timestamp = m.clock, r \notin m.sync.current,
         r \in m.sync.previous <=> r \in l.known,
         r \in m.sync.stale <=> (l.clearing = 1 /\ l.host # 0)
  PROVE  LineInv(m, r)
<1>1. InLine(m) = InLine(l) /\ Shaped(l, r)
  BY DEF InLine, LineInv
<1>2. /\ l.stamp \in Nat /\ l.clock \in Nat /\ l.stamp <= l.clock /\ m.stamp < m.clock
      /\ \A u \in InLine(l) : u.timestamp \in Nat /\ u.timestamp < m.clock /\ u.timestamp # m.clock /\ Formed(u)
      /\ \A x \in l.work : x.update.timestamp \in Nat /\ x.update.timestamp < m.clock /\ FormedWork(x)
                           /\ l.stamp < x.update.timestamp
  BY <1>1, LineFields
<1>3. Shaped(m, r)
  <2>1. Typed(m)
    BY <1>1 DEF Shaped, Typed
  <2> QED BY <1>1, <1>2, <2>1 DEF Shaped
<1>4. Ordered(m) /\ Distinct(m)
  BY <1>1, <1>2 DEF LineInv, Ordered, Distinct
<1>5. DeletesOutrun(m)
  BY <1>1 DEF LineInv, DeletesOutrun, Later, Alive
<1>6. DataOutrun(m)
  <2>1. \A t : Redone(l, t) => Redone(m, t)
    BY <1>1 DEF Redone, Right, GoodWork
  <2>2. \A u \in InLine(l) : Demanded(m, u.timestamp) => Demanded(l, u.timestamp)
    BY <1>2 DEF Demanded
  <2>3. \A x \in l.work : Demanded(m, x.update.timestamp) => Demanded(l, x.update.timestamp)
    BY <1>2 DEF Demanded
  <2> QED BY <1>1, <2>1, <2>2, <2>3 DEF LineInv, DataOutrun, GoodWork
<1>7. Caught(m, r) /\ CurrentInLine(m, r)
  BY DEF Caught, CurrentInLine, Synced
<1>8. Kept(m, r)
  BY <1>1 DEF LineInv, Kept, Shown, Goal, Coming, Right, GoodWork, Remnant
<1>9. Repaired(m)
  BY <1>2 DEF Repaired
<1>10. Accounted(m, r)
  BY <1>1, <1>2 DEF LineInv, Accounted
<1> QED BY <1>3, <1>4, <1>5, <1>6, <1>7, <1>8, <1>9, <1>10 DEF LineInv

(* What was lost before is found when nothing of it is in line. *)
LEMMA SyncStartsAnew ==
  ASSUME NEW r, NEW m, m.queue = {}, m.backlog = <<>>, m.work = {}, m.stamp \in Nat, m.clock \in Nat,
         m.stamp < m.clock, m.served \in 0..MaxVersion, m.asked = 1, m.clearing \in {0, 1},
         m.sync.at = "ids", m.sync.timestamp = m.clock, r \notin m.sync.current,
         r \in m.sync.previous <=> r \in m.known,
         r \in m.sync.stale <=> (m.clearing = 1 /\ m.host # 0),
         r \in m.known \/ m.clearing = 1 \/ m.host \in {0, Leftover}
  PROVE  LineInv(m, r)
<1>1. InLine(m) = {}
  BY DEF InLine, Range
<1>2. Shaped(m, r)
  BY <1>1 DEF Shaped, Typed
<1>3. Ordered(m) /\ Distinct(m) /\ DeletesOutrun(m) /\ DataOutrun(m)
  BY <1>1 DEF Ordered, Distinct, DeletesOutrun, DataOutrun
<1>4. Caught(m, r) /\ CurrentInLine(m, r) /\ Repaired(m)
  BY DEF Caught, CurrentInLine, Synced, Repaired
<1>5. Kept(m, r) /\ Accounted(m, r)
  BY DEF Kept, Remnant, Accounted, Shown, Goal
<1> QED BY <1>2, <1>3, <1>4, <1>5 DEF LineInv

LEMMA SyncReadsIds ==
  ASSUME NEW r, NEW l, NEW m, LineInv(l, r), SameUpdates(l, m), SameRouter(l, m), SameServer(l, m), SameFlags(l, m),
         m.clock = l.clock, l.sync.at = "ids", m.sync.at = "chunk", m.sync.timestamp = l.sync.timestamp,
         r \in m.sync.previous <=> r \in l.sync.previous,
         r \in m.sync.stale <=> r \in l.sync.stale,
         r \in m.sync.current <=> r \in l.sync.current,
         r \in m.sync.todo <=> l.served # 0
  PROVE  LineInv(m, r)
<1>1. InLine(m) = InLine(l) /\ Shaped(l, r)
  BY DEF InLine, LineInv
<1>2. Shaped(m, r)
  BY <1>1 DEF Shaped, Typed
<1>3. Ordered(m) /\ Distinct(m)
  BY <1>1 DEF LineInv, Ordered, Distinct
<1>4. DeletesOutrun(m) /\ DataOutrun(m)
  BY <1>1 DEF LineInv, DeletesOutrun, DataOutrun, Later, Alive, Demanded, Redone, Right, GoodWork
<1>5. Caught(m, r) /\ CurrentInLine(m, r)
  BY <1>1 DEF Caught, CurrentInLine, Synced, Shaped
<1>6. Kept(m, r) /\ Repaired(m)
  BY <1>1 DEF LineInv, Kept, Repaired, Shown, Goal, Coming, Right, GoodWork, Remnant
<1>7. Accounted(m, r)
  BY <1>1 DEF LineInv, Accounted
<1> QED BY <1>2, <1>3, <1>4, <1>5, <1>6, <1>7 DEF LineInv

LEMMA SyncFindsNone ==
  ASSUME NEW r, NEW l, NEW m, LineInv(l, r), SameUpdates(l, m), SameRouter(l, m), SameServer(l, m), SameFlags(l, m),
         m.clock = l.clock, l.sync.at = "chunk", m.sync.at = "chunk", m.sync.timestamp = l.sync.timestamp,
         r \in m.sync.previous <=> r \in l.sync.previous,
         r \in m.sync.stale <=> r \in l.sync.stale,
         r \in m.sync.current <=> r \in l.sync.current,
         l.served = 0
  PROVE  LineInv(m, r)
<1>1. InLine(m) = InLine(l) /\ Shaped(l, r)
  BY DEF InLine, LineInv
<1>2. Shaped(m, r)
  BY <1>1 DEF Shaped, Typed
<1>3. Ordered(m) /\ Distinct(m)
  BY <1>1 DEF LineInv, Ordered, Distinct
<1>4. DeletesOutrun(m) /\ DataOutrun(m)
  BY <1>1 DEF LineInv, DeletesOutrun, DataOutrun, Later, Alive, Demanded, Redone, Right, GoodWork
<1>5. Caught(m, r) /\ CurrentInLine(m, r)
  BY <1>1 DEF LineInv, Caught, CurrentInLine
<1>6. Kept(m, r) /\ Repaired(m)
  BY <1>1 DEF LineInv, Kept, Repaired, Shown, Goal, Coming, Right, GoodWork, Remnant
<1>7. Accounted(m, r)
  BY <1>1 DEF LineInv, Accounted
<1> QED BY <1>2, <1>3, <1>4, <1>5, <1>6, <1>7 DEF LineInv

(* The data of a synchronisation have its stamp. *)
LEMMA SyncFinds ==
  ASSUME NEW r, NEW l, NEW m, NEW u \in Updates, LineInv(l, r),
         SameRouter(l, m), SameServer(l, m), SameFlags(l, m), m.clock = l.clock,
         m.queue = l.queue \cup {u}, m.backlog = l.backlog, m.work = l.work,
         l.sync.at = "chunk", m.sync.at = "chunk", m.sync.timestamp = l.sync.timestamp,
         r \in m.sync.previous <=> r \in l.sync.previous,
         r \in m.sync.stale <=> r \in l.sync.stale,
         r \in m.sync.current, l.served # 0,
         u.action = "update", u.router = l.served, u.priority = SYNC, u.timestamp = l.sync.timestamp
  PROVE  LineInv(m, r)
<1>1. InLine(m) = InLine(l) \cup {u} /\ Shaped(l, r)
  BY DEF InLine, LineInv
<1>2. /\ l.sync.timestamp \in Nat /\ l.sync.timestamp <= l.clock
      /\ ~IsFetch(u) /\ ~IsDelete(u) /\ Right(u, m) /\ Formed(u)
  BY <1>1, LineFields DEF IsFetch, IsDelete, Right, Formed, RPC, SYNC
<1>3. Shaped(m, r)
  <2>1. Typed(m)
    BY <1>1 DEF Shaped, Typed
  <2> QED BY <1>1, <1>2, <2>1 DEF Shaped
<1>4. Ordered(m)
  BY <1>2 DEF LineInv, Ordered
<1>5. Distinct(m)
  BY <1>1, <1>2 DEF LineInv, Distinct
<1>6. \A t : Later(l, t) => Later(m, t)
  BY <1>1 DEF Later
<1>7. \A t : Redone(l, t) => Redone(m, t)
  BY <1>1 DEF Redone, Right, GoodWork
<1>8. DeletesOutrun(m)
  BY <1>1, <1>2, <1>6 DEF LineInv, DeletesOutrun, Alive
<1>9. DataOutrun(m)
  BY <1>1, <1>7 DEF LineInv, DataOutrun, Demanded, GoodWork
<1>10. Caught(m, r)
  <2>1. l.sync.timestamp > l.sync.timestamp - 1
    BY <1>2
  <2> QED BY <1>1, <1>2, <2>1 DEF Caught, Redone
<1>11. CurrentInLine(m, r)
  <2>1. u.timestamp >= m.sync.timestamp
    BY <1>2
  <2> QED BY <1>1, <2>1 DEF CurrentInLine
<1>12. Coming(l) => Coming(m)
  BY <1>1 DEF Coming, Right, GoodWork
<1>13. Kept(m, r) /\ Repaired(m)
  BY <1>12 DEF LineInv, Kept, Repaired, Shown, Goal
<1>14. Accounted(m, r)
  BY <1>1 DEF LineInv, Accounted
<1> QED BY <1>3, <1>4, <1>5, <1>8, <1>9, <1>10, <1>11, <1>13, <1>14 DEF LineInv

(* D holds the delete of a router that has vanished. *)
LEMMA SyncEnds ==
  ASSUME NEW r, NEW l, NEW m, NEW D \in SUBSET Updates, LineInv(l, r),
         SameRouter(l, m), SameServer(l, m), m.clock = l.clock,
         m.queue = l.queue \cup D, m.backlog = l.backlog, m.work = l.work,
         m.asked = 0, m.clearing = 0,
         l.sync.at = "chunk", r \notin l.sync.todo, m.sync.at \in {"off", "sweep"},
         \A d \in D : IsDelete(d) /\ d.router = 0 /\ d.priority = SYNC /\ d.timestamp = l.sync.timestamp,
         D # {} <=> r \in l.sync.previous /\ r \notin l.sync.current,
         (m.sync.at = "sweep" /\ r \in m.sync.stale)
            <=> (r \in l.sync.stale /\ r \notin l.sync.current /\ r \notin l.sync.previous)
  PROVE  LineInv(m, r)
<1>1. InLine(m) = InLine(l) \cup D /\ Shaped(l, r)
  BY DEF InLine, LineInv
<1>2. /\ l.sync.timestamp \in Nat /\ l.sync.timestamp <= l.clock /\ l.stamp \in Nat
      /\ \A d \in D : ~IsFetch(d) /\ Formed(d)
      /\ \A u \in InLine(l) : u.timestamp \in Nat
      /\ \A x \in l.work : x.update.timestamp \in Nat /\ l.stamp < x.update.timestamp
  BY <1>1, LineFields DEF IsFetch, IsDelete, Formed
<1>3. Shaped(m, r)
  <2>1. Typed(m)
    BY <1>1 DEF Shaped, Typed
  <2> QED BY <1>1, <1>2, <2>1 DEF Shaped
<1>4. Ordered(m)
  BY <1>2 DEF LineInv, Ordered
<1>5. Distinct(m)
  BY <1>1, <1>2 DEF LineInv, Distinct
<1>6. \A t : Later(l, t) => Later(m, t)
  BY <1>1 DEF Later
<1>7. \A t : Redone(l, t) => Redone(m, t)
  BY <1>1 DEF Redone, Right, GoodWork
<1>8. ASSUME l.served # 0, l.stamp < l.sync.timestamp
      PROVE  /\ l.deaf = 0 => Redone(l, l.sync.timestamp - 1)
             /\ r \notin l.sync.current => Later(l, l.sync.timestamp)
  BY <1>8 DEF LineInv, Caught, Synced
<1>9. DeletesOutrun(m)
  <2> SUFFICES ASSUME m.served # 0
               PROVE  /\ \A d \in InLine(m) : IsDelete(d) /\ d.timestamp > m.stamp =>
                           \/ Later(m, d.timestamp)
                           \/ d.priority = SYNC /\ \E h \in InLine(m) : IsFetch(h) /\ Alive(m, h)
                      /\ \A x \in m.work : IsDelete(x.update) => Later(m, x.update.timestamp)
    BY DEF DeletesOutrun
  <2>1. ASSUME NEW d \in D, d.timestamp > m.stamp PROVE Later(m, d.timestamp)
    <3>1. d.timestamp = l.sync.timestamp /\ l.stamp < l.sync.timestamp /\ r \notin l.sync.current
      BY <1>2, <2>1
    <3> QED BY <1>6, <1>8, <3>1
  <2> QED BY <1>1, <1>6, <2>1 DEF LineInv, DeletesOutrun, Alive
<1>10. ASSUME NEW t \in Nat, l.stamp < t, Demanded(m, t), ~Demanded(l, t) PROVE Redone(m, t)
  <2>1. l.served # 0 /\ l.deaf = 0 /\ t < l.sync.timestamp
    BY <1>2, <1>10 DEF Demanded
  <2>2. l.stamp < l.sync.timestamp
    BY <1>2, <1>10, <2>1
  <2>3. Redone(l, l.sync.timestamp - 1)
    BY <1>8, <2>1, <2>2
  <2>4. l.sync.timestamp - 1 >= t /\ l.sync.timestamp - 1 \in Int
    BY <1>2, <2>1
  <2>5. \A s \in Nat : s > l.sync.timestamp - 1 => s > t
    BY <1>10, <2>4
  <2>6. Redone(l, t)
    BY <1>2, <2>3, <2>5 DEF Redone
  <2> QED BY <1>7, <2>6
<1>11. DataOutrun(m)
  <2>1. ASSUME NEW u \in InLine(m), u.router \notin {0, m.served}, u.timestamp > m.stamp, Demanded(m, u.timestamp)
        PROVE  Redone(m, u.timestamp)
    <3>1. u \in InLine(l) /\ u.timestamp \in Nat /\ l.stamp < u.timestamp
      BY <1>1, <1>2, <2>1
    <3>2. CASE Demanded(l, u.timestamp)
      BY <1>7, <2>1, <3>1, <3>2 DEF LineInv, DataOutrun
    <3> QED BY <1>10, <2>1, <3>1, <3>2
  <2>2. ASSUME NEW x \in m.work, ~IsDelete(x.update), ~GoodWork(x, m), Demanded(m, x.update.timestamp)
        PROVE  Redone(m, x.update.timestamp)
    <3>1. CASE Demanded(l, x.update.timestamp)
      BY <1>7, <2>2, <3>1 DEF LineInv, DataOutrun, GoodWork
    <3> QED BY <1>2, <1>10, <2>2, <3>1
  <2> QED BY <2>1, <2>2 DEF DataOutrun
<1>12. Caught(m, r) /\ CurrentInLine(m, r) /\ Repaired(m)
  BY DEF Caught, Synced, CurrentInLine, Repaired
<1>13. Coming(l) => Coming(m)
  BY <1>1 DEF Coming, Right, GoodWork
<1>14. Shown(l) => Shown(m)
  BY DEF Shown, Goal
<1>15. Kept(m, r)
  <2>1. CASE l.stamp >= l.sync.timestamp /\ (l.served = 0 \/ l.deaf = 0)
    BY <1>13, <1>14, <2>1 DEF LineInv, Repaired, Kept
  <2>2. CASE l.served = 0 /\ l.stamp < l.sync.timestamp
    <3>1. D # {} => Coming(m)
      BY <1>1, <1>2, <2>2 DEF Coming, Right
    <3>2. Shown(l) \/ Coming(l) \/ Remnant(l, r)
      BY <2>2 DEF LineInv, Kept
    <3> QED BY <1>13, <1>14, <2>2, <3>1, <3>2 DEF Kept, Remnant
  <2>3. CASE l.served # 0 /\ l.deaf = 0 /\ l.stamp < l.sync.timestamp
    <3>1. Redone(l, l.sync.timestamp - 1)
      BY <1>8, <2>3
    <3>2. \A s \in Nat : s > l.sync.timestamp - 1 => s > l.stamp
      BY <1>2, <2>3
    <3>3. Coming(l)
      BY <1>2, <3>1, <3>2 DEF Redone, Coming
    <3> QED BY <1>13, <3>3 DEF Kept
  <2>4. CASE l.served # 0 /\ l.deaf # 0
    BY <2>4 DEF Kept
  <2>5. l.stamp >= l.sync.timestamp \/ l.stamp < l.sync.timestamp
    BY <1>2
  <2> QED BY <2>1, <2>2, <2>3, <2>4, <2>5
<1>16. Accounted(m, r)
  <2> SUFFICES ASSUME r \notin m.known, m.host \notin {0, Leftover}, m.missed = 0, m.notes = <<>>, m.work = {},
                      ~\E u \in InLine(m) : u.timestamp > m.stamp
               PROVE  m.sync.at = "sweep" /\ r \in m.sync.stale
    BY DEF Accounted
  <2>1. r \in l.sync.stale /\ l.stamp < l.sync.timestamp
    BY <1>1 DEF LineInv, Accounted
  <2>2. \A u \in InLine(m) : ~(u.timestamp >= l.sync.timestamp)
    BY <1>1, <1>2, <2>1
  <2>3. r \notin l.sync.current
    BY <1>1, <1>2, <2>1, <2>2 DEF LineInv, CurrentInLine
  <2>4. D = {}
    BY <1>1, <1>2, <2>1
  <2> QED BY <2>1, <2>3, <2>4
<1> QED BY <1>3, <1>4, <1>5, <1>9, <1>11, <1>12, <1>15, <1>16 DEF LineInv

(* Asked for again. *)
LEMMA SyncAborts ==
  ASSUME NEW r, NEW l, NEW m, LineInv(l, r), SameUpdates(l, m), SameRouter(l, m), SameServer(l, m), SameFlags(l, m),
         m.clock = l.clock, Syncing(l), m.sync.at = "off"
  PROVE  LineInv(m, r)
<1>1. InLine(m) = InLine(l) /\ Shaped(l, r)
  BY DEF InLine, LineInv
<1>2. Shaped(m, r)
  BY <1>1 DEF Shaped, Typed
<1>3. Ordered(m) /\ Distinct(m)
  BY <1>1 DEF LineInv, Ordered, Distinct
<1>4. DeletesOutrun(m) /\ DataOutrun(m)
  BY <1>1 DEF LineInv, DeletesOutrun, DataOutrun, Later, Alive, Demanded, Redone, Right, GoodWork
<1>5. Caught(m, r) /\ CurrentInLine(m, r) /\ Repaired(m)
  BY DEF Caught, CurrentInLine, Synced, Repaired
<1>6. Kept(m, r)
  BY <1>1 DEF LineInv, Kept, Shown, Goal, Coming, Right, GoodWork, Remnant, Shaped
<1>7. Accounted(m, r)
  BY <1>1 DEF LineInv, Accounted
<1> QED BY <1>2, <1>3, <1>4, <1>5, <1>6, <1>7 DEF LineInv

LEMMA SyncSweeps ==
  ASSUME NEW r, NEW l, NEW m, LineInv(l, r), SameUpdates(l, m), SameServer(l, m), SameFlags(l, m),
         m.clock = l.clock, m.stamp = l.stamp, m.known = l.known, l.sync.at = "sweep", m.sync.at = "off",
         l.missed # 0 => m.missed # 0,
         IF r \in l.sync.stale THEN m.host \in {0, Leftover} /\ (l.served = 0 \/ m.missed # 0) ELSE m.host = l.host
  PROVE  LineInv(m, r)
<1>1. InLine(m) = InLine(l) /\ Shaped(l, r)
  BY DEF InLine, LineInv
<1>2. Shaped(m, r)
  BY <1>1 DEF Shaped, Typed
<1>3. Ordered(m) /\ Distinct(m)
  BY <1>1 DEF LineInv, Ordered, Distinct
<1>4. DeletesOutrun(m) /\ DataOutrun(m)
  BY <1>1 DEF LineInv, DeletesOutrun, DataOutrun, Later, Alive, Demanded, Redone, Right, GoodWork
<1>5. Caught(m, r) /\ CurrentInLine(m, r) /\ Repaired(m)
  BY DEF Caught, CurrentInLine, Synced, Repaired
<1>6. Coming(l) => Coming(m)
  BY <1>1 DEF Coming, Right, GoodWork
<1>7. r \in l.sync.stale => Shown(m)
  BY DEF Shown, Goal
<1>8. Kept(m, r)
  BY <1>1, <1>6, <1>7 DEF LineInv, Kept, Shown, Goal, Remnant, Shaped
<1>9. Accounted(m, r)
  BY <1>1 DEF LineInv, Accounted, Shaped
<1> QED BY <1>2, <1>3, <1>4, <1>5, <1>8, <1>9 DEF LineInv

(* An agent that starts asks for everything, and clears. *)
LEMMA LineStarts ==
  ASSUME NEW r, NEW m, m.queue = {}, m.backlog = <<>>, m.work = {}, m.stamp = 0, m.clock \in Nat,
         m.served \in 0..MaxVersion, m.sync.at = "off", m.asked = 1, m.clearing = 1
  PROVE  LineInv(m, r)
<1>1. InLine(m) = {}
  BY DEF InLine, Range
<1>2. Shaped(m, r)
  BY <1>1 DEF Shaped, Typed
<1>3. Ordered(m) /\ Distinct(m) /\ DeletesOutrun(m) /\ DataOutrun(m)
  BY <1>1 DEF Ordered, Distinct, DeletesOutrun, DataOutrun
<1>4. Caught(m, r) /\ CurrentInLine(m, r) /\ Repaired(m)
  BY DEF Caught, CurrentInLine, Synced, Repaired
<1>5. Kept(m, r) /\ Accounted(m, r)
  BY DEF Kept, Remnant, Accounted
<1> QED BY <1>2, <1>3, <1>4, <1>5 DEF LineInv

-----------------------------------------------------------------------------
(* What a step does to the line of a router. *)

LEMMA LineIs == ASSUME NEW r
  PROVE /\ Line(r).queue = {u \in BagToSet(queue) : u.id = r} /\ Line(r).backlog = backlog[r]
        /\ Line(r).work = {work[w] : w \in {v \in Workers : Busy(v, r)}}
        /\ Line(r).stamp = stamp[r] /\ Line(r).clock = clock /\ Line(r).host = host[r]
        /\ Line(r).known = known \cap {r} /\ Line(r).notes = notes[r] /\ Line(r).served = Served(r)
        /\ Line(r).sync = sync
        /\ Line(r).deaf = (IF r \in unheard THEN 1 ELSE 0) /\ Line(r).missed = (IF r \in missed THEN 1 ELSE 0)
        /\ Line(r).asked = (IF fullsync THEN 1 ELSE 0) /\ Line(r).clearing = (IF clean THEN 1 ELSE 0)
BY DEF Line

LEMMA LineWillBe == ASSUME NEW r
  PROVE /\ (Line(r)').queue = {u \in BagToSet(queue') : u.id = r} /\ (Line(r)').backlog = backlog'[r]
        /\ (Line(r)').work = {work'[w] : w \in {v \in Workers : Busy(v, r)'}}
        /\ (Line(r)').stamp = stamp'[r] /\ (Line(r)').clock = clock' /\ (Line(r)').host = host'[r]
        /\ (Line(r)').known = known' \cap {r} /\ (Line(r)').notes = notes'[r] /\ (Line(r)').served = Served(r)'
        /\ (Line(r)').sync = sync'
        /\ (Line(r)').deaf = (IF r \in unheard' THEN 1 ELSE 0) /\ (Line(r)').missed = (IF r \in missed' THEN 1 ELSE 0)
        /\ (Line(r)').asked = (IF fullsync' THEN 1 ELSE 0) /\ (Line(r)').clearing = (IF clean' THEN 1 ELSE 0)
BY DEF Line

LEMMA WorkStays ==
  ASSUME NEW r, \A w \in Workers : (Busy(w, r)' <=> Busy(w, r)) /\ (Busy(w, r) => work'[w] = work[w])
  PROVE  (Line(r)').work = Line(r).work
<1>1. ASSUME NEW x PROVE x \in (Line(r)').work <=> \E w \in Workers : Busy(w, r)' /\ x = work'[w]
  BY LineWillBe
<1>2. ASSUME NEW x PROVE x \in Line(r).work <=> \E w \in Workers : Busy(w, r) /\ x = work[w]
  BY LineIs
<1>3. \A x : x \in (Line(r)').work <=> x \in Line(r).work
  BY <1>1, <1>2
<1>4. (Line(r)').work = {work'[w] : w \in {v \in Workers : Busy(v, r)'}}
  BY LineWillBe
<1>5. Line(r).work = {work[w] : w \in {v \in Workers : Busy(v, r)}}
  BY LineIs
<1> QED BY <1>4, <1>5

LEMMA SetsStay == ASSUME NEW r
  PROVE  /\ {u \in BagToSet(queue') : u.id = r} = {u \in BagToSet(queue) : u.id = r}
              => (Line(r)').queue = Line(r).queue
         /\ (r \in known' <=> r \in known) => (Line(r)').known = Line(r).known
<1>1. (Line(r)').queue = {u \in BagToSet(queue') : u.id = r} /\ (Line(r)').known = known' \cap {r}
  BY LineWillBe
<1>2. Line(r).queue = {u \in BagToSet(queue) : u.id = r} /\ Line(r).known = known \cap {r}
  BY LineIs
<1>3. \A x : x \in (Line(r)').known <=> x = r /\ x \in known'
  BY <1>1
<1>4. \A x : x \in Line(r).known <=> x = r /\ x \in known
  BY <1>2
<1>5. (r \in known' <=> r \in known) => (Line(r)').known = Line(r).known
  BY <1>1, <1>2, <1>3, <1>4
<1>6. ASSUME NEW x PROVE x \in (Line(r)').queue <=> x \in {u \in BagToSet(queue') : u.id = r}
  BY <1>1
<1>7. ASSUME NEW x PROVE x \in Line(r).queue <=> x \in {u \in BagToSet(queue) : u.id = r}
  BY <1>2
<1>8. {u \in BagToSet(queue') : u.id = r} = {u \in BagToSet(queue) : u.id = r}
              => (Line(r)').queue = Line(r).queue
  BY <1>1, <1>2, <1>6, <1>7
<1> QED BY <1>5, <1>8

(* A step about other routers only lets time go by. *)
LEMMA Untouched ==
  ASSUME NoLoss, NEW r \in Routers \ lost, clock' \in Nat, clock' >= clock,
         {u \in BagToSet(queue') : u.id = r} = {u \in BagToSet(queue) : u.id = r}, backlog'[r] = backlog[r],
         \A w \in Workers : (Busy(w, r)' <=> Busy(w, r)) /\ (Busy(w, r) => work'[w] = work[w]),
         stamp'[r] = stamp[r], host'[r] = host[r], r \in known' <=> r \in known,
         notes'[r] = notes[r], Served(r)' = Served(r), UNCHANGED <<fullsync, clean>>,
         r \in unheard' <=> r \in unheard, r \in missed' <=> r \in missed,
         SameSync(Line(r), Line(r)', r)
  PROVE  LineInv(Line(r)', r)
<1>1. LineInv(Line(r), r)
  BY DEF NoLoss
<1>2. SameUpdates(Line(r), Line(r)')
  <2>1. (Line(r)').work = Line(r).work
    BY WorkStays
  <2>2. (Line(r)').queue = Line(r).queue
    BY SetsStay
  <2>3. (Line(r)').backlog = Line(r).backlog
    BY LineIs, LineWillBe
  <2> QED BY <2>1, <2>2, <2>3
<1>3. SameRouter(Line(r), Line(r)')
  <2>1. (Line(r)').known = Line(r).known
    BY SetsStay
  <2> QED BY <2>1, LineIs, LineWillBe
<1>4. SameServer(Line(r), Line(r)') /\ SameFlags(Line(r), Line(r)')
  BY LineIs, LineWillBe
<1>5. (Line(r)').clock \in Nat /\ (Line(r)').clock >= Line(r).clock
  BY LineIs, LineWillBe
<1> QED BY <1>1, <1>2, <1>4, <1>5, <1>3, ClockPasses

LEMMA ServerApart ==
  ASSUME NEW r, UNCHANGED <<clock, sync, queues, routers, clean, missed>>
  PROVE  /\ SameUpdates(Line(r), Line(r)') /\ SameRouter(Line(r), Line(r)') /\ SameSync(Line(r), Line(r)', r)
         /\ (Line(r)').clock = Line(r).clock /\ (Line(r)').clearing = Line(r).clearing
<1>1. \A w \in Workers : Busy(w, r)' <=> Busy(w, r)
  BY DEF queues, Busy
<1>2. (Line(r)').work = Line(r).work
  BY <1>1, WorkStays DEF queues
<1>3. queue' = queue /\ backlog' = backlog /\ stamp' = stamp /\ known' = known /\ host' = host
  BY DEF queues, routers
<1>4. (Line(r)').queue = Line(r).queue /\ (Line(r)').known = Line(r).known
  BY <1>3, SetsStay
<1>5. SameUpdates(Line(r), Line(r)') /\ SameRouter(Line(r), Line(r)') /\ SameSync(Line(r), Line(r)', r)
  BY <1>2, <1>3, <1>4, LineIs, LineWillBe
<1>6. (Line(r)').clock = Line(r).clock /\ (Line(r)').clearing = Line(r).clearing
  BY LineIs, LineWillBe
<1> QED BY <1>5, <1>6

-----------------------------------------------------------------------------
(* The steps of the server. *)

LEMMA DatabaseLine ==
  ASSUME IInv, NoLoss, NEW s \in Routers, Edit(s) \/ Withdraw(s) \/ Schedule(s)
  PROVE  NoLoss'
<1> SUFFICES ASSUME NEW r \in Routers \ lost PROVE LineInv(Line(r)', r)
  BY DEF NoLoss, Edit, Withdraw, Schedule, history
<1>1. UNCHANGED <<agent, clock, fullsync, sync, queues, routers, clean, troubles, missed, lost>>
  BY DEF Edit, Withdraw, Schedule, history
<1>2. /\ SameUpdates(Line(r), Line(r)') /\ SameRouter(Line(r), Line(r)') /\ SameSync(Line(r), Line(r)', r)
      /\ (Line(r)').clock = Line(r).clock /\ (Line(r)').clearing = Line(r).clearing
  BY <1>1, ServerApart
<1>3. SameFlags(Line(r), Line(r)') /\ LineInv(Line(r), r)
  BY <1>1, <1>2, LineIs, LineWillBe DEF NoLoss
<1>4. /\ db \in [Routers -> 0..MaxVersion] /\ version \in 1..MaxVersion
      /\ notes \in [Routers -> Seq({"updated", "removed"})] /\ clock \in Nat
      /\ agent \in {"active", "dead", "disabled"}
  BY DEF IInv, TypeOK
<1>5. ASSUME NEW n \in {"updated", "removed"} PROVE Append(notes[s], n) # <<>>
  <2>1. notes[s] \in Seq({"updated", "removed"})
    BY <1>4
  <2>2. Append(notes[s], n) # <<>>
    BY <2>1, AppendProperties
  <2> QED BY <2>2
<1>6. /\ db' \in [Routers -> 0..MaxVersion]
      /\ \A q \in Routers \ {s} : db'[q] = db[q] /\ notes'[q] = notes[q]
  <2>1. CASE Edit(s)
    BY <1>4, <2>1 DEF Edit, Tell
  <2>2. CASE Withdraw(s)
    BY <1>4, <2>2 DEF Withdraw, Tell
  <2>3. CASE Schedule(s)
    BY <1>4, <2>3 DEF Schedule, Tell
  <2> QED BY <2>1, <2>2, <2>3
<1>7. (Line(r)').served \in 0..MaxVersion
  BY <1>1, <1>6, LineWillBe DEF Served
<1>8. ASSUME notes'[r] = notes[r], Served(r)' = Served(r), r \in unheard' <=> r \in unheard
      PROVE  LineInv(Line(r)', r)
  <2>1. SameServer(Line(r), Line(r)')
    BY <1>3, <1>8, LineIs, LineWillBe
  <2>2. (Line(r)').clock \in Nat /\ (Line(r)').clock >= Line(r).clock
    BY <1>2, <1>4, LineIs
  <2> QED BY <1>2, <1>3, <2>1, <2>2, ClockPasses
<1>9. CASE r # s
  <2>1. Served(r)' = Served(r) /\ notes'[r] = notes[r]
    BY <1>1, <1>6, <1>9 DEF Served
  <2>2. r \in unheard' <=> r \in unheard
    BY <1>9 DEF Edit, Withdraw, Schedule, history
  <2> QED BY <1>8, <2>1, <2>2
<1>10. CASE r = s /\ Edit(s)
  <2>1. db'[r] = version' /\ version' # 0 /\ db[r] # 0
    BY <1>4, <1>10 DEF Edit
  <2>2. CASE agent = "active"
    <3>1. (Line(r)').notes # <<>> /\ Line(r).served # 0
      BY <1>4, <1>5, <1>10, <2>1, <2>2, LineIs, LineWillBe DEF Edit, Tell, Served
    <3>2. (Line(r)').deaf = Line(r).deaf
      BY <1>10, <2>2, LineIs, LineWillBe DEF Edit
    <3> QED BY <1>2, <1>3, <1>7, <3>1, <3>2, ServerTells
  <2>3. CASE agent = "dead"
    <3>1. /\ (Line(r)').notes = Line(r).notes /\ (Line(r)').deaf # 0
          /\ Line(r).served # 0 /\ (Line(r)').served # 0
      BY <1>1, <1>10, <2>1, <2>3, LineIs, LineWillBe DEF Edit, Served
    <3> QED BY <1>2, <1>3, <1>7, <3>1, ServerIsSilent
  <2>4. CASE agent = "disabled"
    BY <1>1, <1>8, <1>10, <2>4 DEF Edit, Served
  <2> QED BY <1>4, <2>2, <2>3, <2>4
<1>11. CASE r = s /\ Withdraw(s)
  <2>1. (Line(r)').notes # <<>> /\ (Line(r)').served = 0
    BY <1>4, <1>5, <1>11, LineWillBe DEF Withdraw, Tell, Served
  <2>2. (Line(r)').deaf = Line(r).deaf
    BY <1>11, LineIs, LineWillBe DEF Withdraw, history
  <2> QED BY <1>2, <1>3, <1>7, <2>1, <2>2, ServerTells
<1>12. CASE r = s /\ Schedule(s)
  <2>1. (Line(r)').notes # <<>>
    BY <1>4, <1>5, <1>12, LineWillBe DEF Schedule, Tell
  <2>2. (Line(r)').deaf = Line(r).deaf
    BY <1>12, LineIs, LineWillBe DEF Schedule, history
  <2> QED BY <1>2, <1>3, <1>7, <2>1, <2>2, ServerTells
<1> QED BY <1>9, <1>10, <1>11, <1>12

LEMMA AgentLine ==
  ASSUME IInv, NoLoss, Presume \/ Beat \/ Switch
  PROVE  NoLoss'
<1> SUFFICES ASSUME NEW r \in Routers \ lost' PROVE LineInv(Line(r)', r)
  BY DEF NoLoss
<1>1. UNCHANGED <<db, version, notes, clock, sync, queues, routers, clean, missed>>
  BY DEF Presume, Beat, Switch, history
<1>2. /\ SameUpdates(Line(r), Line(r)') /\ SameRouter(Line(r), Line(r)') /\ SameSync(Line(r), Line(r)', r)
      /\ (Line(r)').clock = Line(r).clock /\ (Line(r)').clearing = Line(r).clearing
      /\ (Line(r)').notes = Line(r).notes
  BY <1>1, ServerApart, LineIs, LineWillBe
<1>3. r \notin lost
  BY DEF Presume, Beat, Switch, history
<1>4. LineInv(Line(r), r)
  BY <1>3 DEF NoLoss
<1>5. (Line(r)').clock \in Nat /\ (Line(r)').clock >= Line(r).clock
  BY <1>2, LineIs DEF IInv, TypeOK
<1>6. ~Reading => Line(r).sync.at \in {"off", "sweep"}
  BY <1>4, LineIs DEF LineInv, Shaped, Typed, Reading
<1>7. CASE Presume
  <2>1. (Line(r)').served = Line(r).served
    BY <1>7, LineIs, LineWillBe DEF Presume, Served
  <2>2. SameFlags(Line(r), Line(r)') /\ SameServer(Line(r), Line(r)')
    BY <1>2, <1>7, <2>1, LineIs, LineWillBe DEF Presume, history
  <2> QED BY <1>2, <1>4, <1>5, <2>2, ClockPasses
<1>8. CASE Beat
  <2>1. (Line(r)').served = Line(r).served
    BY <1>8, LineIs, LineWillBe DEF Beat, Served
  <2>2. CASE fullsync' /\ ~Reading
    <3>1. (Line(r)').asked = 1
      BY <2>2, LineWillBe
    <3> QED BY <1>2, <1>4, <1>6, <2>1, <2>2, <3>1, AgentIsBack
  <2>3. CASE ~(fullsync' /\ ~Reading)
    <3>1. r \notin unheard /\ r \notin unheard'
      BY <1>8, <2>3 DEF Beat
    <3>2. Reading => fullsync
      BY <1>4, LineIs DEF LineInv, Shaped, Reading
    <3>3. fullsync' <=> fullsync
      BY <1>8, <2>3, <3>2 DEF Beat
    <3>4. SameServer(Line(r), Line(r)') /\ SameFlags(Line(r), Line(r)')
      BY <1>2, <2>1, <3>1, <3>3, LineIs, LineWillBe
    <3> QED BY <1>2, <1>4, <1>5, <3>4, ClockPasses
  <2> QED BY <2>2, <2>3
<1>9. CASE Switch
  <2>1. (Line(r)').asked = 1 /\ ~Reading /\ ~InHand(r)
    BY <1>9, LineWillBe DEF Switch
  <2>2. Line(r).queue = {} /\ backlog[r] = <<>>
    BY <2>1, LineIs DEF InHand
  <2>3. Line(r).work = {}
    BY <2>1, LineIs DEF InHand, Busy
  <2>4. InLine(Line(r)) = {}
    BY <2>2, LineIs DEF InLine, Range
  <2>5. (Line(r)').served \in 0..MaxVersion
    BY <1>1, LineWillBe DEF Served, IInv, TypeOK
  <2> QED BY <1>2, <1>4, <1>6, <2>1, <2>3, <2>4, <2>5, AgentSwitched
<1> QED BY <1>7, <1>8, <1>9

-----------------------------------------------------------------------------
(* The steps of notifications and of threads. *)

LEMMA QueueGrows ==
  ASSUME NEW r, NEW U, BagToSet(queue') = BagToSet(queue) \cup U, \A u \in U : u.id = r
  PROVE  (Line(r)').queue = Line(r).queue \cup U
<1>1. (Line(r)').queue = {u \in BagToSet(queue') : u.id = r}
  BY LineWillBe
<1>2. Line(r).queue = {u \in BagToSet(queue) : u.id = r}
  BY LineIs
<1>3. ASSUME NEW x PROVE x \in (Line(r)').queue <=> x \in BagToSet(queue') /\ x.id = r
  BY <1>1
<1>4. ASSUME NEW x PROVE x \in Line(r).queue <=> x \in BagToSet(queue) /\ x.id = r
  BY <1>2
<1>5. \A x : x \in (Line(r)').queue <=> x \in Line(r).queue \cup U
  BY <1>3, <1>4
<1> QED BY <1>1, <1>5

LEMMA TimeGoesBy == ASSUME NEW t \in Nat, NEW u \in After(t) PROVE u \in Nat /\ u > t
BY DEF After

(* Updates of one router only join the queue. *)
LEMMA QueueApart == ASSUME NEW r, NEW U, BagToSet(queue') = BagToSet(queue) \cup U, \A u \in U : u.id # r
  PROVE  {u \in BagToSet(queue') : u.id = r} = {u \in BagToSet(queue) : u.id = r}
OBVIOUS

LEMMA ReceiveLine == ASSUME IInv, Removals, NoLoss, NEW s \in Routers, Receive(s) PROVE NoLoss'
<1> SUFFICES ASSUME NEW r \in Routers \ lost PROVE LineInv(Line(r)', r)
  BY DEF NoLoss, Receive, history
<1> DEFINE action == IF Head(notes[s]) = "removed" THEN "delete" ELSE "update"
<1>1. PICK t \in After(clock) : clock' = t /\ queue' = Put(queue, Update(s, RPC, t, action, 0))
  BY DEF Receive
<1>2. clock \in Nat /\ t \in Nat /\ t > clock
  BY <1>1, TimeGoesBy DEF IInv, TypeOK
<1> DEFINE u == Update(s, RPC, t, action, 0)
<1>3. u \in Updates /\ u.id = s /\ u.action = action /\ u.priority = RPC /\ u.timestamp = t /\ u.router = 0
  BY <1>2, UpdateType DEF Update
<1>4. BagToSet(queue') = BagToSet(queue) \cup {u}
  BY <1>1, <1>3, PutOne DEF IInv, TypeOK, QueueOK
<1>5. UNCHANGED <<db, version, agent, fullsync, sync, master, backlog, work, routers, clean, troubles, history>>
  BY DEF Receive
<1>6. \A w \in Workers : Busy(w, r)' <=> Busy(w, r)
  BY <1>5 DEF Busy
<1>7. Served(r)' = Served(r) /\ SameSync(Line(r), Line(r)', r)
  BY <1>5, LineIs, LineWillBe DEF Served
<1>8. /\ notes[s] \in Seq({"updated", "removed"}) /\ notes[s] # <<>>
      /\ notes' = [notes EXCEPT ![s] = Tail(@)] /\ notes \in [Routers -> Seq({"updated", "removed"})]
  BY DEF Receive, IInv, TypeOK
<1> HIDE DEF u
<1>9. CASE r # s
  <2>1. {v \in BagToSet(queue') : v.id = r} = {v \in BagToSet(queue) : v.id = r}
    BY <1>3, <1>4, <1>9, QueueApart
  <2>2. notes'[r] = notes[r]
    BY <1>8, <1>9
  <2> QED BY <1>1, <1>2, <1>5, <1>6, <1>7, <2>1, <2>2, Untouched DEF routers, history
<1>10. CASE r = s
  <2>1. (Line(r)').queue = Line(r).queue \cup {u}
    BY <1>3, <1>4, <1>10, QueueGrows
  <2>2. (Line(r)').work = Line(r).work
    BY <1>5, <1>6, WorkStays
  <2>3. (Line(r)').known = Line(r).known
    BY <1>5, SetsStay DEF routers
  <2>4. /\ LineInv(Line(r), r) /\ SameRouter(Line(r), Line(r)') /\ SameFlags(Line(r), Line(r)')
        /\ (Line(r)').served = Line(r).served /\ (Line(r)').deaf = Line(r).deaf
        /\ (Line(r)').backlog = Line(r).backlog
        /\ (Line(r)').clock \in Nat /\ (Line(r)').clock > Line(r).clock /\ (Line(r)').clock = t
    BY <1>1, <1>2, <1>5, <1>7, <2>3, LineIs, LineWillBe DEF routers, history, NoLoss
  <2>5. CASE Head(notes[s]) # "removed"
    <3>1. IsFetch(u)
      BY <1>3, <2>5 DEF IsFetch
    <3> QED BY <1>3, <1>7, <2>1, <2>2, <2>4, <3>1, UpdateReceived
  <2>6. CASE Head(notes[s]) = "removed"
    <3>1. IsDelete(u)
      BY <1>3, <2>6 DEF IsDelete
    <3>2. (Line(r)').notes # <<>> \/ (Line(r)').served = 0
      <4> DEFINE rest == Tail(notes[s])
      <4>1. rest = <<>> => Len(notes[s]) = 1
        <5>1. Len(rest) = Len(notes[s]) - 1 /\ Len(notes[s]) \in Nat
          BY <1>8, HeadTailProperties
        <5> HIDE DEF rest
        <5> QED BY <5>1
      <4>2. notes'[r] = rest
        BY <1>8, <1>10
      <4> HIDE DEF rest
      <4>3. (Line(r)').notes = notes'[r] /\ (Line(r)').served = Served(r)'
        BY LineWillBe
      <4>4. (Line(r)').served = Served(r)
        BY <1>7, <4>3
      <4>5. (Line(r)').notes = rest
        BY <4>3, <4>2
      <4>6. ASSUME rest = <<>> PROVE Served(r) = 0
        <5>1. Len(notes[s]) = 1
          BY <4>6, <4>1
        <5>2. Last(notes[s]) = "removed"
          BY <1>8, <2>6, <5>1 DEF Last
        <5> QED BY <1>8, <1>10, <5>2 DEF Removals, Served
      <4> QED BY <4>4, <4>5, <4>6
    <3> QED BY <1>3, <1>7, <2>1, <2>2, <2>4, <3>1, <3>2, DeleteReceived
  <2> QED BY <2>5, <2>6
<1> QED BY <1>9, <1>10

LEMMA WorkChanges ==
  ASSUME NEW r, NEW w \in Workers, work \in [Workers -> Works], NEW x, work' = [work EXCEPT ![w] = x],
         \A v \in Workers \ {w} : ~Busy(v, r)
  PROVE  (Line(r)').work = IF x # Idle /\ x.update.id = r THEN {x} ELSE {}
<1>1. (Line(r)').work = {work'[v] : v \in {v \in Workers : Busy(v, r)'}}
  BY LineWillBe
<1>2. work'[w] = x /\ \A v \in Workers \ {w} : work'[v] = work[v]
  OBVIOUS
<1>3. \A v \in Workers : Busy(v, r)' <=> (v = w /\ x # Idle /\ x.update.id = r)
  BY <1>2 DEF Busy
<1>4. CASE x # Idle /\ x.update.id = r
  <2>1. \A y : y \in (Line(r)').work <=> y = x
    BY <1>1, <1>2, <1>3, <1>4
  <2> QED BY <1>1, <1>4, <2>1
<1>5. CASE ~(x # Idle /\ x.update.id = r)
  <2>1. \A y : y \notin (Line(r)').work
    BY <1>1, <1>3, <1>5
  <2> QED BY <1>1, <1>5, <2>1
<1> QED BY <1>4, <1>5

(* What the thread does when it turns to an update. *)
LEMMA PursueTold ==
  ASSUME NEW w \in Workers, NEW u \in Updates, NEW now \in Nat, Pursue(w, u, now)
  PROVE  \E x \in Works :
           /\ x # Idle /\ work' = [work EXCEPT ![w] = x]
           /\ x.at = Stage(u) /\ x.router = u.router
           /\ x.update \in Updates /\ x.update.id = u.id
           /\ x.update.action = u.action /\ x.update.router = u.router /\ x.update.priority = u.priority
           /\ clock' \in Nat /\ clock' >= now
           /\ \/ IsFetch(u) /\ x.update.timestamp = clock' /\ clock' > now
              \/ ~IsFetch(u) /\ x.update = u
<1>1. IsFetch(u) <=> Stage(u) = "fetch"
  BY DEF IsFetch, Stage, Updates
<1>2. CASE Stage(u) = "fetch"
  <2>1. PICK t \in After(now) :
             /\ clock' = t
             /\ work' = [work EXCEPT ![w] = [at |-> "fetch", router |-> 0,
                                            update |-> [u EXCEPT !.timestamp = t]]]
    BY <1>2 DEF Pursue
  <2> DEFINE y == [u EXCEPT !.timestamp = t]
             x == [at |-> "fetch", router |-> 0, update |-> y]
  <2>2. t \in Nat /\ t > now
    BY <2>1, TimeGoesBy
  <2>3. /\ y \in Updates /\ y.id = u.id /\ y.action = u.action /\ y.router = u.router
        /\ y.priority = u.priority /\ y.timestamp = t
    BY <2>2 DEF Updates
  <2> HIDE DEF y
  <2>4. x \in Works /\ x # Idle /\ x.update = y /\ x.at = "fetch" /\ x.router = 0
    BY <2>3 DEF Works, Idle
  <2> HIDE DEF x
  <2>5. work' = [work EXCEPT ![w] = x]
    BY <2>1 DEF x, y
  <2>6. u.router = 0
    BY <1>1, <1>2 DEF IsFetch
  <2>7. /\ x.at = Stage(u) /\ x.router = u.router
        /\ x.update \in Updates /\ x.update.id = u.id
        /\ x.update.action = u.action /\ x.update.router = u.router /\ x.update.priority = u.priority
        /\ clock' \in Nat /\ clock' >= now
        /\ \/ IsFetch(u) /\ x.update.timestamp = clock' /\ clock' > now
           \/ ~IsFetch(u) /\ x.update = u
    BY <1>1, <1>2, <2>1, <2>2, <2>3, <2>4, <2>6
  <2> QED BY <2>4, <2>5, <2>7, Zenon
<1>3. CASE Stage(u) # "fetch"
  <2> DEFINE x == [at |-> Stage(u), router |-> u.router, update |-> u]
  <2>1. work' = [work EXCEPT ![w] = x] /\ clock' = now
    BY <1>3 DEF Pursue
  <2>2. x \in Works /\ x # Idle /\ x.update = u /\ x.at = Stage(u) /\ x.router = u.router
    BY DEF Works, Idle, Stage, Updates
  <2> HIDE DEF x
  <2>3. /\ x.at = Stage(u) /\ x.router = u.router
        /\ x.update \in Updates /\ x.update.id = u.id
        /\ x.update.action = u.action /\ x.update.router = u.router /\ x.update.priority = u.priority
        /\ clock' \in Nat /\ clock' >= now
        /\ \/ IsFetch(u) /\ x.update.timestamp = clock' /\ clock' > now
           \/ ~IsFetch(u) /\ x.update = u
    BY <1>1, <1>3, <2>1, <2>2
  <2> QED BY <2>1, <2>2, <2>3, Zenon
<1> QED BY <1>2, <1>3

(* A thread that goes on with a router leaves the lines of others alone. *)
LEMMA ProceedApart ==
  ASSUME IInv, NEW w \in Workers, NEW r \in Routers,
         (work[w] = Idle /\ master[r] = None) \/ Busy(w, r),
         NEW pending \in Seq(Updates), \A i \in DOMAIN pending : pending[i].id = r,
         NEW recorded, NEW now \in Nat,
         Proceed(w, r, pending, recorded, now)
  PROVE  /\ clock' \in Nat /\ clock' >= now
         /\ \A s \in Routers \ {r} :
              /\ backlog'[s] = backlog[s]
              /\ \A v \in Workers : (Busy(v, s)' <=> Busy(v, s)) /\ (Busy(v, s) => work'[v] = work[v])
<1>1. work \in [Workers -> Works] /\ backlog \in [Routers -> Seq(Updates)]
  BY DEF IInv, TypeOK
<1>2. \A s \in Routers \ {r} : ~Busy(w, s)
  BY DEF IInv, Owned, MastersWork, WorkersMaster, Busy
<1>3. \E x, b : /\ work' = [work EXCEPT ![w] = x] /\ (x = Idle \/ x.update.id = r)
                /\ backlog' = [backlog EXCEPT ![r] = b]
                /\ clock' \in Nat /\ clock' >= now
  <2>1. CASE /\ \A i \in DOMAIN pending : ~Fresh(pending[i], recorded)
             /\ backlog' = [backlog EXCEPT ![r] = <<>>]
             /\ work' = [work EXCEPT ![w] = Idle]
             /\ clock' = now
    <3>1. clock' \in Nat /\ clock' >= now
      BY <2>1
    <3> QED BY <2>1, <3>1, Zenon
  <2>2. ASSUME NEW i \in DOMAIN pending,
               backlog' = [backlog EXCEPT ![r] = SubSeq(pending, i + 1, Len(pending))],
               Pursue(w, pending[i], now)
        PROVE  \E x, b : /\ work' = [work EXCEPT ![w] = x] /\ (x = Idle \/ x.update.id = r)
                         /\ backlog' = [backlog EXCEPT ![r] = b]
                         /\ clock' \in Nat /\ clock' >= now
    <3>1. pending[i] \in Updates /\ pending[i].id = r
      OBVIOUS
    <3>2. \E x \in Works : /\ work' = [work EXCEPT ![w] = x] /\ x.update.id = r
                           /\ clock' \in Nat /\ clock' >= now
      BY <2>2, <3>1, PursueTold
    <3> DEFINE b == SubSeq(pending, i + 1, Len(pending))
    <3>3. backlog' = [backlog EXCEPT ![r] = b]
      BY <2>2
    <3> HIDE DEF b
    <3> QED BY <3>2, <3>3
  <2> QED BY <2>1, <2>2 DEF Proceed
<1>4. PICK x, b : /\ work' = [work EXCEPT ![w] = x] /\ (x = Idle \/ x.update.id = r)
                  /\ backlog' = [backlog EXCEPT ![r] = b]
                  /\ clock' \in Nat /\ clock' >= now
  BY <1>3
<1> QED BY <1>1, <1>2, <1>4 DEF Busy

(* It goes on with the line k of its router, which has the updates that are pending. *)
LEMMA ProceedLine ==
  ASSUME IInv, NEW w \in Workers, NEW r \in Routers,
         (work[w] = Idle /\ master[r] = None) \/ Busy(w, r),
         NEW pending \in Seq(Updates), \A i \in DOMAIN pending : pending[i].id = r,
         NEW recorded, NEW now \in Nat,
         Proceed(w, r, pending, recorded, now),
         NEW k, LineInv(k, r), k.work = {}, k.backlog = pending, k.stamp = recorded, k.clock = now,
         SameRouter(k, Line(r)'), SameServer(k, Line(r)'), SameFlags(k, Line(r)'), SameSync(k, Line(r)', r),
         (Line(r)').queue = k.queue
  PROVE  LineInv(Line(r)', r)
<1>1. work \in [Workers -> Works] /\ backlog \in [Routers -> Seq(Updates)]
  BY DEF IInv, TypeOK
<1>2. \A v \in Workers \ {w} : ~Busy(v, r)
  BY DEF IInv, Owned, MastersWork, WorkersMaster, Busy
<1>3. (Line(r)').clock = clock' /\ (Line(r)').backlog = backlog'[r]
  BY LineWillBe
<1>4. CASE /\ \A i \in DOMAIN pending : ~Fresh(pending[i], recorded)
           /\ backlog' = [backlog EXCEPT ![r] = <<>>]
           /\ work' = [work EXCEPT ![w] = Idle]
           /\ clock' = now
  <2>1. (Line(r)').work = {}
    BY <1>1, <1>2, <1>4, WorkChanges
  <2>2. (Line(r)').backlog = <<>> /\ (Line(r)').clock = k.clock
    BY <1>1, <1>3, <1>4
  <2>3. \A i \in DOMAIN k.backlog : ~Fresh(k.backlog[i], k.stamp)
    BY <1>4
  <2> QED BY <2>1, <2>2, <2>3, BacklogIsOld
<1>5. ASSUME NEW i \in DOMAIN pending,
             Fresh(pending[i], recorded),
             \A j \in 1..(i - 1) : ~Fresh(pending[j], recorded),
             backlog' = [backlog EXCEPT ![r] = SubSeq(pending, i + 1, Len(pending))],
             Pursue(w, pending[i], now)
      PROVE  LineInv(Line(r)', r)
  <2>1. pending[i] \in Updates /\ pending[i].id = r
    OBVIOUS
  <2> DEFINE u == pending[i]
  <2>2. PICK x \in Works :
           /\ x # Idle /\ work' = [work EXCEPT ![w] = x]
           /\ x.at = Stage(u) /\ x.router = u.router
           /\ x.update \in Updates /\ x.update.id = u.id
           /\ x.update.action = u.action /\ x.update.router = u.router /\ x.update.priority = u.priority
           /\ clock' \in Nat /\ clock' >= now
           /\ \/ IsFetch(u) /\ x.update.timestamp = clock' /\ clock' > now
              \/ ~IsFetch(u) /\ x.update = u
    BY <1>5, <2>1, PursueTold
  <2>3. (Line(r)').work = {x}
    <3>1. work' = [work EXCEPT ![w] = x] /\ x # Idle /\ x.update.id = r
      BY <2>1, <2>2
    <3> QED BY <1>1, <1>2, <3>1, WorkChanges
  <2>4. u = k.backlog[i] /\ i \in DOMAIN k.backlog
    OBVIOUS
  <2>5. Fresh(k.backlog[i], k.stamp) /\ \A j \in 1..(i - 1) : ~Fresh(k.backlog[j], k.stamp)
    BY <1>5
  <2>6. backlog' = [backlog EXCEPT ![r] = Rest(pending, i)]
    BY <1>5 DEF Rest
  <2> HIDE DEF u
  <2>7. (Line(r)').backlog = Rest(k.backlog, i)
    BY <1>1, <1>3, <2>6
  <2>8. (Line(r)').clock \in Nat /\ (Line(r)').clock >= k.clock
    BY <1>3, <2>2
  <2>9. \/ IsFetch(u) /\ x.update.timestamp = (Line(r)').clock /\ (Line(r)').clock > k.clock
        \/ ~IsFetch(u) /\ x.update = u
    BY <1>3, <2>2
  <2>10. (Line(r)').queue = k.queue /\ k.work = {} /\ LineInv(k, r)
    OBVIOUS
  <2>11. /\ x # Idle /\ x.at = Stage(u) /\ x.router = u.router
         /\ x.update.action = u.action /\ x.update.router = u.router /\ x.update.priority = u.priority
    BY <2>2
  <2> QED BY ONLY <2>3, <2>4, <2>5, <2>7, <2>8, <2>9, <2>10, <2>11, WorkBegins,
             SameRouter(k, Line(r)'), SameServer(k, Line(r)'), SameFlags(k, Line(r)'), SameSync(k, Line(r)', r)
<1> QED BY <1>4, <1>5 DEF Proceed

(* The line of a thread that is about to go on. *)
Onward(l, q, b, t, now, h, k, gone) ==
  [queue |-> q, backlog |-> b, work |-> {}, stamp |-> t, clock |-> now, host |-> h, known |-> k,
   notes |-> l.notes, served |-> l.served, deaf |-> l.deaf, missed |-> gone, sync |-> l.sync,
   asked |-> l.asked, clearing |-> l.clearing]

LEMMA OnwardIs == ASSUME NEW l, NEW q, NEW b, NEW t, NEW now, NEW h, NEW k, NEW gone
  PROVE  LET o == Onward(l, q, b, t, now, h, k, gone) IN
         /\ o.queue = q /\ o.backlog = b /\ o.work = {} /\ o.stamp = t /\ o.clock = now /\ o.host = h /\ o.known = k
         /\ o.missed = gone
         /\ SameServer(l, o) /\ SameFlags(l, o) /\ o.sync = l.sync
BY DEF Onward

LEMMA TakeRest == ASSUME NEW q, QueueOK(q), NEW u
  PROVE  BagToSet(q) \ {u} \subseteq BagToSet(q (-) SetToBag({u}))
BY DEF QueueOK, IsABag, BagToSet, SetToBag, (-)

LEMMA TakeLine == ASSUME IInv, NoLoss, NEW w \in Workers, Take(w) PROVE NoLoss'
<1>1. PICK u \in BagToSet(queue) :
        /\ \A v \in BagToSet(queue) : ~Before(v, u)
        /\ queue' = queue (-) SetToBag({u})
        /\ IF master[u.id] = None
           THEN Proceed(w, u.id, <<u>>, stamp[u.id], clock)
           ELSE /\ backlog' = [backlog EXCEPT ![u.id] = Append(@, u)]
                /\ UNCHANGED <<master, work, clock>>
  BY DEF Take
<1>2. work[w] = Idle /\ UNCHANGED <<server, fullsync, sync, routers, clean, troubles, history>>
  BY DEF Take
<1>3. u \in Updates /\ u.id \in Routers /\ QueueOK(queue) /\ clock \in Nat
  BY DEF IInv, TypeOK, QueueOK, Updates
<1>4. BagToSet(queue') \subseteq BagToSet(queue) /\ BagToSet(queue) \ {u} \subseteq BagToSet(queue')
  BY <1>1, <1>3, TakeOne, TakeRest
<1> DEFINE s == u.id
<1>5. /\ <<u>> \in Seq(Updates) /\ \A i \in DOMAIN <<u>> : <<u>>[i].id = s
      /\ master[s] = None => work[w] = Idle /\ master[s] = None
      /\ master[s] = None => Proceed(w, s, <<u>>, stamp[s], clock)
      /\ master[s] # None => backlog' = [backlog EXCEPT ![s] = Append(@, u)] /\ UNCHANGED <<master, work, clock>>
      /\ s \in Routers
  BY <1>1, <1>2, <1>3
<1>6. ASSUME NEW r \in Routers \ lost
      PROVE /\ LineInv(Line(r), r) /\ Served(r)' = Served(r)
            /\ SameServer(Line(r), Line(r)') /\ SameFlags(Line(r), Line(r)') /\ (Line(r)').sync = Line(r).sync
            /\ SameRouter(Line(r), Line(r)')
  <2>1. Served(r)' = Served(r)
    BY <1>2 DEF server, Served
  <2>2. (Line(r)').known = Line(r).known
    BY <1>2, SetsStay DEF routers
  <2> QED BY <1>2, <2>1, <2>2, LineIs, LineWillBe DEF server, routers, history, NoLoss
<1>7. ASSUME NEW r \in Routers \ lost, r # s PROVE LineInv(Line(r)', r)
  <2>1. /\ backlog'[r] = backlog[r] /\ clock' \in Nat /\ clock' >= clock
        /\ \A v \in Workers : (Busy(v, r)' <=> Busy(v, r)) /\ (Busy(v, r) => work'[v] = work[v])
    <3>1. CASE master[s] = None
      BY <1>3, <1>5, <1>7, <3>1, ProceedApart
    <3>2. CASE master[s] # None
      BY <1>3, <1>5, <1>7, <3>2 DEF Busy, IInv, TypeOK
    <3> QED BY <3>1, <3>2
  <2>2. {v \in BagToSet(queue') : v.id = r} = {v \in BagToSet(queue) : v.id = r}
    BY <1>4, <1>7
  <2>3. /\ UNCHANGED <<fullsync, clean>> /\ notes'[r] = notes[r] /\ stamp'[r] = stamp[r]
        /\ host'[r] = host[r] /\ (r \in known' <=> r \in known)
        /\ (r \in unheard' <=> r \in unheard) /\ (r \in missed' <=> r \in missed)
    BY <1>2 DEF server, routers, history
  <2> QED BY <1>6, <1>7, <2>1, <2>2, <2>3, Untouched
<1>8. ASSUME s \notin lost PROVE LineInv(Line(s)', s)
  <2> DEFINE l == Line(s)
             q == (Line(s)').queue
  <2>1. l.queue = {v \in BagToSet(queue) : v.id = s} /\ q = {v \in BagToSet(queue') : v.id = s}
    BY LineIs, LineWillBe
  <2>2. u \in l.queue /\ (\A v \in l.queue : ~Before(v, u)) /\ q \subseteq l.queue /\ l.queue \ {u} \subseteq q
    BY <1>1, <1>4, <2>1
  <2>3. /\ LineInv(l, s) /\ SameServer(l, Line(s)') /\ SameFlags(l, Line(s)') /\ (Line(s)').sync = l.sync
        /\ SameRouter(l, Line(s)') /\ l.backlog = backlog[s] /\ l.clock = clock
    BY <1>3, <1>6, <1>8, LineIs
  <2> HIDE DEF q
  <2>4. CASE master[s] = None
    <3>1. l.work = {}
      BY <1>3, <2>4, LineIs DEF IInv, Owned, WorkersMaster
    <3>2. backlog[s] = <<>> /\ Append(<<>>, u) = <<u>>
      BY <1>3, <2>4 DEF IInv, Owned, BacklogIsOfMaster
    <3> DEFINE o == Onward(l, q, <<u>>, l.stamp, l.clock, l.host, l.known, l.missed)
    <3>3. /\ o.queue = q /\ o.backlog = <<u>> /\ o.work = {} /\ SameRouter(l, o) /\ o.clock = l.clock
          /\ SameServer(l, o) /\ SameFlags(l, o) /\ o.sync = l.sync
      BY OnwardIs
    <3> HIDE DEF o
    <3>4. o.backlog = Append(l.backlog, u)
      BY <2>3, <3>2, <3>3
    <3>5. LineInv(o, s)
      <4> HIDE DEF l
      <4> QED BY <2>2, <2>3, <3>1, <3>3, <3>4, UpdateTakenOver
    <3>6. o.stamp = stamp[s] /\ o.clock = clock
      BY <3>3, LineIs
    <3>7. /\ SameRouter(o, Line(s)') /\ SameServer(o, Line(s)') /\ SameFlags(o, Line(s)') /\ SameSync(o, Line(s)', s)
          /\ (Line(s)').queue = o.queue
      BY <2>3, <3>3 DEF q
    <3> HIDE DEF s
    <3> QED BY <1>3, <1>5, <2>4, <3>3, <3>5, <3>6, <3>7, ProceedLine
  <2>5. CASE master[s] # None
    <3>1. (Line(s)').work = l.work
      BY <1>5, <2>5, WorkStays DEF Busy
    <3>2. (Line(s)').backlog = Append(l.backlog, u) /\ (Line(s)').clock = l.clock
      BY <1>5, <2>3, <2>5, LineWillBe DEF IInv, TypeOK
    <3> HIDE DEF l, s
    <3> QED BY <2>2, <2>3, <3>1, <3>2, UpdateTakenOver DEF q
  <2> QED BY <2>4, <2>5
<1>9. lost' = lost
  BY <1>2 DEF history
<1> QED BY <1>5, <1>7, <1>8, <1>9 DEF NoLoss

(* The line of a thread's own router has nothing but its work. *)
LEMMA WorkOfLine ==
  ASSUME IInv, NEW w \in Workers, work[w].at \in {"fetch", "process", "remove"}, NEW r, r = work[w].update.id
  PROVE  Line(r).work = {work[w]} /\ \A v \in Workers \ {w} : ~Busy(v, r)
<1>1. Busy(w, r) /\ r \in Routers
  BY WorkingType
<1>2. \A v \in Workers : Busy(v, r) <=> v = w
  BY <1>1 DEF IInv, Owned, WorkersMaster
<1>3. Line(r).work = {work[v] : v \in {v \in Workers : Busy(v, r)}}
  BY LineIs
<1>4. \A x : x \in Line(r).work <=> x = work[w]
  BY <1>2, <1>3
<1>5. Line(r).work = {work[w]}
  BY <1>3, <1>4
<1> QED BY <1>2, <1>5

LEMMA DoneLine ==
  ASSUME IInv, NoLoss, NEW w \in Workers, work[w].at \in {"process", "remove"}, Done(w),
         NEW r, r = work[w].update.id,
         host \in [Routers -> Versions \cup {0, Broken, Leftover}], NEW h, host' = [host EXCEPT ![r] = h],
         known' \cup {r} = known \cup {r},
         missed' \cup {r} = missed \cup {r},
         r \notin lost /\ GoodWork(work[w], Line(r)) =>
           h = Goal(Line(r)) \/ (Goal(Line(r)) = 0 /\ h = Leftover) \/ r \in missed',
         r \notin known' => h \in {0, Leftover} \/ r \in missed'
  PROVE  NoLoss'
<1> DEFINE u == work[w].update
           recorded == IF stamp[r] < u.timestamp THEN u.timestamp ELSE stamp[r]
<1>1. /\ u \in Updates /\ r \in Routers /\ Busy(w, r) /\ u.timestamp \in Nat
      /\ backlog[r] \in Seq(Updates) /\ \A i \in DOMAIN backlog[r] : backlog[r][i].id = r
  BY WorkingType
<1>2. stamp \in [Routers -> Nat] /\ clock \in Nat
  BY DEF IInv, TypeOK
<1>3. Line(r).work = {work[w]}
  BY WorkOfLine
<1>4. r \notin lost => LineInv(Line(r), r)
  BY <1>1 DEF NoLoss
<1>5. ASSUME r \notin lost PROVE recorded = u.timestamp
  <2>1. Line(r).stamp < u.timestamp
    BY <1>3, <1>4, <1>5 DEF LineInv, Shaped
  <2> QED BY <1>1, <1>2, <2>1, LineIs
<1>6. stamp' = [stamp EXCEPT ![r] = recorded] /\ Proceed(w, r, backlog[r], recorded, clock)
  BY DEF Done
<1>7. UNCHANGED <<server, fullsync, sync, queue, clean, unheard, lost>>
  BY DEF Done
<1>8. ASSUME NEW s \in Routers
      PROVE /\ Served(s)' = Served(s) /\ SameServer(Line(s), Line(s)') /\ SameFlags(Line(s), Line(s)')
            /\ (Line(s)').sync = Line(s).sync /\ (Line(s)').queue = Line(s).queue
            /\ notes'[s] = notes[s] /\ UNCHANGED <<fullsync, clean>>
  <2>1. Served(s)' = Served(s)
    BY <1>7 DEF server, Served
  <2>2. (Line(s)').queue = Line(s).queue
    BY <1>7, SetsStay
  <2> QED BY <1>7, <2>1, <2>2, LineIs, LineWillBe DEF server
<1> HIDE DEF u, recorded
<1>9. ASSUME NEW s \in Routers \ lost, s # r PROVE LineInv(Line(s)', s)
  <2>1. /\ backlog'[s] = backlog[s] /\ clock' \in Nat /\ clock' >= clock
        /\ \A v \in Workers : (Busy(v, s)' <=> Busy(v, s)) /\ (Busy(v, s) => work'[v] = work[v])
    <3>1. PICK pending, t : pending = backlog[r] /\ t = recorded
      OBVIOUS
    <3>2. /\ pending \in Seq(Updates) /\ \A i \in DOMAIN pending : pending[i].id = r
          /\ Proceed(w, r, pending, t, clock) /\ r \in Routers /\ Busy(w, r) /\ clock \in Nat
      BY <1>1, <1>2, <1>6, <3>1
    <3> QED BY ONLY IInv, w \in Workers, s \in Routers, s # r, <3>2, ProceedApart
  <2>2. stamp'[s] = stamp[s] /\ host'[s] = host[s] /\ (s \in known' <=> s \in known)
    BY <1>1, <1>2, <1>6, <1>9
  <2>3. {v \in BagToSet(queue') : v.id = s} = {v \in BagToSet(queue) : v.id = s}
    BY <1>7
  <2>4. (s \in unheard' <=> s \in unheard) /\ (s \in missed' <=> s \in missed)
    BY <1>7, <1>9
  <2> QED BY <1>8, <1>9, <2>1, <2>2, <2>3, <2>4, Untouched
<1>10. ASSUME r \notin lost PROVE LineInv(Line(r)', r)
  <2> DEFINE l == Line(r)
             o == Onward(l, l.queue, backlog[r], u.timestamp, clock, h, (Line(r)').known, (Line(r)').missed)
             x == work[w]
  <2>1. /\ o.queue = l.queue /\ o.backlog = backlog[r] /\ o.work = {} /\ o.stamp = u.timestamp
        /\ o.clock = clock /\ o.host = h /\ o.known = (Line(r)').known /\ o.missed = (Line(r)').missed
        /\ SameServer(l, o) /\ SameFlags(l, o) /\ o.sync = l.sync
    BY ONLY OnwardIs
  <2>2. l.backlog = backlog[r] /\ l.clock = clock
    BY LineIs
  <2>10. r \in missed' => o.missed # 0
    <3>1. r \in missed' => (Line(r)').missed = 1
      BY LineWillBe
    <3> HIDE DEF o
    <3> QED BY <2>1, <3>1
  <2>3. x \in l.work /\ x.at # "fetch" /\ u = x.update
    BY <1>3 DEF u
  <2>4. GoodWork(x, l) => Shown(o)
    <3>1. Goal(o) = Goal(l)
      BY <2>1 DEF Goal
    <3> QED BY <1>10, <2>1, <2>10, <3>1 DEF Shown
  <2>5. r \notin o.known => o.host \in {0, Leftover} \/ o.missed # 0
    <3>1. (Line(r)').known = known' \cap {r}
      BY LineWillBe
    <3> QED BY <2>1, <2>10, <3>1
  <2> HIDE DEF o
  <2>6. LineInv(o, r)
    <3> HIDE DEF l, x
    <3> QED BY <1>4, <1>10, <2>1, <2>2, <2>3, <2>4, <2>5, WorkDone DEF l
  <2>7. SameRouter(o, Line(r)')
    BY <1>1, <1>2, <1>5, <1>6, <1>10, <2>1, LineWillBe
  <2>8. SameServer(o, Line(r)') /\ SameFlags(o, Line(r)') /\ SameSync(o, Line(r)', r) /\ (Line(r)').queue = o.queue
    BY <1>1, <1>8, <2>1
  <2>9. Proceed(w, r, o.backlog, o.stamp, o.clock) /\ o.clock \in Nat /\ o.backlog \in Seq(Updates)
        /\ \A i \in DOMAIN o.backlog : o.backlog[i].id = r
    BY <1>1, <1>2, <1>5, <1>6, <1>10, <2>1
  <2> HIDE DEF l
  <2> QED BY <1>1, <2>1, <2>6, <2>7, <2>8, <2>9, ProceedLine
<1> QED BY <1>7, <1>9, <1>10 DEF NoLoss

LEMMA ResyncLine ==
  ASSUME IInv, NoLoss, NEW w \in Workers, work[w].at \in {"fetch", "process", "remove"}, Resync(w),
         NEW r, r = work[w].update.id,
         host \in [Routers -> Versions \cup {0, Broken, Leftover}], NEW h, host' = [host EXCEPT ![r] = h],
         known' \cup {r} = known \cup {r}
  PROVE  NoLoss'
<1> DEFINE u == work[w].update
<1>1. /\ u \in Updates /\ r \in Routers /\ Busy(w, r) /\ u.id = r
      /\ backlog[r] \in Seq(Updates) /\ \A i \in DOMAIN backlog[r] : backlog[r][i].id = r
  BY WorkingType
<1>2. stamp \in [Routers -> Nat] /\ clock \in Nat
  BY DEF IInv, TypeOK
<1>3. Line(r).work = {work[w]} /\ (r \notin lost => LineInv(Line(r), r))
  BY <1>1, WorkOfLine DEF NoLoss
<1>4. PICK t \in After(clock) :
        /\ queue' = Put(queue, [u EXCEPT !.timestamp = t, !.priority = SYNC, !.router = 0])
        /\ Proceed(w, r, backlog[r], stamp[r], t)
  BY DEF Resync
<1>5. t \in Nat /\ t > clock
  BY <1>2, <1>4, TimeGoesBy
<1> DEFINE again == [u EXCEPT !.timestamp = t, !.priority = SYNC, !.router = 0]
<1>6. /\ again \in Updates /\ again.id = r /\ again.action = u.action /\ again.router = 0
      /\ again.priority = SYNC /\ again.timestamp = t
  <2> DEFINE a == [u EXCEPT !.timestamp = t]
             b == [a EXCEPT !.priority = SYNC]
             c == [b EXCEPT !.router = 0]
  <2>1. a \in Updates /\ a.id = r /\ a.action = u.action /\ a.timestamp = t
    BY <1>1, <1>5 DEF Updates
  <2> HIDE DEF a
  <2>2. b \in Updates /\ b.id = r /\ b.action = u.action /\ b.timestamp = t /\ b.priority = SYNC
    BY <2>1 DEF Updates
  <2> HIDE DEF b
  <2>3. c \in Updates /\ c.id = r /\ c.action = u.action /\ c.timestamp = t /\ c.priority = SYNC /\ c.router = 0
    BY <2>2 DEF Updates
  <2> QED BY <2>3 DEF a, b
<1>7. UNCHANGED <<server, fullsync, sync, stamp, clean, unheard, missed, lost>>
  BY DEF Resync, history
<1> HIDE DEF again
<1>8. BagToSet(queue') = BagToSet(queue) \cup {again}
  <2>1. queue' = Put(queue, again)
    BY <1>4 DEF again
  <2> QED BY <1>6, <2>1, PutOne DEF IInv, TypeOK, QueueOK
<1>9. ASSUME NEW s \in Routers
      PROVE /\ Served(s)' = Served(s) /\ SameServer(Line(s), Line(s)') /\ SameFlags(Line(s), Line(s)')
            /\ (Line(s)').sync = Line(s).sync
            /\ notes'[s] = notes[s] /\ UNCHANGED <<fullsync, clean>>
  <2>1. Served(s)' = Served(s)
    BY <1>7 DEF server, Served
  <2> QED BY <1>7, <2>1, LineIs, LineWillBe DEF server
<1> HIDE DEF u
<1>10. ASSUME NEW s \in Routers \ lost, s # r PROVE LineInv(Line(s)', s)
  <2>1. /\ backlog'[s] = backlog[s] /\ clock' \in Nat /\ clock' >= clock
        /\ \A v \in Workers : (Busy(v, s)' <=> Busy(v, s)) /\ (Busy(v, s) => work'[v] = work[v])
    <3>1. clock' \in Nat /\ clock' >= t /\ backlog'[s] = backlog[s]
          /\ \A v \in Workers : (Busy(v, s)' <=> Busy(v, s)) /\ (Busy(v, s) => work'[v] = work[v])
      BY <1>1, <1>4, <1>5, <1>10, ProceedApart
    <3> QED BY <1>2, <1>5, <3>1
  <2>2. stamp'[s] = stamp[s] /\ host'[s] = host[s] /\ (s \in known' <=> s \in known)
    BY <1>1, <1>7, <1>10
  <2>3. {v \in BagToSet(queue') : v.id = s} = {v \in BagToSet(queue) : v.id = s}
    BY <1>6, <1>8, <1>10, QueueApart
  <2> QED BY <1>7, <1>9, <1>10, <2>1, <2>2, <2>3, Untouched
<1>11. ASSUME r \notin lost PROVE LineInv(Line(r)', r)
  <2> DEFINE l == Line(r)
             q == (Line(r)').queue
             o == Onward(l, q, backlog[r], stamp[r], t, h, (Line(r)').known, l.missed)
             x == work[w]
  <2>1. /\ o.queue = q /\ o.backlog = backlog[r] /\ o.work = {} /\ o.stamp = stamp[r]
        /\ o.clock = t /\ o.host = h /\ o.known = (Line(r)').known /\ o.missed = l.missed
        /\ SameServer(l, o) /\ SameFlags(l, o) /\ o.sync = l.sync
    BY ONLY OnwardIs
  <2>2. l.backlog = backlog[r] /\ l.clock = clock /\ l.stamp = stamp[r]
    BY LineIs
  <2>3. x \in l.work /\ u = x.update
    BY <1>3 DEF u
  <2>4. q = l.queue \cup {again}
    BY <1>6, <1>8, QueueGrows
  <2> HIDE DEF o, q
  <2>5. LineInv(o, r)
    <3> HIDE DEF l, x
    <3> QED BY <1>3, <1>11, <1>5, <1>6, <2>1, <2>2, <2>3, <2>4, WorkRepeated DEF l
  <2>6. SameRouter(o, Line(r)')
    BY <1>1, <1>7, <2>1, LineIs, LineWillBe
  <2>7. SameServer(o, Line(r)') /\ SameFlags(o, Line(r)') /\ SameSync(o, Line(r)', r) /\ (Line(r)').queue = o.queue
    BY <1>1, <1>9, <2>1 DEF q
  <2> HIDE DEF l
  <2> QED BY <1>1, <1>2, <1>4, <1>5, <2>1, <2>5, <2>6, <2>7, ProceedLine
<1> QED BY <1>7, <1>10, <1>11 DEF NoLoss

LEMMA AnswerLine == ASSUME IInv, NoLoss, NEW w \in Workers, Answer(w) PROVE NoLoss'
<1>1. PICK s, data : s = work[w].update.id /\ data = Served(s)
  OBVIOUS
<1> DEFINE y == [work[w] EXCEPT !.router = data, !.at = IF data = 0 THEN "remove" ELSE "process"]
<1>2. /\ work[w] \in Works /\ work[w] # Idle /\ work[w].update \in Updates /\ s \in Routers
      /\ data \in 0..MaxVersion /\ work[w].at = "fetch"
  BY <1>1, WorkingType, ServedType DEF Answer, IInv
<1>3. /\ y \in Works /\ y # Idle /\ y.update = work[w].update /\ y.router = data
      /\ y.at = IF data = 0 THEN "remove" ELSE "process"
  BY <1>2 DEF Works, Idle
<1>4. work' = [work EXCEPT ![w] = y] /\ work \in [Workers -> Works]
  BY <1>1 DEF Answer, IInv, TypeOK
<1>5. /\ UNCHANGED <<server, clock, fullsync, sync, queue, master, backlog, routers, clean, troubles>>
      /\ unheard' = unheard /\ missed' = missed /\ lost' = lost
  BY DEF Answer, history
<1> HIDE DEF y
<1>6. ASSUME NEW r \in Routers \ lost
      PROVE /\ LineInv(Line(r), r) /\ Served(r)' = Served(r)
            /\ SameServer(Line(r), Line(r)') /\ SameFlags(Line(r), Line(r)') /\ SameRouter(Line(r), Line(r)')
            /\ SameSync(Line(r), Line(r)', r)
            /\ (Line(r)').queue = Line(r).queue /\ (Line(r)').backlog = Line(r).backlog
            /\ (Line(r)').clock = Line(r).clock
  <2>1. Served(r)' = Served(r)
    BY <1>5 DEF server, Served
  <2>2. (Line(r)').queue = Line(r).queue /\ (Line(r)').known = Line(r).known
    BY <1>5, SetsStay DEF routers
  <2> QED BY <1>5, <2>1, <2>2, LineIs, LineWillBe DEF server, routers, NoLoss
<1>7. ASSUME NEW r \in Routers \ lost, r # s PROVE LineInv(Line(r)', r)
  <2>1. \A v \in Workers : (Busy(v, r)' <=> Busy(v, r)) /\ (Busy(v, r) => work'[v] = work[v])
    BY <1>1, <1>2, <1>3, <1>4, <1>7 DEF Busy
  <2>2. (Line(r)').work = Line(r).work
    BY <2>1, WorkStays
  <2>3. (Line(r)').clock \in Nat /\ (Line(r)').clock >= Line(r).clock
    BY <1>6, <1>7, LineIs DEF IInv, TypeOK
  <2> QED BY <1>6, <1>7, <2>2, <2>3, ClockPasses
<1>8. ASSUME s \notin lost PROVE LineInv(Line(s)', s)
  <2>1. Line(s).work = {work[w]} /\ \A v \in Workers \ {w} : ~Busy(v, s)
    BY <1>1, <1>2, WorkOfLine
  <2>2. (Line(s)').work = {y}
    <3>1. y # Idle /\ y.update.id = s
      BY <1>1, <1>3
    <3> QED BY <1>4, <2>1, <3>1, WorkChanges
  <2>3. Line(s).served = data
    BY <1>1, LineIs
  <2>4. work[w] \in Line(s).work
    BY <2>1
  <2> QED BY <1>2, <1>3, <1>6, <1>8, <2>2, <2>3, <2>4, WorkAnswered
<1> QED BY <1>2, <1>5, <1>7, <1>8 DEF NoLoss

LEMMA WorkLine == ASSUME IInv, NoLoss, NEW w \in Workers, Work(w) PROVE NoLoss'
<1> DEFINE r == work[w].update.id
           x == work[w]
<1>1. host \in [Routers -> Versions \cup {0, Broken, Leftover}] /\ known \subseteq Routers
  BY DEF IInv, TypeOK
<1>2. ASSUME x.at \in {"process", "remove"}, r \notin lost
      PROVE  /\ x.at = "remove" => (GoodWork(x, Line(r)) => Goal(Line(r)) = 0)
             /\ x.at = "process" => (GoodWork(x, Line(r)) => Goal(Line(r)) = IF Compatible(x.router) THEN x.router ELSE 0)
  <2>1. r \in Routers
    BY <1>2, WorkingType
  <2>2. x \in Line(r).work /\ LineInv(Line(r), r)
    BY <1>2, <2>1, WorkOfLine DEF NoLoss
  <2>3. FormedWork(x)
    BY <2>2 DEF LineInv, Shaped
  <2> QED BY <1>2, <2>3 DEF FormedWork, GoodWork, Goal
<1>3. CASE Take(w)
  BY <1>3, TakeLine
<1>4. CASE Answer(w)
  BY <1>4, AnswerLine
<1>5. CASE FetchFails(w)
  <2>1. r \in Routers /\ work[w].at = "fetch" /\ Resync(w) /\ host' = host /\ known' = known
    BY <1>5, WorkingType DEF FetchFails
  <2>2. host' = [host EXCEPT ![r] = host[r]]
    BY <1>1, <2>1
  <2> QED BY <1>1, <2>1, <2>2, ResyncLine
<1>6. CASE Removed(w)
  <2>1. /\ r \in Routers /\ x.at = "remove" /\ Done(w)
        /\ host' = [host EXCEPT ![r] = 0] /\ known' = known \ {r}
    BY <1>6, WorkingType DEF Removed
  <2>2. known' \cup {r} = known \cup {r}
    BY <2>1
  <2>3. r \notin lost /\ GoodWork(x, Line(r)) => Goal(Line(r)) = 0
    BY <1>2, <2>1
  <2>4. missed' \cup {r} = missed \cup {r}
    BY <1>6 DEF Removed
  <2> QED BY <1>1, <2>1, <2>2, <2>3, <2>4, DoneLine
<1>7. CASE RemoveFails(w)
  <2>1. r \in Routers /\ x.at = "remove"
    BY <1>7, WorkingType DEF RemoveFails
  <2>2. CASE /\ r \in known
             /\ \/ host' = [host EXCEPT ![r] = Broken] /\ UNCHANGED known
                \/ host' = [host EXCEPT ![r] = 0] /\ known' = known \ {r}
             /\ Resync(w)
    <3>1. known' \cup {r} = known \cup {r}
      BY <2>2
    <3> QED BY <1>1, <2>1, <2>2, <3>1, ResyncLine
  <2>3. CASE /\ r \notin known
             /\ host' = [host EXCEPT ![r] = IF @ = 0 THEN 0 ELSE Leftover]
             /\ missed' = missed \ {r}
             /\ UNCHANGED known
             /\ Done(w)
    <3> DEFINE h == IF host[r] = 0 THEN 0 ELSE Leftover
    <3>1. host' = [host EXCEPT ![r] = h] /\ h \in {0, Leftover} /\ known' \cup {r} = known \cup {r}
      BY <1>1, <2>3
    <3>2. r \notin lost /\ GoodWork(x, Line(r)) => Goal(Line(r)) = 0
      BY <1>2, <2>1
    <3>3. Done(w) /\ missed' \cup {r} = missed \cup {r}
      BY <2>3
    <3> HIDE DEF h
    <3> QED BY <1>1, <2>1, <3>1, <3>2, <3>3, DoneLine
  <2> QED BY <1>7, <2>2, <2>3 DEF RemoveFails
<1>8. CASE Process(w)
  <2>1. /\ r \in Routers /\ x.at = "process" /\ Compatible(x.router) /\ Done(w)
        /\ host' = [host EXCEPT ![r] = x.router] /\ known' = known \cup {r}
    BY <1>8, WorkingType DEF Process
  <2>2. known' \cup {r} = known \cup {r} /\ r \in known'
    BY <2>1
  <2>3. r \notin lost /\ GoodWork(x, Line(r)) => Goal(Line(r)) = x.router
    BY <1>2, <2>1
  <2>4. missed' \cup {r} = missed \cup {r}
    BY <1>8 DEF Process
  <2> QED BY <1>1, <2>1, <2>2, <2>3, <2>4, DoneLine
<1>9. CASE ProcessFails(w)
  <2>1. /\ r \in Routers /\ x.at = "process" /\ Resync(w) /\ host' = [host EXCEPT ![r] = Broken]
        /\ known' = known \cup {r} \/ known' = known
    BY <1>9, WorkingType DEF ProcessFails
  <2>2. known' \cup {r} = known \cup {r}
    BY <2>1
  <2> QED BY <1>1, <2>1, <2>2, ResyncLine
<1>10. CASE Reject(w)
  <2>1. r \in Routers /\ x.at = "process" /\ ~Compatible(x.router) /\ Done(w)
    BY <1>10, WorkingType DEF Reject
  <2>2. r \notin lost /\ GoodWork(x, Line(r)) => Goal(Line(r)) = 0
    BY <1>2, <2>1
  <2>3. \E h \in {0, Leftover} : host' = [host EXCEPT ![r] = h]
    BY <1>10 DEF Reject
  <2>4. known' \cup {r} = known \cup {r} /\ missed' \cup {r} = missed \cup {r}
    BY <1>10 DEF Reject
  <2> QED BY <1>1, <2>1, <2>2, <2>3, <2>4, DoneLine
<1>11. CASE BridgeMissing(w)
  <2>1. /\ r \in Routers /\ x.at = "process" /\ Done(w) /\ host' = host /\ known' = known
        /\ missed' = missed \cup {r}
    BY <1>11, WorkingType DEF BridgeMissing
  <2>2. host' = [host EXCEPT ![r] = host[r]] /\ known' \cup {r} = known \cup {r}
    BY <1>1, <2>1
  <2>3. missed' \cup {r} = missed \cup {r} /\ r \in missed'
    BY <2>1
  <2>4. PICK h : h = host[r]
    OBVIOUS
  <2> QED BY <1>1, <2>1, <2>2, <2>3, <2>4, DoneLine
<1> QED BY <1>3, <1>4, <1>5, <1>6, <1>7, <1>8, <1>9, <1>10, <1>11 DEF Work

-----------------------------------------------------------------------------
(* The steps of the synchronisation. *)

(* A step of the synchronisation leaves threads, routers and server alone. *)
LEMMA SyncApart == ASSUME NEW r, UNCHANGED <<server, master, backlog, work, stamp, known>>
  PROVE /\ Served(r)' = Served(r) /\ (Line(r)').served = Line(r).served /\ (Line(r)').notes = Line(r).notes
        /\ UNCHANGED unheard => SameServer(Line(r), Line(r)')
        /\ (Line(r)').work = Line(r).work /\ (Line(r)').backlog = Line(r).backlog
        /\ (Line(r)').known = Line(r).known /\ (Line(r)').stamp = Line(r).stamp
<1>1. \A v \in Workers : (Busy(v, r)' <=> Busy(v, r)) /\ (Busy(v, r) => work'[v] = work[v])
  BY DEF Busy
<1>2. (Line(r)').work = Line(r).work
  BY <1>1, WorkStays
<1>3. (Line(r)').known = Line(r).known
  BY SetsStay
<1>4. Served(r)' = Served(r)
  BY DEF server, Served
<1> QED BY <1>2, <1>3, <1>4, LineIs, LineWillBe DEF server

LEMMA SyncLine == ASSUME IInv, NoLoss, Sync PROVE NoLoss'
<1>1. UNCHANGED <<server, master, backlog, work, stamp, known>>
  BY DEF Sync, SyncStart, SyncIds, SyncChunk, SyncEnd, SyncFails, Sweep, queues, routers
<1>2. ASSUME NEW r \in Routers
      PROVE /\ r \notin lost => LineInv(Line(r), r)
            /\ Served(r)' = Served(r) /\ (Line(r)').served = Line(r).served /\ (Line(r)').notes = Line(r).notes
            /\ UNCHANGED unheard => SameServer(Line(r), Line(r)')
            /\ (Line(r)').work = Line(r).work /\ (Line(r)').backlog = Line(r).backlog
            /\ (Line(r)').known = Line(r).known /\ (Line(r)').stamp = Line(r).stamp
            /\ Line(r).sync = sync /\ (Line(r)').sync = sync' /\ Line(r).served = Served(r)
            /\ Line(r).clock = clock /\ (Line(r)').clock = clock'
            /\ Line(r).host = host[r] /\ (Line(r)').host = host'[r]
            /\ UNCHANGED queue => (Line(r)').queue = Line(r).queue
            /\ UNCHANGED missed => (Line(r)').missed = Line(r).missed
  BY <1>1, SyncApart, SetsStay, LineIs, LineWillBe DEF NoLoss
<1>3. ASSUME NEW r \in Routers
      PROVE /\ UNCHANGED <<fullsync, clean>> => SameFlags(Line(r), Line(r)')
            /\ fullsync' = FALSE => (Line(r)').asked = 0
            /\ clean' = FALSE => (Line(r)').clearing = 0
            /\ fullsync => Line(r).asked = 1
            /\ Line(r).clearing = 1 <=> clean
  BY LineIs, LineWillBe
<1>4. sync \in Syncs /\ known \subseteq Routers /\ clock \in Nat /\ QueueOK(queue)
  BY DEF IInv, TypeOK, QueueOK
<1>5. CASE SyncStart
  <2>1. PICK t \in After(clock) :
          /\ clock' = t
          /\ sync' = [at |-> "ids", timestamp |-> t, previous |-> known,
                      stale |-> IF clean THEN {r \in Routers : host[r] # 0} ELSE {},
                      todo |-> {}, current |-> {}]
    BY <1>5 DEF SyncStart
  <2>2. t \in Nat /\ t > clock
    BY <1>4, <2>1, TimeGoesBy
  <2>3. /\ sync'.at = "ids" /\ sync'.timestamp = t /\ sync'.previous = known /\ sync'.current = {}
        /\ \A r \in Routers : r \in sync'.stale <=> clean /\ host[r] # 0
    BY <2>1
  <2>4. fullsync /\ sync.at = "off" /\ UNCHANGED <<queue, host, fullsync, clean, missed>>
    BY <1>5 DEF SyncStart, queues, routers, NoSync
  <2>5. ASSUME NEW r \in Routers, r \notin lost' PROVE LineInv(Line(r)', r)
    <3>1. r \in (Line(r)').sync.previous <=> r \in Line(r).known
      BY <1>2, <2>3, LineIs
    <3>2. r \in (Line(r)').sync.stale <=> (Line(r).clearing = 1 /\ Line(r).host # 0)
      <4>1. r \in (Line(r)').sync.stale <=> clean /\ host[r] # 0
        BY <1>2, <2>3
      <4>2. Line(r).clearing = 1 <=> clean
        BY <1>3
      <4>3. Line(r).host = host[r]
        BY <1>2
      <4> QED BY <4>1, <4>2, <4>3, Zenon
    <3>3. (Line(r)').clock \in Nat /\ (Line(r)').clock > Line(r).clock
      BY <1>2, <2>1, <2>2
    <3>4. /\ (Line(r)').sync.at = "ids" /\ (Line(r)').sync.timestamp = (Line(r)').clock
          /\ r \notin (Line(r)').sync.current /\ Line(r).sync.at = "off"
      BY <1>2, <2>1, <2>3, <2>4
    <3>5. Line(r).asked = 1 /\ SameFlags(Line(r), Line(r)')
      BY <1>3, <2>4
    <3>6. SameUpdates(Line(r), Line(r)') /\ SameRouter(Line(r), Line(r)')
      BY <1>2, <2>4
    <3>7. CASE r \notin lost
      BY <1>2, <3>1, <3>2, <3>3, <3>4, <3>5, <3>6, <3>7, SyncStarts
    <3>8. CASE r \in lost
      <4>1. Orderly(r)
        BY <1>5, <2>5, <3>8 DEF SyncStart
      <4>2. Line(r).queue = {} /\ Line(r).backlog = <<>> /\ Line(r).work = {}
        BY <4>1, LineIs DEF Orderly, InHand, Busy
      <4>3. /\ (Line(r)').stamp \in Nat /\ (Line(r)').stamp < (Line(r)').clock
            /\ (Line(r)').served \in 0..MaxVersion
        <5>1. stamp[r] \in Nat /\ stamp[r] <= clock /\ Served(r) \in 0..MaxVersion
          BY <4>1, ServedType DEF Orderly, IInv, TypeOK
        <5> QED BY <1>2, <1>4, <2>1, <2>2, <5>1, LineIs
      <4>4. (Line(r)').asked = 1 /\ (Line(r)').clearing \in {0, 1}
        BY <3>5, LineIs
      <4>5. r \in (Line(r)').known \/ (Line(r)').clearing = 1 \/ (Line(r)').host \in {0, Leftover}
        <5>1. r \in known \/ clean \/ host[r] \in {0, Leftover}
          BY <4>1 DEF Orderly
        <5>2. r \in Line(r).known \/ Line(r).clearing = 1 \/ Line(r).host \in {0, Leftover}
          BY <5>1, LineIs
        <5> QED BY <3>5, <3>6, <5>2
      <4> QED BY <3>1, <3>2, <3>3, <3>4, <3>5, <3>6, <4>2, <4>3, <4>4, <4>5, SyncStartsAnew
    <3> QED BY <3>7, <3>8
  <2> QED BY <2>5 DEF NoLoss
<1>6. CASE SyncIds
  <2>1. sync # NoSync /\ sync.at = "ids" /\ UNCHANGED <<queue, host, clock, fullsync, clean, unheard, missed, lost>>
    BY <1>6 DEF SyncIds, NoSync, queues, routers, history
  <2>2. /\ sync'.at = "chunk" /\ sync'.timestamp = sync.timestamp /\ sync'.previous = sync.previous
        /\ sync'.stale = sync.stale /\ sync'.current = sync.current
        /\ \A r \in Routers : r \in sync'.todo <=> Served(r) # 0
    BY <1>4, <1>6, <2>1 DEF SyncIds, Syncs
  <2>3. ASSUME NEW r \in Routers \ lost PROVE LineInv(Line(r)', r)
    <3>1. SameUpdates(Line(r), Line(r)') /\ SameRouter(Line(r), Line(r)') /\ SameFlags(Line(r), Line(r)')
      BY <1>2, <1>3, <2>1
    <3> QED BY <1>2, <2>1, <2>2, <3>1, SyncReadsIds
  <2> QED BY <2>1, <2>3 DEF NoLoss
<1>7. CASE SyncChunk
  <2>1. PICK s \in sync.todo :
          LET found == {s} \cap {x \in Routers : Served(x) # 0} IN
          /\ sync' = [sync EXCEPT !.todo = @ \ {s}, !.current = @ \cup found]
          /\ queue' = queue (+)
               SetToBag({Update(x, SYNC, sync.timestamp, "update", Served(x)) : x \in found})
    BY <1>7 DEF SyncChunk
  <2>2. sync # NoSync /\ sync.at = "chunk" /\ UNCHANGED <<host, clock, fullsync, clean, unheard, missed, lost>>
    BY <1>7 DEF SyncChunk, NoSync, routers, history
  <2>3. s \in Routers /\ sync.timestamp \in Nat
    BY <1>4, <2>2, SyncsType
  <2> DEFINE found == {s} \cap {x \in Routers : Served(x) # 0}
             u == Update(s, SYNC, sync.timestamp, "update", Served(s))
  <2>4. found = IF Served(s) = 0 THEN {} ELSE {s}
    BY <2>3
  <2>5. /\ u \in Updates /\ u.id = s /\ u.action = "update" /\ u.router = Served(s) /\ u.priority = SYNC
        /\ u.timestamp = sync.timestamp
    BY <2>3, UpdateType, ServedType DEF IInv, Update
  <2>6. BagToSet(queue') = BagToSet(queue) \cup (IF Served(s) = 0 THEN {} ELSE {u})
    <3> DEFINE us == {Update(x, SYNC, sync.timestamp, "update", Served(x)) : x \in found}
    <3>1. us = IF Served(s) = 0 THEN {} ELSE {u}
      BY <2>4
    <3>2. queue' = queue (+) SetToBag(us)
      BY <2>1
    <3> HIDE DEF us, u
    <3> QED BY <1>4, <2>5, <3>1, <3>2, PutAll
  <2>7. /\ sync'.at = "chunk" /\ sync'.timestamp = sync.timestamp /\ sync'.previous = sync.previous
        /\ sync'.stale = sync.stale /\ sync'.todo = sync.todo \ {s}
        /\ sync'.current = sync.current \cup (IF Served(s) = 0 THEN {} ELSE {s})
    <3> HIDE DEF found
    <3>1. sync' = [sync EXCEPT !.todo = @ \ {s}, !.current = @ \cup found]
      BY <2>1 DEF found
    <3> QED BY <1>4, <2>2, <2>4, <3>1 DEF Syncs
  <2> HIDE DEF u
  <2>8. ASSUME NEW r \in Routers PROVE SameRouter(Line(r), Line(r)') /\ SameFlags(Line(r), Line(r)')
    BY <1>2, <1>3, <2>2
  <2>9. ASSUME NEW r \in Routers, r # s \/ Served(s) = 0 PROVE SameUpdates(Line(r), Line(r)')
    <3>1. {v \in BagToSet(queue') : v.id = r} = {v \in BagToSet(queue) : v.id = r}
      BY <2>5, <2>6, <2>9
    <3>2. (Line(r)').queue = Line(r).queue
      BY <3>1, SetsStay
    <3> QED BY <1>2, <3>2
  <2>10. ASSUME NEW r \in Routers \ lost, r # s PROVE LineInv(Line(r)', r)
    <3>1. SameSync(Line(r), Line(r)', r)
      BY <1>2, <2>2, <2>7, <2>10
    <3>2. (Line(r)').clock \in Nat /\ (Line(r)').clock >= Line(r).clock
      BY <1>2, <1>4, <2>2
    <3> QED BY <1>2, <2>2, <2>8, <2>9, <2>10, <3>1, <3>2, ClockPasses
  <2>11. ASSUME s \notin lost PROVE LineInv(Line(s)', s)
    <3>1. CASE Served(s) = 0
      <4>1. SameUpdates(Line(s), Line(s)')
        BY <2>3, <2>9, <3>1
      <4> QED BY <1>2, <2>2, <2>3, <2>7, <2>8, <2>11, <3>1, <4>1, SyncFindsNone
    <3>2. CASE Served(s) # 0
      <4>1. (Line(s)').queue = Line(s).queue \cup {u}
        BY <2>5, <2>6, <3>2, QueueGrows
      <4> QED BY <1>2, <2>2, <2>3, <2>5, <2>7, <2>8, <2>11, <3>2, <4>1, SyncFinds
    <3> QED BY <3>1, <3>2
  <2> QED BY <2>2, <2>3, <2>10, <2>11 DEF NoLoss
<1>8. CASE SyncEnd
  <2> DEFINE vanished == sync.previous \ sync.current
             stale == sync.stale \ (sync.current \cup vanished)
             us == {Update(r, SYNC, sync.timestamp, "delete", 0) : r \in vanished}
  <2>1. /\ queue' = queue (+) SetToBag(us)
        /\ sync' = IF stale = {} THEN NoSync ELSE [sync EXCEPT !.at = "sweep", !.stale = stale]
        /\ fullsync' = FALSE /\ clean' = FALSE
        /\ sync.at = "chunk" /\ sync.todo = {} /\ UNCHANGED <<clock, host, unheard, missed, lost>>
    BY <1>8 DEF SyncEnd, routers, history
  <2>2. sync # NoSync
    BY <2>1 DEF NoSync
  <2>3. vanished \subseteq Routers /\ stale \subseteq Routers /\ sync.timestamp \in Nat
    BY <1>4, <2>2, SyncsType
  <2>4. \A q \in vanished :
          LET u == Update(q, SYNC, sync.timestamp, "delete", 0) IN
          u \in Updates /\ u.id = q /\ IsDelete(u) /\ u.router = 0 /\ u.priority = SYNC /\ u.timestamp = sync.timestamp
    BY <2>3, UpdateType DEF Update, IsDelete
  <2>5. /\ us \subseteq Updates
        /\ \A u \in us : u.id \in vanished /\ IsDelete(u) /\ u.router = 0 /\ u.priority = SYNC
                         /\ u.timestamp = sync.timestamp
        /\ \A q \in vanished : \E u \in us : u.id = q
    BY <2>4
  <2>6. /\ sync'.at \in {"off", "sweep"}
        /\ sync'.at = "sweep" => sync'.stale = stale
        /\ sync'.at = "off" => stale = {}
    BY <1>4, <2>1, <2>2 DEF Syncs, NoSync
  <2>7. \A q : q \in vanished <=> q \in sync.previous /\ q \notin sync.current
    OBVIOUS
  <2>8. \A q : q \in stale <=> q \in sync.stale /\ q \notin sync.current /\ q \notin sync.previous
    OBVIOUS
  <2> HIDE DEF us, vanished, stale
  <2>9. BagToSet(queue') = BagToSet(queue) \cup us
    BY <1>4, <2>1, <2>5, PutAll
  <2>10. ASSUME NEW r \in Routers \ lost PROVE LineInv(Line(r)', r)
    <3> DEFINE D == {u \in us : u.id = r}
    <3>1. (Line(r)').queue = Line(r).queue \cup D
      <4>1. (Line(r)').queue = {u \in BagToSet(queue') : u.id = r}
        BY LineWillBe
      <4>2. Line(r).queue = {u \in BagToSet(queue) : u.id = r}
        BY LineIs
      <4>3. ASSUME NEW x PROVE x \in (Line(r)').queue <=> x \in BagToSet(queue') /\ x.id = r
        BY <4>1
      <4>4. ASSUME NEW x PROVE x \in Line(r).queue <=> x \in BagToSet(queue) /\ x.id = r
        BY <4>2
      <4>5. \A x : x \in (Line(r)').queue <=> x \in Line(r).queue \cup D
        BY <2>9, <4>3, <4>4
      <4> QED BY <4>1, <4>5
    <3>2. /\ D \in SUBSET Updates
          /\ \A d \in D : IsDelete(d) /\ d.router = 0 /\ d.priority = SYNC /\ d.timestamp = sync.timestamp
          /\ D # {} <=> r \in sync.previous /\ r \notin sync.current
      BY <2>5, <2>7
    <3> HIDE DEF D
    <3>3. (sync'.at = "sweep" /\ r \in sync'.stale)
            <=> (r \in sync.stale /\ r \notin sync.current /\ r \notin sync.previous)
      BY <2>6, <2>8
    <3>4. SameRouter(Line(r), Line(r)') /\ (Line(r)').asked = 0 /\ (Line(r)').clearing = 0
          /\ r \notin sync.todo
      BY <1>2, <1>3, <2>1
    <3>5. /\ LineInv(Line(r), r) /\ SameServer(Line(r), Line(r)') /\ (Line(r)').clock = Line(r).clock
          /\ (Line(r)').work = Line(r).work /\ (Line(r)').backlog = Line(r).backlog
          /\ Line(r).sync.at = "chunk" /\ (Line(r)').sync.at \in {"off", "sweep"}
      BY <1>2, <2>1, <2>6
    <3>6. Line(r).sync = sync /\ (Line(r)').sync = sync'
      BY <1>2
    <3> QED BY <3>1, <3>2, <3>3, <3>4, <3>5, <3>6, SyncEnds
  <2> QED BY <2>1, <2>10 DEF NoLoss
<1>9. CASE SyncFails
  <2>1. /\ sync.at \in {"ids", "chunk"} /\ sync'.at = "off"
        /\ UNCHANGED <<queue, host, clock, fullsync, clean, unheard, missed, lost>>
    BY <1>9 DEF SyncFails, Reading, queues, routers, NoSync, history
  <2>2. ASSUME NEW r \in Routers \ lost PROVE LineInv(Line(r)', r)
    <3>1. SameUpdates(Line(r), Line(r)') /\ SameRouter(Line(r), Line(r)') /\ SameFlags(Line(r), Line(r)')
      BY <1>2, <1>3, <2>1
    <3> QED BY <1>2, <2>1, <3>1, SyncAborts
  <2> QED BY <2>1, <2>2 DEF NoLoss
<1>10. CASE Sweep
  <2>1. sync.at = "sweep" /\ sync'.at = "off" /\ UNCHANGED <<queue, clock, fullsync, clean, unheard, lost>>
    BY <1>10 DEF Sweep, queues, NoSync
  <2>2. \A r \in Routers : IF r \in sync.stale THEN host'[r] \in {0, Leftover} ELSE host'[r] = host[r]
    BY <1>10 DEF Sweep
  <2>3. missed' = missed \cup {r \in sync.stale : Served(r) # 0}
    BY <1>10 DEF Sweep
  <2>4. ASSUME NEW r \in Routers \ lost PROVE LineInv(Line(r)', r)
    <3>1. SameUpdates(Line(r), Line(r)') /\ SameFlags(Line(r), Line(r)')
      BY <1>2, <1>3, <2>1
    <3>2. /\ r \in missed => (Line(r)').missed # 0
          /\ r \in sync.stale => Served(r) = 0 \/ (Line(r)').missed # 0
      BY <2>3, LineWillBe
    <3>3. Line(r).missed # 0 => (Line(r)').missed # 0
      BY <3>2, LineIs
    <3>4. IF r \in Line(r).sync.stale
          THEN (Line(r)').host \in {0, Leftover} /\ (Line(r).served = 0 \/ (Line(r)').missed # 0)
          ELSE (Line(r)').host = Line(r).host
      BY <1>2, <2>2, <3>2
    <3> QED BY <1>2, <2>1, <3>1, <3>3, <3>4, SyncSweeps
  <2> QED BY <2>1, <2>4 DEF NoLoss
<1> QED BY <1>5, <1>6, <1>7, <1>8, <1>9, <1>10 DEF Sync

-----------------------------------------------------------------------------
(* The whole system. *)

LEMMA StartLine == ASSUME IInv, Init PROVE NoLoss
<1> SUFFICES ASSUME NEW r \in Routers PROVE LineInv(Line(r), r)
  BY DEF NoLoss
<1>1. BagToSet(queue) = {} /\ \A w \in Workers : ~Busy(w, r)
  BY DEF Init, EmptyBag, SetToBag, BagToSet, Busy
<1>2. Line(r).queue = {} /\ Line(r).work = {}
  BY <1>1, LineIs
<1>3. Line(r).served \in 0..MaxVersion
  BY LineIs, ServedType DEF IInv
<1> QED BY <1>2, <1>3, LineIs, LineStarts DEF Init, NoSync

LEMMA RestartLine == ASSUME IInv, Restart PROVE NoLoss'
<1> SUFFICES ASSUME NEW r \in Routers PROVE LineInv(Line(r)', r)
  BY DEF NoLoss
<1>1. BagToSet(queue') = {} /\ \A w \in Workers : ~Busy(w, r)'
  BY DEF Restart, EmptyBag, SetToBag, BagToSet, Busy
<1>2. (Line(r)').queue = {} /\ (Line(r)').work = {}
  BY <1>1, LineWillBe
<1>3. Served(r) \in 0..MaxVersion /\ Served(r)' = Served(r)
  BY ServedType DEF IInv, Restart, server, Served
<1>4. (Line(r)').served \in 0..MaxVersion
  BY <1>3, LineWillBe
<1>5. (Line(r)').clock \in Nat
  BY LineWillBe DEF Restart, IInv, TypeOK
<1>6. (Line(r)').backlog = <<>> /\ (Line(r)').stamp = 0
  BY LineWillBe DEF Restart
<1>7. (Line(r)').sync.at = "off" /\ (Line(r)').asked = 1 /\ (Line(r)').clearing = 1
  <2>1. fullsync' = TRUE /\ clean' = TRUE /\ sync' = NoSync
    BY DEF Restart
  <2>2. (Line(r)').sync = NoSync
    BY <2>1, LineWillBe
  <2>3. (Line(r)').asked = 1 /\ (Line(r)').clearing = 1
    BY <2>1, LineWillBe
  <2> QED BY <2>2, <2>3 DEF NoSync
<1> QED BY <1>2, <1>4, <1>5, <1>6, <1>7, LineStarts

LEMMA RemovalsStay == ASSUME IInv, Removals, [Next]_vars PROVE Removals'
<1>1. /\ db \in [Routers -> 0..MaxVersion] /\ version \in 1..MaxVersion
      /\ notes \in [Routers -> Seq({"updated", "removed"})]
  BY DEF IInv, TypeOK
<1>2. CASE UNCHANGED <<db, notes>>
  BY <1>2 DEF Removals
<1>3. ASSUME NEW s \in Routers, NEW n \in {"updated", "removed"}, notes' = [notes EXCEPT ![s] = Append(@, n)],
             \A r \in Routers \ {s} : db'[r] = db[r], n = "removed" => db'[s] = 0
      PROVE  Removals'
  <2> SUFFICES ASSUME NEW r \in Routers, notes'[r] # <<>>, Last(notes'[r]) = "removed" PROVE db'[r] = 0
    BY DEF Removals
  <2>1. CASE r # s
    BY <1>1, <1>3, <2>1 DEF Removals
  <2>2. CASE r = s
    <3>1. notes'[s] = Append(notes[s], n) /\ notes[s] \in Seq({"updated", "removed"})
      BY <1>1, <1>3
    <3>2. Last(notes'[s]) = n
      BY <3>1 DEF Last
    <3> QED BY <1>3, <2>2, <3>2
  <2> QED BY <2>1, <2>2
<1>4. ASSUME NEW s \in Routers, Edit(s) PROVE Removals'
  <2>1. CASE agent = "active"
    BY <1>1, <1>3, <1>4, <2>1 DEF Edit, Tell
  <2>2. CASE agent # "active"
    <3>1. notes' = notes /\ db' = [db EXCEPT ![s] = version'] /\ db[s] # 0
      BY <1>4, <2>2 DEF Edit
    <3> QED BY <1>1, <3>1 DEF Removals
  <2> QED BY <2>1, <2>2
<1>5. ASSUME NEW s \in Routers, Withdraw(s) PROVE Removals'
  BY <1>1, <1>3, <1>5 DEF Withdraw, Tell
<1>6. ASSUME NEW s \in Routers, Schedule(s) PROVE Removals'
  BY <1>1, <1>3, <1>6 DEF Schedule, Tell
<1>7. ASSUME NEW s \in Routers, Receive(s) PROVE Removals'
  <2>1. /\ notes[s] \in Seq({"updated", "removed"}) /\ notes[s] # <<>>
        /\ notes' = [notes EXCEPT ![s] = Tail(@)] /\ db' = db
    BY <1>1, <1>7 DEF Receive
  <2> SUFFICES ASSUME NEW r \in Routers, notes'[r] # <<>>, Last(notes'[r]) = "removed" PROVE db[r] = 0
    BY <2>1 DEF Removals
  <2>2. CASE r # s
    BY <1>1, <2>1, <2>2 DEF Removals
  <2>3. CASE r = s
    <3> DEFINE rest == Tail(notes[s])
    <3>1. /\ rest \in Seq({"updated", "removed"}) /\ Len(rest) = Len(notes[s]) - 1
          /\ \A i \in 1..Len(rest) : rest[i] = notes[s][i + 1]
      BY <2>1, HeadTailProperties
    <3>2. notes'[s] = rest
      BY <1>1, <2>1
    <3> HIDE DEF rest
    <3>3. Len(rest) \in Nat /\ Len(rest) # 0 /\ Len(notes[s]) \in Nat
      <4>1. rest # <<>>
        BY <2>3, <3>2
      <4>2. rest \in Seq({"updated", "removed"})
        BY <3>1
      <4>3. Len(rest) \in Nat \ {0}
        BY <4>1, <4>2, EmptySeq
      <4>4. Len(notes[s]) \in Nat
        BY <2>1, LenProperties
      <4> QED BY <4>3, <4>4
    <3>4. rest[Len(rest)] = notes[s][Len(notes[s])]
      <4>1. Len(rest) \in 1..Len(rest) /\ Len(rest) + 1 = Len(notes[s])
        <5>1. PICK n, k : n = Len(rest) /\ k = Len(notes[s])
          OBVIOUS
        <5>2. n \in Nat /\ n # 0 /\ k \in Nat
          BY <3>3, <5>1
        <5>3. n = k - 1
          BY <3>1, <5>1
        <5>4. n \in 1..n /\ n + 1 = k
          BY ONLY <5>2, <5>3
        <5> QED BY <5>1, <5>4
      <4>2. rest[Len(rest)] = notes[s][Len(rest) + 1]
        BY <3>1, <4>1
      <4> QED BY <4>1, <4>2
    <3> QED BY <2>1, <2>3, <3>2, <3>4 DEF Removals, Last
  <2> QED BY <2>2, <2>3
<1>8. ASSUME NEW w \in Workers, Work(w) PROVE UNCHANGED <<db, notes>>
  BY <1>8 DEF Work, Take, Answer, FetchFails, Removed, RemoveFails, BridgeMissing, Process, ProcessFails, Reject, Done, Resync, server
<1>9. CASE Sync
  BY <1>2, <1>9 DEF Sync, SyncStart, SyncIds, SyncChunk, SyncEnd, SyncFails, Sweep, server
<1>10. CASE Presume \/ Beat \/ Switch \/ SetBack \/ Restart
  BY <1>2, <1>10 DEF Presume, Beat, Switch, SetBack, Restart, server
<1>11. CASE UNCHANGED vars
  BY <1>2, <1>11 DEF vars, server
<1> QED BY <1>2, <1>4, <1>5, <1>6, <1>7, <1>8, <1>9, <1>10, <1>11 DEF Next

LEMMA NoLossStays == ASSUME IInv, Removals, NoLoss, [Next]_vars PROVE NoLoss'
<1>1. ASSUME NEW s \in Routers, Edit(s) \/ Withdraw(s) \/ Schedule(s) PROVE NoLoss'
  BY <1>1, DatabaseLine
<1>2. ASSUME NEW s \in Routers, Receive(s) PROVE NoLoss'
  BY <1>2, ReceiveLine
<1>3. ASSUME NEW w \in Workers, Work(w) PROVE NoLoss'
  BY <1>3, WorkLine
<1>4. CASE Sync
  BY <1>4, SyncLine
<1>5. CASE Presume \/ Beat \/ Switch
  BY <1>5, AgentLine
<1>6. CASE Restart
  BY <1>6, RestartLine
<1>7. CASE UNCHANGED vars
  <2> SUFFICES ASSUME NEW r \in Routers \ lost PROVE LineInv(Line(r)', r)
    BY <1>7 DEF NoLoss, vars, history
  <2>1. /\ SameUpdates(Line(r), Line(r)') /\ SameRouter(Line(r), Line(r)') /\ SameSync(Line(r), Line(r)', r)
        /\ (Line(r)').clock = Line(r).clock
    BY <1>7, ServerApart DEF vars, history
  <2>2. SameServer(Line(r), Line(r)') /\ SameFlags(Line(r), Line(r)')
    <3>1. Served(r)' = Served(r)
      BY <1>7 DEF vars, server, Served
    <3> QED BY <1>7, <3>1, LineIs, LineWillBe DEF vars, server, history
  <2>3. Line(r).clock \in Nat /\ LineInv(Line(r), r)
    BY LineIs DEF NoLoss, IInv, TypeOK
  <2> QED BY <2>1, <2>2, <2>3, ClockPasses
<1>8. CASE SetBack
  BY <1>8 DEF SetBack, NoLoss
<1> QED BY <1>1, <1>2, <1>3, <1>4, <1>5, <1>6, <1>7, <1>8 DEF Next

LEMMA NothingMissing == ASSUME IInv, Removals, NoLoss PROVE NoLostUpdate
<1> SUFFICES ASSUME NEW r \in Routers \ (unheard \cup missed \cup lost), ~InPlace(r) PROVE Pending(r)
  BY DEF NoLostUpdate
<1>1. Kept(Line(r), r)
  BY DEF NoLoss, LineInv
<1>2. Goal(Line(r)) = Wanted(r) /\ ~Shown(Line(r))
  BY LineIs DEF Goal, Wanted, Shown, InPlace
<1>3. CASE Coming(Line(r))
  <2>1. CASE Line(r).notes # <<>>
    <3>1. /\ notes[r] # <<>> /\ notes[r] \in Seq({"updated", "removed"})
      BY <2>1, LineIs DEF IInv, TypeOK
    <3>2. Last(notes[r]) \in {"updated", "removed"}
      BY <3>1 DEF Last
    <3>3. Last(notes[r]) = "removed" => Served(r) = 0
      BY <3>1 DEF Removals, Served
    <3> QED BY <3>1, <3>2, <3>3 DEF Pending
  <2>2. ASSUME NEW g \in InLine(Line(r)), Right(g, Line(r)), g.timestamp > Line(r).stamp PROVE Pending(r)
    <3>1. Brings(g.action, g.router, r) /\ Fresh(g, stamp[r])
      <4>1. stamp[r] \in Nat /\ g.timestamp \in Nat
        BY LineFields DEF NoLoss, LineInv, IInv, TypeOK
      <4> QED BY <2>2, <4>1, LineIs DEF Right, IsDelete, Brings, Fresh
    <3>2. CASE g \in Line(r).queue
      <4>1. g \in BagToSet(queue) /\ g.id = r
        BY <3>2, LineIs
      <4> QED BY <3>1, <4>1 DEF Pending, Helps
    <3>3. CASE g \in Range(Line(r).backlog)
      <4>1. PICK i \in DOMAIN backlog[r] : g = backlog[r][i]
        BY <3>3, LineIs DEF Range
      <4>2. g.id = r
        BY <4>1 DEF IInv, Owned, BacklogIsOfRouter
      <4> QED BY <3>1, <4>1, <4>2 DEF Pending, Helps
    <3> QED BY <3>2, <3>3 DEF InLine
  <2>3. ASSUME NEW x \in Line(r).work, GoodWork(x, Line(r)) PROVE Pending(r)
    <3>1. PICK w \in Workers : Busy(w, r) /\ x = work[w]
      BY LineIs
    <3> QED BY <2>3, <3>1, LineIs DEF Pending, Doing, GoodWork
  <2> QED BY <1>3, <2>1, <2>2, <2>3 DEF Coming
<1>4. CASE Served(r) = 0 /\ Remnant(Line(r), r)
  <2>1. Wanted(r) = 0
    BY <1>4 DEF Wanted
  <2>2. Syncing(Line(r)) => Line(r).asked = 1
    BY DEF NoLoss, LineInv, Shaped
  <2> QED BY <1>4, <2>1, <2>2, LineIs DEF Remnant, Pending
<1>5. CASE Line(r).asked = 1
  BY <1>5, LineIs DEF Pending
<1> QED BY <1>1, <1>2, <1>3, <1>4, <1>5, LineIs DEF Kept

(* A router that is not as the database wants it has something on its way that      *)
(* repairs it, or is one of those the code is known to lose: for any routers,       *)
(* threads, failures and restarts, skipping updates that are not newer than the     *)
(* data processed last (ExclusiveRouterProcessor, _process_router_update,           *)
(* fetch_and_sync_all_routers) loses no change of its own.                          *)
THEOREM SkippingLosesNothing == Spec => []NoLostUpdate
<1>1. Init => Removals
  BY DEF Init, Removals
<1>2. Init => NoLoss
  BY InitIInv, StartLine
<1>3. IInv /\ Removals /\ NoLoss /\ [Next]_vars => Removals' /\ NoLoss'
  BY RemovalsStay, NoLossStays
<1>4. IInv /\ Removals /\ NoLoss => NoLostUpdate
  BY NothingMissing
<1> QED BY <1>1, <1>2, <1>3, <1>4, Inductive, PTL DEF Spec
=============================================================================
