---------------------------- MODULE ConvergenceProof ----------------------------
(***************************************************************************)
(* Proofs about Convergence, for any templates, workers and requests: the  *)
(* state keeps its shape, though rows, graphs, messages and sync points    *)
(* are made from copies that may be old; and while nobody begins another   *)
(* traversal, what exists is known to some row, the resources are made in  *)
(* order, and the stack is said COMPLETE only when all are in service.     *)
(***************************************************************************)
EXTENDS Convergence, TLAPS, FiniteSetTheorems

USE TemplatesAssumption

(* What may be when u rows and resources have been made and f traversals begun. *)
RowsUpTo(u) ==
  [name : Names, tmpl : DOMAIN Def, action : Actions, status : Statuses, requires : SUBSET (1 .. u),
   replaces : Maybe(1 .. u), replacedBy : Maybe(1 .. u), real : Maybe(1 .. u), lock : Maybe(Workers)]
NodesUpTo(u) == [id : 1 .. u, update : BOOLEAN]
GraphsUpTo(u) ==
  {g \in [nodes : SUBSET NodesUpTo(u), edges : SUBSET (NodesUpTo(u) \X NodesUpTo(u))] :
     g.edges \subseteq g.nodes \X g.nodes}
StacksUpTo(u, f) ==
  [trav : 0 .. f, action : Actions, status : Statuses, tmpl : DOMAIN Def, prev : Maybe(DOMAIN Def),
   deps : GraphsUpTo(u), gone : BOOLEAN]
MessagesUpTo(u, f) == [id : 1 .. u, update : BOOLEAN, trav : 1 .. f, data : SUBSET (1 .. u)]
FoundUpTo(u) == UNION {[N -> [id : 1 .. u, row : RowsUpTo(u)]] : N \in SUBSET Names}
Goals == [tmpl : DOMAIN Def, action : Actions]

(* The labels of a thread that is about a message, one that makes for a template,  *)
(* and one that sets out on a traversal.                                           *)
Checking == {"lock", "disown", "discard", "begin", "work", "heir", "replace", "link", "unlock",
             "notify", "reload", "fail"}
Aiming == {"stop", "fail_stopped", "order", "wait", "converge"}
Starting == {"drop", "rows", "graph", "launch"}
Labels == {"idle", "rollback", "retrigger", "complete", "purge", "end", "erase", "remove"}
          \cup Checking \cup Aiming \cup Starting
Outcomes == {"create", "update", "delete", "done", "replace", "failed", "cancelled"}

ThreadsUpTo(u, f) ==
  [pc : Labels, msg : Maybe(MessagesUpTo(u, f)), stk : Maybe(StacksUpTo(u, f)), rsrc : Maybe(RowsUpTo(u)),
   out : Maybe(Outcomes \cup (1 .. u)), todo : SUBSET NodesUpTo(u), to : Maybe(Goals),
   seen : Maybe(FoundUpTo(u)), old : Maybe(0 .. f), cancelled : BOOLEAN]

(* A thread has the copies it works on, whatever it is doing. *)
Equipped(t, u, f) ==
  /\ t \in ThreadsUpTo(u, f)
  /\ t.pc # "idle" => t.stk \in StacksUpTo(u, f)
  /\ t.pc \in Aiming => t.to \in Goals
  /\ t.pc \in Starting => t.stk.trav # 0
  /\ t.pc \in Checking => t.msg \in MessagesUpTo(u, f) /\ t.rsrc \in RowsUpTo(u)
  /\ t.pc = "disown" => t.rsrc.replaces # None
  /\ t.pc \in {"retrigger", "link"} => t.out \in 1 .. u

RowsFit(r, u) == DOMAIN r \subseteq 1 .. u /\ \A i \in DOMAIN r : r[i] \in RowsUpTo(u)
PointsFit(q, u, f) ==
  \A k \in DOMAIN q : /\ k \in (1 .. f) \X (NodesUpTo(u) \cup {StackNode})
                      /\ DOMAIN q[k] \subseteq NodesUpTo(u)
                      /\ \A n \in DOMAIN q[k] : q[k][n] \in Maybe(1 .. u)
CrewFits(t, u, f) == t \in [Threads -> ThreadsUpTo(u, f)] /\ \A p \in Threads : Equipped(t[p], u, f)

Fits ==
  /\ used \in Nat /\ fresh \in Nat
  /\ stack \in StacksUpTo(used, fresh) /\ dropped \subseteq DOMAIN Def
  /\ RowsFit(rows, used) /\ DOMAIN phys \subseteq 1 .. used
  /\ PointsFit(points, used, fresh)
  /\ BagToSet(mail) \subseteq MessagesUpTo(used, fresh)
  /\ CrewFits(th, used, fresh)
  /\ orders \subseteq Workers
  /\ wish \in [Callers -> DOMAIN Def \cup {"delete", "rollback", None}]

(* What a worker is about to begin is what it found to do when it took the lock. *)
Intent(w) ==
  \/ th[w].out = "create" /\ Creates(w)
  \/ th[w].out = "update" /\ Changes(w)
  \/ th[w].out = "delete" /\ Deletes(w)
Resolved == \A w \in Workers : At(w, "begin") => Intent(w)

TInv == Fits /\ Resolved

-----------------------------------------------------------------------------
(* More rows, resources and traversals make room for more. *)

LEMMA Rising ==
  ASSUME NEW u \in Nat, NEW v \in Nat, NEW f \in Nat, NEW g \in Nat, u <= v, f <= g
  PROVE  /\ 1 .. u \subseteq 1 .. v /\ 0 .. f \subseteq 0 .. g /\ 1 .. f \subseteq 1 .. g
         /\ RowsUpTo(u) \subseteq RowsUpTo(v) /\ NodesUpTo(u) \subseteq NodesUpTo(v)
         /\ StacksUpTo(u, f) \subseteq StacksUpTo(v, g) /\ MessagesUpTo(u, f) \subseteq MessagesUpTo(v, g)
         /\ FoundUpTo(u) \subseteq FoundUpTo(v) /\ ThreadsUpTo(u, f) \subseteq ThreadsUpTo(v, g)
<1>1. 1 .. u \subseteq 1 .. v /\ 0 .. f \subseteq 0 .. g /\ 1 .. f \subseteq 1 .. g
  OBVIOUS
<1>2. RowsUpTo(u) \subseteq RowsUpTo(v)
  BY ONLY <1>1 DEF RowsUpTo, Maybe
<1>3. NodesUpTo(u) \subseteq NodesUpTo(v)
  BY ONLY <1>1 DEF NodesUpTo
<1>4. StacksUpTo(u, f) \subseteq StacksUpTo(v, g)
  <2>1. ASSUME NEW x \in GraphsUpTo(u) PROVE x \in GraphsUpTo(v)
    BY ONLY <1>3, <2>1 DEF GraphsUpTo
  <2> QED BY ONLY <1>1, <2>1 DEF StacksUpTo
<1>5. MessagesUpTo(u, f) \subseteq MessagesUpTo(v, g)
  BY ONLY <1>1 DEF MessagesUpTo
<1>6. FoundUpTo(u) \subseteq FoundUpTo(v)
  BY ONLY <1>1, <1>2 DEF FoundUpTo
<1>7. ThreadsUpTo(u, f) \subseteq ThreadsUpTo(v, g)
  BY ONLY <1>1, <1>2, <1>3, <1>4, <1>5, <1>6 DEF ThreadsUpTo, Maybe
<1> QED BY <1>1, <1>2, <1>3, <1>4, <1>5, <1>6, <1>7

LEMMA RoomForMore ==
  ASSUME NEW u \in Nat, NEW v \in Nat, NEW f \in Nat, NEW g \in Nat, u <= v, f <= g
  PROVE  /\ \A t : Equipped(t, u, f) => Equipped(t, v, g)
         /\ \A t : CrewFits(t, u, f) => CrewFits(t, v, g)
         /\ \A r : RowsFit(r, u) => RowsFit(r, v)
         /\ \A q : PointsFit(q, u, f) => PointsFit(q, v, g)
<1>1. ASSUME NEW t, Equipped(t, u, f) PROVE Equipped(t, v, g)
  BY Rising, <1>1 DEF Equipped
<1>2. ASSUME NEW t, CrewFits(t, u, f) PROVE CrewFits(t, v, g)
  BY Rising, <1>1, <1>2 DEF CrewFits
<1>3. ASSUME NEW r, RowsFit(r, u) PROVE RowsFit(r, v)
  BY Rising, <1>3 DEF RowsFit
<1>4. ASSUME NEW q, PointsFit(q, u, f) PROVE PointsFit(q, v, g)
  <2> SUFFICES ASSUME NEW k \in DOMAIN q
               PROVE  /\ k \in (1 .. g) \X (NodesUpTo(v) \cup {StackNode})
                      /\ DOMAIN q[k] \subseteq NodesUpTo(v)
                      /\ \A n \in DOMAIN q[k] : q[k][n] \in Maybe(1 .. v)
    BY DEF PointsFit
  <2>1. /\ k \in (1 .. f) \X (NodesUpTo(u) \cup {StackNode})
        /\ DOMAIN q[k] \subseteq NodesUpTo(u)
        /\ \A n \in DOMAIN q[k] : q[k][n] \in Maybe(1 .. u)
    BY <1>4 DEF PointsFit
  <2> QED BY Rising, <2>1 DEF Maybe
<1> QED BY <1>1, <1>2, <1>3, <1>4

-----------------------------------------------------------------------------
(* Records. *)

LEMMA StackFields ==
  ASSUME NEW u, NEW f, NEW s \in StacksUpTo(u, f)
  PROVE  /\ s.trav \in 0 .. f /\ s.tmpl \in DOMAIN Def /\ s.prev \in Maybe(DOMAIN Def) /\ s.status \in Statuses
         /\ s.action \in Actions /\ s.gone \in BOOLEAN
         /\ s.deps.nodes \subseteq NodesUpTo(u) /\ s.deps.edges \subseteq s.deps.nodes \X s.deps.nodes
BY DEF StacksUpTo, GraphsUpTo

LEMMA StackChanges ==
  ASSUME NEW u, NEW f, NEW s \in StacksUpTo(u, f)
  PROVE  /\ \A t \in 0 .. f : [s EXCEPT !.trav = t] \in StacksUpTo(u, f)
         /\ \A x \in Statuses : [s EXCEPT !.status = x] \in StacksUpTo(u, f)
         /\ \A x \in Statuses, a \in Actions : [s EXCEPT !.action = a, !.status = x] \in StacksUpTo(u, f)
         /\ \A x \in Maybe(DOMAIN Def) : [s EXCEPT !.prev = x] \in StacksUpTo(u, f)
         /\ \A g \in GraphsUpTo(u) : [s EXCEPT !.deps = g] \in StacksUpTo(u, f)
         /\ \A t \in 0 .. f, x \in Maybe(DOMAIN Def) : [s EXCEPT !.trav = t, !.prev = x] \in StacksUpTo(u, f)
         /\ \A x \in Maybe(DOMAIN Def), y \in Statuses : [s EXCEPT !.prev = x, !.status = y] \in StacksUpTo(u, f)
         /\ [s EXCEPT !.gone = TRUE] \in StacksUpTo(u, f)
BY DEF StacksUpTo

LEMMA RowFields ==
  ASSUME NEW u, NEW r \in RowsUpTo(u)
  PROVE  /\ r.name \in Names /\ r.tmpl \in DOMAIN Def /\ r.action \in Actions /\ r.status \in Statuses
         /\ r.requires \subseteq 1 .. u /\ r.replaces \in Maybe(1 .. u) /\ r.replacedBy \in Maybe(1 .. u)
         /\ r.real \in Maybe(1 .. u) /\ r.lock \in Maybe(Workers)
BY DEF RowsUpTo

LEMMA RowChanges ==
  ASSUME NEW u, NEW r \in RowsUpTo(u)
  PROVE  /\ \A x \in Maybe(Workers) : [r EXCEPT !.lock = x] \in RowsUpTo(u)
         /\ \A x \in Statuses : [r EXCEPT !.status = x] \in RowsUpTo(u)
         /\ \A x \in Statuses, a \in Actions : [r EXCEPT !.action = a, !.status = x] \in RowsUpTo(u)
         /\ \A x \in Maybe(1 .. u) : [r EXCEPT !.real = x] \in RowsUpTo(u)
         /\ \A x \in Maybe(1 .. u) : [r EXCEPT !.replaces = x] \in RowsUpTo(u)
         /\ \A x \in Statuses, i \in Maybe(1 .. u) : [r EXCEPT !.status = x, !.replacedBy = i] \in RowsUpTo(u)
         /\ \A a \in Actions : [r EXCEPT !.action = a] \in RowsUpTo(u)
         /\ \A t \in DOMAIN Def, q \in SUBSET (1 .. u) : [r EXCEPT !.tmpl = t, !.requires = q] \in RowsUpTo(u)
         /\ \A t \in DOMAIN Def, x \in Maybe(Workers) : [r EXCEPT !.tmpl = t, !.lock = x] \in RowsUpTo(u)
         /\ \A t \in DOMAIN Def, q \in SUBSET (1 .. u), x \in Maybe(Workers) :
               [r EXCEPT !.lock = x, !.tmpl = t, !.requires = q] \in RowsUpTo(u)
BY DEF RowsUpTo

LEMMA IdleFits == ASSUME NEW u, NEW f PROVE Equipped(Idle, u, f)
BY DEF Equipped, ThreadsUpTo, Idle, Maybe, Labels, Checking, Aiming, Starting

(* One thread goes on. *)
LEMMA OneMoves ==
  ASSUME Fits, used' \in Nat, fresh' \in Nat, used <= used', fresh <= fresh',
         NEW p \in Threads, NEW t, Equipped(t, used', fresh'), th' = [th EXCEPT ![p] = t]
  PROVE  CrewFits(th', used', fresh')
<1>1. CrewFits(th, used', fresh')
  BY RoomForMore DEF Fits
<1>2. t \in ThreadsUpTo(used', fresh')
  BY DEF Equipped
<1> QED BY <1>1, <1>2 DEF CrewFits

(* What a worker set out to do is read from its copies, which nobody else changes. *)
LEMMA IntentStays ==
  ASSUME NEW w \in Workers, th'[w].msg = th[w].msg, th'[w].stk = th[w].stk,
         th'[w].rsrc = th[w].rsrc, th'[w].out = th[w].out, Intent(w)
  PROVE  Intent(w)'
BY DEF Intent, Creates, Changes, Deletes, Replaces, Spared, Discards, Absent, Deleted, Update, Want, Have

LEMMA OthersResolved ==
  ASSUME TInv, NEW p \in Threads, NEW t, th' = [th EXCEPT ![p] = t],
         t.pc = "begin" /\ p \in Workers => Intent(p)'
  PROVE  Resolved'
<1>1. th \in [Threads -> ThreadsUpTo(used, fresh)]
  BY DEF TInv, Fits, CrewFits
<1>2. ASSUME NEW w \in Workers, At(w, "begin")' PROVE Intent(w)'
  <2>1. w \in Threads
    BY DEF Threads
  <2>2. CASE w = p
    BY <1>1, <1>2, <2>2 DEF At
  <2>3. CASE w # p
    <3>1. th'[w] = th[w]
      BY <1>1, <2>1, <2>3
    <3>2. Intent(w)
      BY <1>2, <3>1 DEF TInv, Resolved, At
    <3> QED BY <3>1, <3>2, IntentStays
  <2> QED BY <2>2, <2>3
<1> QED BY <1>2 DEF Resolved

LEMMA Crew ==
  ASSUME TInv
  PROVE  /\ used \in Nat /\ fresh \in Nat /\ th \in [Threads -> ThreadsUpTo(used, fresh)]
         /\ Workers \subseteq Threads /\ Callers \subseteq Threads
         /\ \A p \in Threads : Equipped(th[p], used, fresh)
BY DEF TInv, Fits, CrewFits, Threads

LEMMA Leaves1 ==
  ASSUME TInv, NEW p \in Threads, Leave(p), used' \in Nat, fresh' \in Nat, used <= used', fresh <= fresh'
  PROVE  CrewFits(th', used', fresh') /\ Resolved'
<1>1. th' = [th EXCEPT ![p] = Idle]
  BY DEF Leave
<1>2. Idle.pc # "begin"
  BY DEF Idle
<1> QED BY <1>1, <1>2, OneMoves, IdleFits, OthersResolved DEF TInv

(* One thread goes on, and all it works with is at hand. *)
LEMMA OneGoesOn ==
  ASSUME TInv, NEW p \in Threads, NEW t, th' = [th EXCEPT ![p] = t],
         used' \in Nat, fresh' \in Nat, used <= used', fresh <= fresh',
         Equipped(t, used', fresh'), t.pc # "begin"
  PROVE  CrewFits(th', used', fresh') /\ Resolved'
BY OneMoves, OthersResolved DEF TInv

LEMMA Goes ==
  ASSUME TInv, NEW p \in Threads, NEW label \in Labels \ {"idle", "begin", "disown", "retrigger", "link"},
         Goto(p, label), th[p].pc # "idle",
         label \in Aiming => th[p].pc \in Aiming, label \in Starting => th[p].pc \in Starting,
         label \in Checking => th[p].pc \in Checking,
         used' \in Nat, fresh' \in Nat, used <= used', fresh <= fresh'
  PROVE  CrewFits(th', used', fresh') /\ Resolved'
<1> DEFINE t == [th[p] EXCEPT !.pc = label]
<1>1. th' = [th EXCEPT ![p] = t]
  BY DEF Goto
<1>2. Equipped(th[p], used', fresh')
  BY Crew, RoomForMore
<1>3. th[p] \in ThreadsUpTo(used', fresh')
  BY <1>2 DEF Equipped
<1>4. t \in ThreadsUpTo(used', fresh') /\ t.pc = label
  BY <1>3 DEF ThreadsUpTo
<1>5. t.msg = th[p].msg /\ t.stk = th[p].stk /\ t.rsrc = th[p].rsrc /\ t.to = th[p].to
  BY <1>3 DEF ThreadsUpTo
<1> HIDE DEF t
<1>6. Equipped(t, used', fresh')
  BY <1>2, <1>4, <1>5 DEF Equipped
<1> QED BY <1>1, <1>4, <1>6, OneGoesOn

(* A worker goes on with its message. *)
LEMMA WorkerGoesOn ==
  ASSUME TInv, NEW w \in Workers, th[w].pc \in Checking, NEW label \in Checking \ {"begin", "disown", "link"},
         used' \in Nat, fresh' \in Nat, used <= used', fresh <= fresh',
         NEW out \in Maybe(Outcomes \cup (1 .. used')), NEW r \in RowsUpTo(used'),
         th' = [th EXCEPT ![w].pc = label, ![w].out = out, ![w].rsrc = r]
  PROVE  CrewFits(th', used', fresh') /\ Resolved'
<1> DEFINE t == [th[w] EXCEPT !.pc = label, !.out = out, !.rsrc = r]
<1>1. w \in Threads /\ th' = [th EXCEPT ![w] = t]
  BY Crew
<1>2. Equipped(th[w], used', fresh')
  BY <1>1, Crew, RoomForMore
<1>3. th[w] \in ThreadsUpTo(used', fresh') /\ th[w].pc # "idle"
  BY <1>2 DEF Equipped, Checking
<1>4. label \in Labels /\ r \in Maybe(RowsUpTo(used'))
  BY DEF Labels, Maybe
<1>5. t \in ThreadsUpTo(used', fresh') /\ t.pc = label /\ t.rsrc = r
  BY ONLY <1>3, <1>4, out \in Maybe(Outcomes \cup (1 .. used')) DEF ThreadsUpTo
<1>6. t.msg = th[w].msg /\ t.stk = th[w].stk
  BY ONLY <1>3 DEF ThreadsUpTo
<1> HIDE DEF t
<1>7. label \notin Aiming /\ label \notin Starting /\ label \notin {"idle", "begin", "disown", "link", "retrigger"}
  BY DEF Aiming, Starting, Checking
<1>8. Equipped(t, used', fresh')
  BY <1>2, <1>3, <1>5, <1>6, <1>7 DEF Equipped
<1> QED BY <1>1, <1>5, <1>7, <1>8, OneGoesOn

LEMMA OthersFit ==
  ASSUME TInv, used' \in Nat, fresh' \in Nat, used <= used', fresh <= fresh'
  PROVE  /\ stack \in StacksUpTo(used', fresh') /\ RowsFit(rows, used') /\ DOMAIN phys \subseteq 1 .. used'
         /\ PointsFit(points, used', fresh') /\ BagToSet(mail) \subseteq MessagesUpTo(used', fresh')
         /\ CrewFits(th, used', fresh') /\ 1 .. used \subseteq 1 .. used'
BY Rising, RoomForMore DEF TInv, Fits

-----------------------------------------------------------------------------
(* Rows, points and mail. *)

LEMMA RowWritten ==
  ASSUME NEW u, RowsFit(rows, u), NEW id \in DOMAIN rows, NEW r \in RowsUpTo(u), NEW q,
         q = [rows EXCEPT ![id] = r]
  PROVE  RowsFit(q, u) /\ DOMAIN q = DOMAIN rows
BY DEF RowsFit

LEMMA RowStored ==
  ASSUME NEW u, RowsFit(rows, u), NEW id \in DOMAIN rows, NEW r \in RowsUpTo(u), Store(id, r)
  PROVE  RowsFit(rows', u)
<1>1. rows[id].lock \in Maybe(Workers)
  BY RowFields DEF RowsFit
<1>2. [r EXCEPT !.lock = rows[id].lock] \in RowsUpTo(u)
  BY <1>1, RowChanges
<1> QED BY <1>2, RowWritten DEF Store

LEMMA RowsDropped ==
  ASSUME NEW u, RowsFit(rows, u), NEW S \in SUBSET DOMAIN rows
  PROVE  RowsFit(Restrict(rows, S), u)
BY DEF RowsFit, Restrict

LEMMA RowsPurged == ASSUME NEW u, RowsFit(rows, u) PROVE RowsFit(RestrictValues(rows, LAMBDA r : ~Deleted(r)), u)
BY DEF RowsFit, Restrict, RestrictValues

LEMMA PointsDropped ==
  ASSUME NEW u, NEW f, PointsFit(points, u, f), NEW trav, DropPoints(trav)
  PROVE  PointsFit(points', u, f)
BY DEF PointsFit, DropPoints, RestrictDomain, Restrict

LEMMA Posted ==
  ASSUME NEW u, NEW f, BagToSet(mail) \subseteq MessagesUpTo(u, f), NEW S \in SUBSET MessagesUpTo(u, f), Post(S)
  PROVE  BagToSet(mail') \subseteq MessagesUpTo(u, f)
BY DEF Post, BagToSet, SetToBag, (+)

LEMMA PointWritten ==
  ASSUME NEW u, NEW f, PointsFit(points, u, f), NEW k \in DOMAIN points,
         NEW from \in NodesUpTo(u), NEW data \in Maybe(1 .. u), NEW input, input = With(points[k], from, data),
         points' = [points EXCEPT ![k] = input]
  PROVE  /\ PointsFit(points', u, f)
         /\ Range(input) \ {None} \subseteq 1 .. u
<1>1. DOMAIN input \subseteq NodesUpTo(u) /\ \A n \in DOMAIN input : input[n] \in Maybe(1 .. u)
  BY DEF PointsFit, With
<1>2. Range(input) \ {None} \subseteq 1 .. u
  BY <1>1 DEF Range, Maybe
<1>3. PointsFit(points', u, f)
  BY <1>1 DEF PointsFit
<1> QED BY <1>2, <1>3

LEMMA Notified ==
  ASSUME NEW u, NEW f, PointsFit(points, u, f), BagToSet(mail) \subseteq MessagesUpTo(u, f),
         NEW trav, NEW node \in NodesUpTo(u), Present(trav, node), NEW from \in NodesUpTo(u),
         NEW data \in Maybe(1 .. u), NEW preds, Notify(trav, node, from, data, preds)
  PROVE  PointsFit(points', u, f) /\ BagToSet(mail') \subseteq MessagesUpTo(u, f)
<1> DEFINE k == <<trav, node>>
           input == Joined(trav, node, from, data)
           message == Message(trav, node, Range(input) \ {None})
<1>1. k \in DOMAIN points /\ input = With(points[k], from, data) /\ points' = [points EXCEPT ![k] = input]
  BY DEF Present, Joined, Notify, With
<1>2. trav \in 1 .. f
  BY <1>1 DEF PointsFit
<1> HIDE DEF input
<1>3. PointsFit(points', u, f) /\ Range(input) \ {None} \subseteq 1 .. u
  BY <1>1, PointWritten
<1>4. message \in MessagesUpTo(u, f)
  BY <1>2, <1>3 DEF Message, MessagesUpTo, NodesUpTo
<1>5. Post({message}) \/ mail' = mail
  BY DEF Notify, input
<1> QED BY <1>3, <1>4, <1>5, Posted

-----------------------------------------------------------------------------
(* The choices made by CHOOSE are there to be made. *)

LEMMA HighestExists ==
  ASSUME NEW u \in Nat, NEW S \in SUBSET (1 .. u), S # {}
  PROVE  Max(S) \in S /\ \A x \in S : Max(S) >= x
<1> DEFINE Bounds == {n \in Nat : \A x \in S : n >= x}
<1>1. u \in Bounds /\ Bounds \subseteq Nat
  OBVIOUS
<1>2. PICK n \in Bounds : \A m \in Bounds : ~(<<m, n>> \in OpToRel(<, Nat))
  BY <1>1, NatLessThanWellFounded, WFMin
<1>3. \A m \in Bounds : ~(m < n)
  BY <1>2 DEF OpToRel
<1>4. n \in S
  <2> SUFFICES ASSUME n \notin S PROVE FALSE
    OBVIOUS
  <2>1. \A x \in S : x < n
    OBVIOUS
  <2>2. PICK x \in S : x \in 1 .. u
    OBVIOUS
  <2>3. n - 1 \in Bounds
    BY <2>1, <2>2
  <2> QED BY <1>3, <2>3
<1>5. \E x \in S : \A y \in S : x >= y
  BY <1>4
<1> QED BY <1>5 DEF Max

LEMMA NumberingExists ==
  ASSUME NEW u \in Nat, NEW S, IsFiniteSet(S)
  PROVE  /\ Cardinality(S) \in Nat
         /\ \E g \in [S -> u + 1 .. u + Cardinality(S)] : IsInjective(g)
<1> DEFINE c == Cardinality(S)
<1>1. c \in Nat /\ ExistsBijection(1 .. c, S)
  BY FS_CardinalityType
<1>2. PICK b \in Bijection(1 .. c, S) : TRUE
  BY <1>1 DEF ExistsBijection
<1>3. b \in [1 .. c -> S] /\ IsInjective(b) /\ \A x \in S : \E i \in 1 .. c : b[i] = x
  BY <1>2 DEF Bijection, Injection, Surjection
<1> HIDE DEF c
<1> DEFINE at == [x \in S |-> CHOOSE i \in 1 .. c : b[i] = x]
           g == [x \in S |-> u + at[x]]
<1>4. \A x \in S : at[x] \in 1 .. c /\ b[at[x]] = x
  BY <1>3
<1> HIDE DEF at
<1>5. g \in [S -> u + 1 .. u + c]
  BY <1>1, <1>4
<1>6. IsInjective(g)
  <2> SUFFICES ASSUME NEW x \in S, NEW y \in S, g[x] = g[y] PROVE x = y
    BY DEF IsInjective
  <2>1. at[x] = at[y]
    BY <1>1, <1>4
  <2> QED BY <1>4, <2>1
<1> QED BY <1>1, <1>5, <1>6 DEF c

LEMMA ByNameFits ==
  ASSUME NEW u \in Nat, RowsFit(rows, u)
  PROVE  ByName \in FoundUpTo(u)
<1> DEFINE N == {rows[i].name : i \in DOMAIN rows}
           Of(n) == {j \in DOMAIN rows : rows[j].name = n}
<1>1. N \subseteq Names
  BY RowFields DEF RowsFit
<1>2. ASSUME NEW n \in N PROVE [id |-> Max(Of(n)), row |-> rows[Max(Of(n))]] \in [id : 1 .. u, row : RowsUpTo(u)]
  <2>1. Of(n) # {} /\ Of(n) \subseteq 1 .. u
    BY DEF RowsFit
  <2>2. Max(Of(n)) \in Of(n)
    BY <2>1, HighestExists
  <2> QED BY <2>2 DEF RowsFit
<1>3. ByName = [n \in N |-> [id |-> Max(Of(n)), row |-> rows[Max(Of(n))]]]
  BY DEF ByName
<1> HIDE DEF N, Of
<1>4. ByName \in [N -> [id : 1 .. u, row : RowsUpTo(u)]]
  BY <1>2, <1>3
<1> QED BY <1>1, <1>4 DEF FoundUpTo

-----------------------------------------------------------------------------
(* Requests. *)

LEMMA StopFits == ASSUME TInv, NEW c \in Callers, Stop(c) PROVE TInv'
<1> DEFINE t == [th[c] EXCEPT !.stk.trav = fresh + 1, !.old = th[c].stk.trav,
                      !.pc = IF Current(c) THEN "fail_stopped" ELSE "order"]
<1>1. c \in Threads /\ th' = [th EXCEPT ![c] = t] /\ fresh' = fresh + 1 /\ used' = used
  BY Crew DEF Stop
<1>2. fresh' \in Nat /\ used' \in Nat /\ fresh <= fresh' /\ used <= used'
  BY <1>1, Crew
<1>3. Equipped(th[c], used', fresh') /\ th[c].pc = "stop"
  BY <1>1, <1>2, Crew, RoomForMore DEF Stop, At
<1>4. th[c].stk \in StacksUpTo(used', fresh') /\ th[c].to \in Goals /\ th[c] \in ThreadsUpTo(used', fresh')
  BY <1>3 DEF Equipped, Aiming
<1>5. [th[c].stk EXCEPT !.trav = fresh + 1] \in StacksUpTo(used', fresh')
  <2>1. fresh + 1 \in 0 .. fresh'
    BY <1>1, <1>2, Crew
  <2> QED BY ONLY <2>1, <1>4, StackChanges
<1>6. th[c].stk.trav \in 0 .. fresh'
  BY <1>4, StackFields
<1>7. Equipped(t, used', fresh') /\ t.pc # "begin"
  <2>1. t.pc \in {"fail_stopped", "order"} /\ t.stk = [th[c].stk EXCEPT !.trav = fresh + 1] /\ t.to = th[c].to
    BY ONLY <1>4 DEF ThreadsUpTo
  <2>2. t \in ThreadsUpTo(used', fresh')
    <3> DEFINE pc == IF Current(c) THEN "fail_stopped" ELSE "order"
               s == [th[c].stk EXCEPT !.trav = fresh + 1]
    <3>1. pc \in Labels /\ s \in Maybe(StacksUpTo(used', fresh')) /\ th[c].stk.trav \in Maybe(0 .. fresh')
      BY ONLY <1>5, <1>6 DEF Labels, Aiming, Maybe
    <3>2. t = [th[c] EXCEPT !.stk = s, !.old = th[c].stk.trav, !.pc = pc]
      OBVIOUS
    <3> HIDE DEF pc, s, t
    <3> QED BY ONLY <1>4, <3>1, <3>2 DEF ThreadsUpTo
  <2> QED BY ONLY <1>4, <1>5, <2>1, <2>2 DEF Equipped, Checking, Aiming, Starting
<1>8. CrewFits(th', used', fresh') /\ Resolved'
  BY <1>1, <1>2, <1>7, OneGoesOn
<1>9. stack' \in StacksUpTo(used', fresh')
  <2>1. stack \in StacksUpTo(used', fresh') /\ fresh + 1 \in 0 .. fresh'
    BY <1>1, <1>2, Crew, Rising DEF TInv, Fits
  <2> QED BY <2>1, StackChanges DEF Stop
<1>10. RowsFit(rows', used') /\ PointsFit(points', used', fresh')
  BY <1>1, <1>2, Crew, RoomForMore DEF TInv, Fits, Stop
<1>11. BagToSet(mail') \subseteq MessagesUpTo(used', fresh')
  BY <1>1, <1>2, Crew, Rising DEF TInv, Fits, Stop
<1> QED BY <1>1, <1>2, <1>8, <1>9, <1>10, <1>11 DEF TInv, Fits, Stop

LEMMA RequestFits == ASSUME TInv, NEW c \in Callers, Request(c) PROVE TInv'
<1>1. c \in Threads /\ used' = used /\ fresh' = fresh
  BY Crew DEF Request
<1>2. used' \in Nat /\ fresh' \in Nat /\ used <= used' /\ fresh <= fresh'
  BY <1>1, Crew
<1> DEFINE what == wish[c]
<1>3. what \in DOMAIN Def \cup {"delete", "rollback"} /\ wish' = [wish EXCEPT ![c] = None]
  BY DEF Request, TInv, Fits
<1>4. stack \in StacksUpTo(used, fresh) /\ stack \in Maybe(StacksUpTo(used, fresh))
  BY DEF TInv, Fits, Maybe
<1>5. Idle \in ThreadsUpTo(used, fresh)
  BY IdleFits DEF Equipped
<1>6. CrewFits(th', used', fresh') /\ Resolved'
  <2>1. CASE UNCHANGED th
    <3>1. Resolved'
      BY <2>1, IntentStays DEF TInv, Resolved, At
    <3> QED BY <1>1, <2>1, <3>1 DEF TInv, Fits
  <2>2. CASE Accept(c, what)
    <3> DEFINE start == [Idle EXCEPT !.stk = stack]
    <3>0. start \in ThreadsUpTo(used, fresh) /\ start.stk = stack
      BY <1>4, <1>5 DEF ThreadsUpTo
    <3>1. CASE what = "rollback"
      <4> DEFINE t == [start EXCEPT !.pc = "rollback"]
      <4>1. th' = [th EXCEPT ![c] = t]
        BY <2>2, <3>1 DEF Accept
      <4>2. t \in ThreadsUpTo(used, fresh) /\ t.pc = "rollback" /\ t.stk = stack
        BY <3>0 DEF ThreadsUpTo, Labels
      <4> HIDE DEF t
      <4>3. Equipped(t, used, fresh)
        BY <1>4, <4>2 DEF Equipped, Aiming, Starting, Checking
      <4> QED BY <1>1, <1>2, <4>1, <4>2, <4>3, OneGoesOn
    <3>2. CASE what # "rollback" /\ what = "delete"
      <4> DEFINE label == IF stack.status = "IN_PROGRESS" THEN "stop" ELSE "order"
                 goal == [tmpl |-> Empty, action |-> "DELETE"]
                 t == [start EXCEPT !.pc = label, !.to = goal]
      <4>1. th' = [th EXCEPT ![c] = t]
        BY <2>2, <3>2 DEF Accept
      <4>2. label \in Aiming /\ label \in Labels /\ goal \in Goals /\ goal \in Maybe(Goals)
        BY DEF Aiming, Labels, Goals, Maybe, Actions
      <4> HIDE DEF label, goal, start
      <4>3. t \in ThreadsUpTo(used, fresh) /\ t.pc = label /\ t.stk = stack /\ t.to = goal
        BY <3>0, <4>2 DEF ThreadsUpTo
      <4> HIDE DEF t
      <4>4. Equipped(t, used, fresh) /\ t.pc # "begin"
        BY <1>4, <4>2, <4>3 DEF Equipped, Aiming, Starting, Checking
      <4> QED BY <1>1, <1>2, <4>1, <4>4, OneGoesOn
    <3>3. CASE what # "rollback" /\ what # "delete"
      <4> DEFINE goal == [tmpl |-> what, action |-> "UPDATE"]
                 t == [start EXCEPT !.pc = "converge", !.seen = ByName, !.to = goal]
      <4>1. th' = [th EXCEPT ![c] = t]
        BY <2>2, <3>3 DEF Accept
      <4>2. goal \in Goals /\ goal \in Maybe(Goals) /\ "converge" \in Labels
        BY <1>3, <3>3 DEF Aiming, Labels, Goals, Maybe, Actions
      <4>3. ByName \in Maybe(FoundUpTo(used))
        BY ByNameFits DEF TInv, Fits, Maybe
      <4> HIDE DEF goal, start
      <4>4. t \in ThreadsUpTo(used, fresh) /\ t.pc = "converge" /\ t.stk = stack /\ t.to = goal
        BY <3>0, <4>2, <4>3 DEF ThreadsUpTo
      <4> HIDE DEF t
      <4>5. Equipped(t, used, fresh) /\ t.pc # "begin"
        BY <1>4, <4>2, <4>4 DEF Equipped, Aiming, Starting, Checking
      <4> QED BY <1>1, <1>2, <4>1, <4>5, OneGoesOn
    <3> QED BY <3>1, <3>2, <3>3
  <2> QED BY <2>1, <2>2 DEF Request
<1>7. wish' \in [Callers -> DOMAIN Def \cup {"delete", "rollback", None}]
  BY <1>3 DEF TInv, Fits
<1> QED BY <1>1, <1>2, <1>6, <1>7, OthersFit DEF TInv, Fits, Request

LEMMA FailStoppedFits == ASSUME TInv, NEW c \in Callers, FailStopped(c) PROVE TInv'
<1>1. c \in Threads /\ used' = used /\ fresh' = fresh
  BY Crew DEF FailStopped
<1>2. used' \in Nat /\ fresh' \in Nat /\ used <= used' /\ fresh <= fresh'
  BY <1>1, Crew
<1>3. Equipped(th[c], used, fresh) /\ th[c].pc = "fail_stopped"
  BY <1>1, Crew DEF FailStopped, At
<1>4. th[c].stk \in StacksUpTo(used, fresh) /\ th[c].to \in Goals /\ th[c] \in ThreadsUpTo(used, fresh)
  BY <1>3 DEF Equipped, Aiming
<1>5. CrewFits(th', used', fresh') /\ Resolved'
  <2> DEFINE s == [th[c].stk EXCEPT !.status = "FAILED"]
             t == [th[c] EXCEPT !.pc = "order", !.stk = s]
  <2>1. th' = [th EXCEPT ![c] = t]
    <3>1. th' = [th EXCEPT ![c].pc = "order", ![c].stk.status = "FAILED"]
      BY DEF FailStopped
    <3> QED BY ONLY <1>1, <3>1, Crew, TInv
  <2>2. "FAILED" \in Statuses
    BY DEF Statuses
  <2>3. s \in StacksUpTo(used, fresh) /\ s \in Maybe(StacksUpTo(used, fresh)) /\ "order" \in Labels
    BY <1>4, <2>2, StackChanges DEF Maybe, Labels, Aiming
  <2> HIDE DEF s
  <2>4. t \in ThreadsUpTo(used, fresh) /\ t.pc = "order" /\ t.stk = s /\ t.to = th[c].to
    BY ONLY <1>4, <2>3 DEF ThreadsUpTo
  <2> HIDE DEF t
  <2>5. Equipped(t, used, fresh)
    BY <1>4, <2>3, <2>4 DEF Equipped, Aiming, Starting, Checking
  <2> QED BY <1>1, <1>2, <2>1, <2>4, <2>5, OneGoesOn
<1>6. stack' \in StacksUpTo(used, fresh)
  <2>1. th[c].stk.action \in Actions /\ "FAILED" \in Statuses /\ stack \in StacksUpTo(used, fresh)
    BY <1>4, StackFields DEF Statuses, TInv, Fits
  <2>2. [stack EXCEPT !.action = th[c].stk.action, !.status = "FAILED"] \in StacksUpTo(used, fresh)
    BY ONLY <2>1, StackChanges
  <2> QED BY <2>1, <2>2 DEF FailStopped
<1>7. PointsFit(points', used, fresh)
  BY PointsDropped DEF TInv, Fits, FailStopped
<1> QED BY <1>1, <1>2, <1>5, <1>6, <1>7, OthersFit DEF TInv, Fits, FailStopped

LEMMA OrderFits == ASSUME TInv, NEW c \in Callers, Order(c) PROVE TInv'
<1>1. c \in Threads /\ used' = used /\ fresh' = fresh /\ th[c].pc = "order"
  BY Crew DEF Order, At
<1>2. used' \in Nat /\ fresh' \in Nat /\ used <= used' /\ fresh <= fresh'
  BY <1>1, Crew
<1>3. CrewFits(th', used', fresh') /\ Resolved'
  BY <1>1, <1>2, Goes DEF Order, Labels, Aiming, Starting, Checking
<1>4. orders' \subseteq Workers
  <2>1. \A i \in DOMAIN rows : rows[i].lock \in Maybe(Workers)
    BY RowFields DEF TInv, Fits, RowsFit
  <2> QED BY <2>1 DEF Order, Maybe, TInv, Fits
<1> QED BY <1>1, <1>2, <1>3, <1>4 DEF TInv, Fits, Order

LEMMA WaitFits == ASSUME TInv, NEW c \in Callers, Wait(c) PROVE TInv'
<1>1. c \in Threads /\ used' = used /\ fresh' = fresh /\ th[c].pc = "wait" /\ Goto(c, "converge")
  BY Crew DEF Wait, At
<1>2. used' \in Nat /\ fresh' \in Nat /\ used <= used' /\ fresh <= fresh'
  BY <1>1, Crew
<1>3. CrewFits(th', used', fresh') /\ Resolved'
  BY <1>1, <1>2, Goes DEF Labels, Aiming, Starting, Checking
<1> QED BY <1>1, <1>2, <1>3 DEF TInv, Fits, Wait

LEMMA CancelFits == ASSUME TInv, NEW w \in Workers, Cancel(w) PROVE TInv'
<1>1. w \in Threads /\ used' = used /\ fresh' = fresh
  BY Crew DEF Cancel
<1>2. used' \in Nat /\ fresh' \in Nat /\ used <= used' /\ fresh <= fresh'
  BY <1>1, Crew
<1> DEFINE t == [th[w] EXCEPT !.cancelled = TRUE]
<1>3. th' = th \/ th' = [th EXCEPT ![w] = t]
  BY DEF Cancel
<1>4. th[w] \in ThreadsUpTo(used, fresh) /\ Equipped(th[w], used, fresh)
  BY <1>1, Crew DEF Equipped
<1>5. t \in ThreadsUpTo(used, fresh)
  BY <1>4 DEF ThreadsUpTo
<1>6. /\ t.pc = th[w].pc /\ t.msg = th[w].msg /\ t.stk = th[w].stk /\ t.rsrc = th[w].rsrc
      /\ t.out = th[w].out /\ t.to = th[w].to
  BY <1>4 DEF ThreadsUpTo
<1> HIDE DEF t
<1>7. Equipped(t, used, fresh)
  BY <1>4, <1>5, <1>6 DEF Equipped
<1>8. CrewFits(th', used', fresh')
  BY <1>1, <1>2, <1>3, <1>7, OneMoves DEF TInv, Fits
<1>9. Resolved'
  <2>1. CASE th' = th
    BY <2>1, IntentStays DEF TInv, Resolved, At
  <2>2. CASE th' = [th EXCEPT ![w] = t]
    <3>1. th'[w] = t
      BY <1>1, <2>2, Crew
    <3>2. t.pc = "begin" => Intent(w)'
      <4> SUFFICES ASSUME t.pc = "begin" PROVE Intent(w)'
        OBVIOUS
      <4>1. Intent(w)
        BY <1>6 DEF TInv, Resolved, At
      <4> QED BY <1>6, <3>1, <4>1, IntentStays
    <3> QED BY <1>1, <2>2, <3>2, OthersResolved
  <2> QED BY <1>3, <2>1, <2>2
<1>10. orders' \subseteq Workers
  BY DEF Cancel, TInv, Fits
<1> QED BY <1>1, <1>2, <1>8, <1>9, <1>10 DEF TInv, Fits, Cancel

LEMMA RollbackFits == ASSUME TInv, NEW p \in Threads, Rollback(p) PROVE TInv'
<1>1. used' = used /\ fresh' = fresh /\ th[p].pc = "rollback"
  BY DEF Rollback, At
<1>2. used' \in Nat /\ fresh' \in Nat /\ used <= used' /\ fresh <= fresh'
  BY <1>1, Crew
<1> DEFINE s == th[p].stk
           s2 == [s EXCEPT !.prev = None]
           t(x) == [th[p] EXCEPT !.pc = "converge", !.stk = s2, !.to = [tmpl |-> x, action |-> "ROLLBACK"]]
<1>3. th[p] \in ThreadsUpTo(used, fresh) /\ s \in StacksUpTo(used, fresh)
  BY <1>1, Crew DEF Equipped
<1>4. s2 \in StacksUpTo(used, fresh) /\ s2 \in Maybe(StacksUpTo(used, fresh))
  BY <1>3, StackChanges DEF Maybe
<1>5. ASSUME NEW x \in DOMAIN Def, th' = [th EXCEPT ![p] = t(x)] PROVE CrewFits(th', used', fresh') /\ Resolved'
  <2> DEFINE goal == [tmpl |-> x, action |-> "ROLLBACK"]
             new == [th[p] EXCEPT !.pc = "converge", !.stk = s2, !.to = goal]
  <2>1. goal \in Goals /\ goal \in Maybe(Goals) /\ "converge" \in Labels
    BY DEF Goals, Maybe, Actions, Labels, Aiming
  <2>2. th' = [th EXCEPT ![p] = new]
    BY <1>5
  <2> HIDE DEF goal, s2
  <2>3. new \in ThreadsUpTo(used, fresh) /\ new.pc = "converge" /\ new.stk = s2 /\ new.to = goal
    BY ONLY <1>3, <1>4, <2>1 DEF ThreadsUpTo
  <2> HIDE DEF new
  <2>4. Equipped(new, used, fresh) /\ new.pc # "begin"
    BY <1>4, <2>1, <2>3 DEF Equipped, Aiming, Starting, Checking
  <2> QED BY <1>1, <1>2, <2>2, <2>4, OneGoesOn
<1>6. CASE s.prev = None /\ th' = [th EXCEPT ![p] = t(Empty)] /\ UNCHANGED stack
  BY <1>1, <1>2, <1>5, <1>6 DEF TInv, Fits, Rollback
<1>7. CASE s.prev # None /\ th' = [th EXCEPT ![p] = t(s.prev)] /\ stack' = s2
  <2>1. s.prev \in DOMAIN Def
    BY <1>3, <1>7, StackFields DEF Maybe
  <2>2. CrewFits(th', used', fresh') /\ Resolved'
    BY <1>5, <1>7, <2>1
  <2> QED BY <1>1, <1>2, <1>4, <1>7, <2>2 DEF TInv, Fits, Rollback
<1>8. CASE Leave(p) /\ UNCHANGED stack
  BY <1>1, <1>2, <1>8, Leaves1 DEF TInv, Fits, Rollback
<1>9. ASSUME NEW x,
             th' = [th EXCEPT ![p].pc = "converge", ![p].stk.prev = None, ![p].to = [tmpl |-> x, action |-> "ROLLBACK"]]
      PROVE  th' = [th EXCEPT ![p] = t(x)]
  <2>1. th \in [Threads -> ThreadsUpTo(used, fresh)]
    BY Crew
  <2> QED BY ONLY <1>9, <2>1, p \in Threads
<1> HIDE DEF t
<1> QED BY <1>6, <1>7, <1>8, <1>9 DEF Rollback

-----------------------------------------------------------------------------
(* Traversals. *)

LEMMA ConvergeFits == ASSUME TInv, NEW p \in Threads, Converge(p) PROVE TInv'
<1> DEFINE s  == th[p].stk
           to == th[p].to
           s2 == [s EXCEPT !.trav = fresh + 1, !.action = to.action, !.status = "IN_PROGRESS",
                           !.tmpl = to.tmpl, !.prev = s.tmpl]
           t  == [th[p] EXCEPT !.stk = s2, !.pc = "drop", !.old = s.trav, !.to = None]
<1>1. th[p] \in ThreadsUpTo(used, fresh) /\ s \in StacksUpTo(used, fresh) /\ to \in Goals /\ used' = used
  BY Crew DEF Equipped, Converge, At, Aiming
<1>2. CASE Leave(p) /\ UNCHANGED <<stack, fresh>>
  BY <1>1, <1>2, Crew, Leaves1 DEF TInv, Fits, Converge
<1>3. CASE /\ stack' = s2 /\ fresh' = fresh + 1
           /\ th' = [th EXCEPT ![p].stk = s2, ![p].pc = "drop", ![p].old = s.trav, ![p].to = None]
  <2>1. used' \in Nat /\ fresh' \in Nat /\ used <= used' /\ fresh <= fresh' /\ fresh + 1 \in 0 .. fresh' /\ fresh + 1 # 0
    BY <1>1, <1>3, Crew
  <2>2. th[p] \in ThreadsUpTo(used', fresh') /\ s \in StacksUpTo(used', fresh')
    BY <1>1, <2>1, Crew, Rising
  <2>3. s2 \in StacksUpTo(used', fresh') /\ s2.trav = fresh + 1
    BY <1>1, <2>1, <2>2 DEF StacksUpTo, Goals, Statuses, Maybe
  <2>4. s.trav \in Maybe(0 .. fresh') /\ s2 \in Maybe(StacksUpTo(used', fresh')) /\ "drop" \in Labels /\ None \in Maybe(Goals)
    BY <2>2, <2>3, StackFields DEF Maybe, Labels, Starting
  <2>5. th' = [th EXCEPT ![p] = t]
    <3>1. th \in [Threads -> ThreadsUpTo(used, fresh)]
      BY Crew
    <3> QED BY ONLY <1>3, <3>1, p \in Threads
  <2> HIDE DEF s2
  <2>6. t \in ThreadsUpTo(used', fresh') /\ t.pc = "drop" /\ t.stk = s2
    BY ONLY <2>2, <2>4 DEF ThreadsUpTo
  <2> HIDE DEF t
  <2>7. Equipped(t, used', fresh')
    BY <2>1, <2>3, <2>6 DEF Equipped, Aiming, Starting, Checking
  <2>8. CrewFits(th', used', fresh') /\ Resolved'
    BY <2>1, <2>5, <2>6, <2>7, OneGoesOn
  <2>9. UNCHANGED <<dropped, rows, phys, points, mail, wish, orders>>
    BY DEF Converge
  <2> QED BY <1>3, <2>1, <2>3, <2>8, <2>9, OthersFit DEF TInv, Fits
<1> QED BY <1>2, <1>3 DEF Converge

LEMMA DropFits == ASSUME TInv, NEW p \in Threads, Drop(p) PROVE TInv'
<1> DEFINE t == [th[p] EXCEPT !.pc = "rows", !.old = None]
<1>1. used' = used /\ fresh' = fresh /\ th[p].pc = "drop" /\ Equipped(th[p], used, fresh)
  BY Crew DEF Drop, At
<1>2. used' \in Nat /\ fresh' \in Nat /\ used <= used' /\ fresh <= fresh'
  BY <1>1, Crew
<1>3. th[p] \in ThreadsUpTo(used, fresh) /\ th[p].stk \in StacksUpTo(used, fresh) /\ th[p].stk.trav # 0
  BY <1>1 DEF Equipped, Starting
<1>4. None \in Maybe(0 .. fresh) /\ "rows" \in Labels
  BY DEF Maybe, Labels, Starting
<1>5. t \in ThreadsUpTo(used, fresh) /\ t.pc = "rows" /\ t.stk = th[p].stk
  BY ONLY <1>3, <1>4 DEF ThreadsUpTo
<1>6. th' = [th EXCEPT ![p] = t]
  BY Crew DEF Drop
<1> HIDE DEF t
<1>7. Equipped(t, used, fresh)
  BY <1>3, <1>5 DEF Equipped, Aiming, Starting, Checking
<1>8. CrewFits(th', used', fresh') /\ Resolved'
  BY <1>1, <1>2, <1>5, <1>6, <1>7, OneGoesOn
<1>9. PointsFit(points', used, fresh)
  BY PointsDropped DEF TInv, Fits, Drop
<1> QED BY <1>1, <1>8, <1>9 DEF TInv, Fits, Drop

LEMMA GraphShape ==
  ASSUME NEW t, NEW cur, NEW found
  PROVE  GraphOf(t, cur, found) =
     [nodes |-> {Node(cur[n], TRUE) : n \in DOMAIN cur} \cup {Node(i, FALSE) : i \in DOMAIN found},
      edges |-> {e \in {Node(cur[n], TRUE) : n \in DOMAIN cur} \X {Node(cur[n], TRUE) : n \in DOMAIN cur} :
                   \E n \in DOMAIN cur : \E m \in Def[t][n].needs : e[1].id = cur[n] /\ e[2].id = cur[m]}
                \cup {e \in {Node(i, FALSE) : i \in DOMAIN found} \X {Node(i, FALSE) : i \in DOMAIN found} :
                   e[1].id \in found[e[2].id].requires \/ e[1].id = found[e[2].id].replaces}
                \cup {<<Node(i, FALSE), Node(i, TRUE)>> : i \in DOMAIN found \cap Range(cur)}]
BY DEF GraphOf, Pairs

LEMMA GraphFits ==
  ASSUME NEW u \in Nat, NEW t, NEW cur, NEW found, \A n \in DOMAIN cur : cur[n] \in 1 .. u, DOMAIN found \subseteq 1 .. u
  PROVE  GraphOf(t, cur, found) \in GraphsUpTo(u)
<1> DEFINE ups    == {Node(cur[n], TRUE) : n \in DOMAIN cur}
           downs  == {Node(i, FALSE) : i \in DOMAIN found}
           across == {<<Node(i, FALSE), Node(i, TRUE)>> : i \in DOMAIN found \cap Range(cur)}
           nodes  == ups \cup downs
           g      == GraphOf(t, cur, found)
           some   == {e \in ups \X ups :
                        \E n \in DOMAIN cur : \E m \in Def[t][n].needs : e[1].id = cur[n] /\ e[2].id = cur[m]}
           more   == {e \in downs \X downs :
                        e[1].id \in found[e[2].id].requires \/ e[1].id = found[e[2].id].replaces}
<1>1. g = [nodes |-> nodes, edges |-> some \cup more \cup across]
  BY GraphShape
<1>2. nodes \subseteq NodesUpTo(u)
  <2>1. \A i \in 1 .. u, b \in BOOLEAN : Node(i, b) \in NodesUpTo(u)
    BY DEF Node, NodesUpTo
  <2>2. ups \subseteq NodesUpTo(u)
    BY <2>1
  <2>3. downs \subseteq NodesUpTo(u)
    BY <2>1
  <2> QED BY <2>2, <2>3
<1>3. across \subseteq nodes \X nodes
  <2> SUFFICES ASSUME NEW e \in across PROVE e \in nodes \X nodes
    OBVIOUS
  <2>1. PICK i \in DOMAIN found \cap Range(cur) : e = <<Node(i, FALSE), Node(i, TRUE)>>
    OBVIOUS
  <2>2. PICK n \in DOMAIN cur : i = cur[n]
    BY DEF Range
  <2>3. Node(i, FALSE) \in nodes /\ Node(i, TRUE) \in nodes
    BY <2>2
  <2> QED BY <2>1, <2>3
<1>4. some \cup more \subseteq nodes \X nodes
  OBVIOUS
<1> HIDE DEF nodes, across, some, more, g
<1>5. some \cup more \cup across \subseteq nodes \X nodes
  BY <1>3, <1>4
<1>6. some \cup more \cup across \subseteq NodesUpTo(u) \X NodesUpTo(u)
  BY <1>2, <1>5
<1> QED BY <1>1, <1>2, <1>5, <1>6 DEF GraphsUpTo, g

(* What a request reads when it chooses the rows, and what it may leave in row i. *)
Seen(p) == IF th[p].seen = None THEN ByName ELSE th[p].seen

Rewritten(p, i) ==
  \E n \in DOMAIN Seen(p) :
    /\ i = Seen(p)[n].id /\ i \in DOMAIN rows
    /\ rows'[i] = [Seen(p)[n].row EXCEPT !.tmpl = th[p].stk.tmpl, !.lock = rows[i].lock]
    /\ \A j \in DOMAIN rows : rows[j].name = n => Deleted(rows[j])
Made(p, i) ==
  \E n \in DOMAIN Def[th[p].stk.tmpl], action \in {"INIT", "ROLLBACK"} :
    i \in used + 1 .. used' /\ rows'[i] = NewRow(n, th[p].stk.tmpl, action, None, {})

LEMMA RowsEffect ==
  ASSUME TInv, NEW p \in Threads, Rows(p), ~(Leave(p) /\ UNCHANGED <<rows, used>>)
  PROVE  /\ used' \in Nat /\ used <= used' /\ Seen(p) \in FoundUpTo(used)
         /\ DOMAIN rows \subseteq DOMAIN rows'
         /\ \A i \in DOMAIN rows' : (i \in DOMAIN rows /\ rows'[i] = rows[i]) \/ Rewritten(p, i) \/ Made(p, i)
         /\ \E g \in GraphsUpTo(used') :
               th' = [th EXCEPT ![p].pc = "graph", ![p].seen = None, ![p].stk.deps = g]
<1> DEFINE s      == th[p].stk
           seen   == Seen(p)
           found  == RestrictValues(rows, LAMBDA r : ~Deleted(r))
           names  == DOMAIN Def[s.tmpl]
           kept   == {n \in names : Best(n, s, found) # {}}
           again  == {n \in names \ kept : n \in DOMAIN seen}
           made   == names \ (kept \cup again)
           ids    == CHOOSE f \in [made -> used + 1 .. used + Cardinality(made)] : IsInjective(f)
           action == IF s.action = "ROLLBACK" THEN "ROLLBACK" ELSE "INIT"
           Copy(n) == [seen[n].row EXCEPT !.tmpl = s.tmpl, !.lock = rows[seen[n].id].lock]
           Fill(n) == NewRow(n, s.tmpl, action, None, {})
<1>1. used \in Nat /\ RowsFit(rows, used) /\ th[p] \in ThreadsUpTo(used, fresh) /\ s \in StacksUpTo(used, fresh)
  BY Crew DEF TInv, Fits, Equipped, Rows, At
<1>2. seen \in FoundUpTo(used)
  <2>1. th[p].seen \in Maybe(FoundUpTo(used))
    BY <1>1 DEF ThreadsUpTo
  <2> QED BY <1>1, <2>1, ByNameFits DEF Maybe, Seen
<1>3. DOMAIN found \subseteq DOMAIN rows /\ DOMAIN rows \subseteq 1 .. used
  BY <1>1 DEF RestrictValues, Restrict, RowsFit
<1>4. IsFiniteSet(made)
  <2>1. s.tmpl \in DOMAIN Def
    BY <1>1, StackFields
  <2>2. IsFiniteSet(names) /\ made \subseteq names
    BY <2>1, TemplatesAssumption
  <2> HIDE DEF names, made
  <2> QED BY ONLY <2>2, FS_Subset
<1>5. Cardinality(made) \in Nat /\ ids \in [made -> used + 1 .. used + Cardinality(made)]
  BY <1>1, <1>4, NumberingExists
<1>6. PICK best \in [kept -> DOMAIN found] :
        LET cur == [n \in names |-> CASE n \in kept -> best[n]
                                      [] n \in again -> seen[n].id
                                      [] OTHER -> ids[n]]
            New(i) == CHOOSE n \in again \cup made : cur[n] = i
            written == {cur[n] : n \in again \cup made}
        IN /\ \A n \in again : seen[n].id \in DOMAIN rows
           /\ rows' = [i \in DOMAIN rows \cup written |->
                         IF i \notin written THEN rows[i]
                         ELSE IF New(i) \in again THEN Copy(New(i)) ELSE Fill(New(i))]
           /\ th' = [th EXCEPT ![p].pc = "graph", ![p].seen = None, ![p].stk.deps = GraphOf(s.tmpl, cur, found)]
           /\ used' = used + Cardinality(made)
  BY DEF Rows, Seen
<1> DEFINE cur == [n \in names |-> CASE n \in kept -> best[n]
                                     [] n \in again -> seen[n].id
                                     [] OTHER -> ids[n]]
           New(i) == CHOOSE n \in again \cup made : cur[n] = i
           written == {cur[n] : n \in again \cup made}
<1>7. /\ \A n \in again : seen[n].id \in DOMAIN rows
      /\ rows' = [i \in DOMAIN rows \cup written |->
                    IF i \notin written THEN rows[i]
                    ELSE IF New(i) \in again THEN Copy(New(i)) ELSE Fill(New(i))]
      /\ th' = [th EXCEPT ![p].pc = "graph", ![p].seen = None, ![p].stk.deps = GraphOf(s.tmpl, cur, found)]
      /\ used' = used + Cardinality(made)
  BY <1>6
<1>8. again \subseteq DOMAIN seen /\ again \subseteq names /\ made \subseteq names /\ kept \cap (again \cup made) = {} /\ again \cap made = {}
  OBVIOUS
<1>9. DOMAIN cur = names /\ (\A n \in again : cur[n] = seen[n].id) /\ (\A n \in made : cur[n] = ids[n])
      /\ (\A n \in kept : cur[n] \in DOMAIN found)
  BY <1>8
<1>10. names = kept \cup again \cup made /\ action \in {"INIT", "ROLLBACK"}
  OBVIOUS
<1>11. ASSUME NEW n \in again, NEW j \in DOMAIN rows, rows[j].name = n PROVE Deleted(rows[j])
  <2> SUFFICES ASSUME ~Deleted(rows[j]) PROVE FALSE
    OBVIOUS
  <2>1. j \in DOMAIN found /\ found[j].name = n
    BY <1>11 DEF RestrictValues, Restrict
  <2>2. Best(n, s, found) = {}
    OBVIOUS
  <2> HIDE DEF found
  <2> QED BY <2>1, <2>2 DEF Best
<1> HIDE DEF found, seen, cur, ids, made, again, kept, action
<1>12. used' \in Nat /\ used <= used' /\ used + 1 .. used' \subseteq 1 .. used' /\ 1 .. used \subseteq 1 .. used'
       /\ \A n \in made : ids[n] \in used + 1 .. used'
  <2> DEFINE c == Cardinality(made)
  <2>1. c \in Nat /\ used \in Nat /\ used' = used + c /\ ids \in [made -> used + 1 .. used + c]
    BY <1>1, <1>5, <1>7
  <2> HIDE DEF c
  <2> QED BY ONLY <2>1
<1>13. \A n \in DOMAIN cur : cur[n] \in 1 .. used'
  BY <1>3, <1>7, <1>9, <1>10, <1>12
<1>14. GraphOf(s.tmpl, cur, found) \in GraphsUpTo(used')
  BY <1>3, <1>12, <1>13, GraphFits
<1>15. ASSUME NEW i \in DOMAIN rows'
       PROVE  (i \in DOMAIN rows /\ rows'[i] = rows[i]) \/ Rewritten(p, i) \/ Made(p, i)
  <2>1. CASE i \notin written
    BY <1>7, <1>15, <2>1
  <2>2. CASE i \in written
    <3>1. New(i) \in again \cup made /\ cur[New(i)] = i
      BY <2>2
    <3> DEFINE n == New(i)
    <3>2. cur[n] = i /\ rows'[i] = IF n \in again THEN Copy(n) ELSE Fill(n)
      BY <1>7, <2>2, <3>1
    <3> HIDE DEF n
    <3>3. CASE n \in again
      <4>1. n \in DOMAIN seen /\ i = seen[n].id /\ i \in DOMAIN rows /\ rows'[i] = Copy(n)
        BY ONLY <1>7, <1>8, <1>9, <3>2, <3>3
      <4>2. \A j \in DOMAIN rows : rows[j].name = n => Deleted(rows[j])
        BY <1>11, <3>3
      <4> QED BY ONLY <4>1, <4>2 DEF Rewritten, seen
    <3>4. CASE n \in made /\ n \notin again
      <4>1. n \in names /\ i \in used + 1 .. used' /\ rows'[i] = Fill(n)
        BY <1>9, <1>10, <1>12, <3>1, <3>2, <3>4 DEF n
      <4> QED BY ONLY <1>10, <4>1 DEF Made
    <3> QED BY <3>1, <3>3, <3>4 DEF n
  <2> QED BY <2>1, <2>2
<1> QED BY <1>2, <1>7, <1>12, <1>14, <1>15 DEF seen

LEMMA NewRowFits ==
  ASSUME NEW u, NEW n \in Names, NEW t \in DOMAIN Def, NEW a \in Actions, NEW x \in Maybe(1 .. u),
         NEW q \in SUBSET (1 .. u)
  PROVE  NewRow(n, t, a, x, q) \in RowsUpTo(u)
BY DEF NewRow, RowsUpTo, Maybe, Statuses

LEMMA RowsFits == ASSUME TInv, NEW p \in Threads, Rows(p) PROVE TInv'
<1>1. CASE Leave(p) /\ UNCHANGED <<rows, used>>
  <2>1. UNCHANGED <<stack, dropped, rows, phys, points, mail, wish, orders, used, fresh>>
    BY <1>1 DEF Rows
  <2>2. CrewFits(th', used', fresh') /\ Resolved'
    BY <1>1, <2>1, Crew, Leaves1
  <2> QED BY <2>1, <2>2 DEF TInv, Fits
<1>2. CASE ~(Leave(p) /\ UNCHANGED <<rows, used>>)
  <2>1. /\ used' \in Nat /\ used <= used' /\ Seen(p) \in FoundUpTo(used)
        /\ \A i \in DOMAIN rows' : (i \in DOMAIN rows /\ rows'[i] = rows[i]) \/ Rewritten(p, i) \/ Made(p, i)
    BY <1>2, RowsEffect
  <2>2. PICK g \in GraphsUpTo(used') :
          th' = [th EXCEPT ![p].pc = "graph", ![p].seen = None, ![p].stk.deps = g]
    BY <1>2, RowsEffect
  <2>3. fresh' = fresh /\ fresh \in Nat /\ used \in Nat /\ th[p].pc = "rows"
    BY Crew DEF Rows, At
  <2>4. Equipped(th[p], used, fresh) /\ Equipped(th[p], used', fresh')
    BY <2>1, <2>3, Crew, RoomForMore
  <2>5. RowsFit(rows', used')
    <3>1. th[p].stk \in StacksUpTo(used, fresh) /\ th[p].stk.tmpl \in DOMAIN Def
      BY <2>3, <2>4, StackFields DEF Equipped
    <3>2. RowsFit(rows, used) /\ RowsFit(rows, used') /\ RowsUpTo(used) \subseteq RowsUpTo(used')
          /\ 1 .. used \subseteq 1 .. used'
      BY <2>1, <2>3, RoomForMore, Rising DEF TInv, Fits
    <3> SUFFICES ASSUME NEW i \in DOMAIN rows' PROVE i \in 1 .. used' /\ rows'[i] \in RowsUpTo(used')
      BY DEF RowsFit
    <3>3. CASE i \in DOMAIN rows /\ rows'[i] = rows[i]
      BY <3>2, <3>3 DEF RowsFit
    <3>4. CASE Rewritten(p, i)
      <4>1. PICK n \in DOMAIN Seen(p) :
              /\ i = Seen(p)[n].id /\ i \in DOMAIN rows
              /\ rows'[i] = [Seen(p)[n].row EXCEPT !.tmpl = th[p].stk.tmpl, !.lock = rows[i].lock]
        BY <3>4 DEF Rewritten
      <4>2. Seen(p)[n].row \in RowsUpTo(used')
        BY <2>1, <3>2 DEF FoundUpTo
      <4>3. i \in 1 .. used' /\ rows[i].lock \in Maybe(Workers)
        BY <3>2, <4>1, RowFields DEF RowsFit
      <4> DEFINE r == Seen(p)[n].row
      <4>4. \A x \in DOMAIN Def, y \in Maybe(Workers) : [r EXCEPT !.tmpl = x, !.lock = y] \in RowsUpTo(used')
        BY ONLY <4>2, RowChanges
      <4> DEFINE x == th[p].stk.tmpl
                 y == rows[i].lock
      <4>5. x \in DOMAIN Def /\ y \in Maybe(Workers)
        BY <3>1, <4>3
      <4>6. rows'[i] = [r EXCEPT !.tmpl = x, !.lock = y]
        BY <4>1
      <4> HIDE DEF r, x, y
      <4> QED BY ONLY <4>3, <4>4, <4>5, <4>6
    <3>5. CASE Made(p, i)
      <4>1. PICK n \in DOMAIN Def[th[p].stk.tmpl], action \in {"INIT", "ROLLBACK"} :
              i \in used + 1 .. used' /\ rows'[i] = NewRow(n, th[p].stk.tmpl, action, None, {})
        BY <3>5 DEF Made
      <4>2. n \in Names /\ action \in Actions /\ None \in Maybe(1 .. used') /\ i \in 1 .. used'
        BY <2>1, <2>3, <3>1, <4>1 DEF Names, Actions, Maybe
      <4> QED BY <3>1, <4>1, <4>2, NewRowFits
    <3> QED BY <2>1, <3>3, <3>4, <3>5
  <2>6. CrewFits(th', used', fresh') /\ Resolved'
    <3> DEFINE s == [th[p].stk EXCEPT !.deps = g]
               t == [th[p] EXCEPT !.pc = "graph", !.seen = None, !.stk = s]
    <3>1. th' = [th EXCEPT ![p] = t]
      <4>1. th \in [Threads -> ThreadsUpTo(used, fresh)]
        BY Crew
      <4> QED BY ONLY <2>2, <4>1, p \in Threads
    <3>2. th[p].stk \in StacksUpTo(used', fresh') /\ th[p] \in ThreadsUpTo(used', fresh') /\ th[p].stk.trav # 0
      BY <2>3, <2>4 DEF Equipped, Starting
    <3>3. s \in StacksUpTo(used', fresh') /\ s.trav = th[p].stk.trav
      BY <3>2, StackChanges DEF StacksUpTo
    <3>4. s \in Maybe(StacksUpTo(used', fresh')) /\ "graph" \in Labels /\ None \in Maybe(FoundUpTo(used'))
      BY <3>3 DEF Maybe, Labels, Starting
    <3> HIDE DEF s
    <3>5. t \in ThreadsUpTo(used', fresh') /\ t.pc = "graph" /\ t.stk = s
      BY ONLY <3>2, <3>4 DEF ThreadsUpTo
    <3> HIDE DEF t
    <3>6. Equipped(t, used', fresh')
      BY ONLY <3>2, <3>3, <3>5 DEF Equipped, Aiming, Starting, Checking
    <3>7. t.pc # "begin" /\ used' \in Nat /\ used <= used' /\ fresh' \in Nat /\ fresh <= fresh'
      BY <2>1, <2>3, <3>5
    <3> QED BY <3>1, <3>6, <3>7, OneGoesOn
  <2>7. UNCHANGED <<stack, dropped, phys, points, mail, wish, orders, fresh>>
    BY DEF Rows
  <2>8. /\ stack \in StacksUpTo(used', fresh') /\ DOMAIN phys \subseteq 1 .. used'
        /\ PointsFit(points, used', fresh') /\ BagToSet(mail) \subseteq MessagesUpTo(used', fresh')
    BY <2>1, <2>3, OthersFit
  <2> QED BY <2>1, <2>3, <2>5, <2>6, <2>7, <2>8 DEF TInv, Fits
<1> QED BY <1>1, <1>2

LEMMA StoreGraphFits == ASSUME TInv, NEW p \in Threads, StoreGraph(p) PROVE TInv'
<1>1. used' = used /\ fresh' = fresh /\ th[p].pc = "graph" /\ Equipped(th[p], used, fresh)
  BY Crew DEF StoreGraph, At
<1>2. used' \in Nat /\ fresh' \in Nat /\ used <= used' /\ fresh <= fresh'
  BY <1>1, Crew
<1>3. CASE stack' = th[p].stk /\ Goto(p, "launch")
  <2>1. CrewFits(th', used', fresh') /\ Resolved'
    BY <1>1, <1>2, <1>3, Goes DEF Labels, Aiming, Starting, Checking
  <2> QED BY <1>1, <1>3, <2>1 DEF TInv, Fits, StoreGraph, Equipped
<1>4. CASE Leave(p) /\ UNCHANGED stack
  BY <1>1, <1>2, <1>4, Leaves1 DEF TInv, Fits, StoreGraph
<1> QED BY <1>3, <1>4 DEF StoreGraph

LEMMA LaunchFits == ASSUME TInv, NEW p \in Threads, Launch(p) PROVE TInv'
<1> DEFINE s == th[p].stk
           made == {<<s.trav, n>> : n \in s.deps.nodes \cup {StackNode}}
           sent == {Message(s.trav, n, {}) : n \in Leaves(s.deps)}
<1>1. used' = used /\ fresh' = fresh /\ th[p].pc = "launch" /\ Equipped(th[p], used, fresh)
  BY Crew DEF Launch, At
<1>2. used' \in Nat /\ fresh' \in Nat /\ used <= used' /\ fresh <= fresh'
  BY <1>1, Crew
<1>3. s.trav \in 1 .. fresh /\ s.deps.nodes \subseteq NodesUpTo(used)
  <2>1. s \in StacksUpTo(used, fresh) /\ s.trav # 0
    BY <1>1 DEF Equipped, Starting
  <2>2. s.trav \in 0 .. fresh /\ s.deps.nodes \subseteq NodesUpTo(used)
    BY <2>1, StackFields
  <2> HIDE DEF s
  <2> QED BY <2>1, <2>2, Crew
<1>4. CrewFits(th', used', fresh') /\ Resolved'
  <2>1. CASE Goto(p, "complete")
    BY <1>1, <1>2, <2>1, Goes DEF Labels, Aiming, Starting, Checking
  <2>2. CASE Leave(p)
    BY <1>1, <1>2, <2>2, Leaves1
  <2> QED BY <2>1, <2>2 DEF Launch
<1>5. PointsFit(points', used, fresh)
  <2>1. points' = [k \in DOMAIN points \cup made |-> IF k \in made THEN <<>> ELSE points[k]] /\ PointsFit(points, used, fresh)
    BY DEF Launch, TInv, Fits
  <2>2. made \subseteq (1 .. fresh) \X (NodesUpTo(used) \cup {StackNode})
    BY <1>3
  <2> HIDE DEF made
  <2>3. ASSUME NEW k \in DOMAIN points'
        PROVE  /\ k \in (1 .. fresh) \X (NodesUpTo(used) \cup {StackNode})
               /\ DOMAIN points'[k] \subseteq NodesUpTo(used)
               /\ \A n \in DOMAIN points'[k] : points'[k][n] \in Maybe(1 .. used)
    <3>1. CASE k \in made
      BY <2>1, <2>2, <3>1
    <3>2. CASE k \notin made
      BY <2>1, <3>2 DEF PointsFit
    <3> QED BY <3>1, <3>2
  <2> QED BY <2>3 DEF PointsFit
<1>6. BagToSet(mail') \subseteq MessagesUpTo(used, fresh)
  <2>1. sent \subseteq MessagesUpTo(used, fresh)
    BY <1>3 DEF Leaves, Message, MessagesUpTo, NodesUpTo
  <2>2. Post(sent)
    BY DEF Launch
  <2> HIDE DEF sent
  <2> QED BY <2>1, <2>2, Posted DEF TInv, Fits
<1> QED BY <1>1, <1>4, <1>5, <1>6 DEF TInv, Fits, Launch

-----------------------------------------------------------------------------
(* The end of a traversal. *)

LEMMA SetStateFits ==
  ASSUME TInv, NEW p \in Threads, NEW status \in Statuses, NEW next \in {"purge", "rollback"},
         NEW otherwise \in {"idle", "reload"}, SetState(p, status, next, otherwise),
         th[p].pc # "idle", otherwise = "reload" => th[p].pc \in Checking, used' = used, fresh' = fresh
  PROVE  stack' \in StacksUpTo(used, fresh) /\ CrewFits(th', used', fresh') /\ Resolved'
<1>1. used' \in Nat /\ fresh' \in Nat /\ used <= used' /\ fresh <= fresh' /\ Equipped(th[p], used, fresh)
  BY Crew
<1>2. th[p].stk \in StacksUpTo(used, fresh) /\ th[p] \in ThreadsUpTo(used, fresh)
  BY <1>1 DEF Equipped
<1>3. CASE Current(p)
  <2> DEFINE s == [th[p].stk EXCEPT !.status = status]
             t == [th[p] EXCEPT !.stk = s, !.pc = next]
  <2>1. stack' = [stack EXCEPT !.action = th[p].stk.action, !.status = status]
        /\ th' = [th EXCEPT ![p].stk.status = status, ![p].pc = next]
    BY <1>3 DEF SetState
  <2>2. stack' \in StacksUpTo(used, fresh)
    <3>1. th[p].stk.action \in Actions /\ stack \in StacksUpTo(used, fresh)
      BY <1>2, StackFields DEF TInv, Fits
    <3>2. \A a \in Actions : [stack EXCEPT !.action = a, !.status = status] \in StacksUpTo(used, fresh)
      BY <3>1, StackChanges
    <3> QED BY ONLY <2>1, <3>1, <3>2
  <2>3. th' = [th EXCEPT ![p] = t]
    <3>1. th \in [Threads -> ThreadsUpTo(used, fresh)]
      BY Crew
    <3> QED BY ONLY <2>1, <3>1, p \in Threads
  <2>4. s \in StacksUpTo(used, fresh) /\ s \in Maybe(StacksUpTo(used, fresh)) /\ next \in Labels
    BY <1>2, StackChanges DEF Maybe, Labels
  <2> HIDE DEF s
  <2>5. t \in ThreadsUpTo(used, fresh) /\ t.pc = next /\ t.stk = s
    BY ONLY <1>2, <2>4 DEF ThreadsUpTo
  <2> HIDE DEF t
  <2>6. Equipped(t, used, fresh) /\ t.pc # "begin"
    BY ONLY <2>4, <2>5, next \in {"purge", "rollback"} DEF Equipped, Aiming, Starting, Checking
  <2>7. Equipped(t, used', fresh')
    BY <2>6
  <2> QED BY <1>1, <2>2, <2>3, <2>6, <2>7, OneGoesOn
<1>4. CASE ~Current(p)
  <2>1. stack' = stack /\ (Leave(p) \/ (otherwise = "reload" /\ Goto(p, otherwise)))
    BY <1>4 DEF SetState, Leave, Goto
  <2>2. CASE Leave(p)
    BY <1>1, <2>1, <2>2, Leaves1 DEF TInv, Fits
  <2>3. CASE otherwise = "reload" /\ Goto(p, otherwise)
    <3>1. otherwise \in Labels \ {"idle", "begin", "disown", "retrigger", "link"}
          /\ otherwise \notin Aiming /\ otherwise \notin Starting
      BY <2>3 DEF Labels, Checking, Aiming, Starting
    <3>2. CrewFits(th', used', fresh') /\ Resolved'
      BY <1>1, <2>3, <3>1, Goes
    <3> QED BY <2>1, <3>2 DEF TInv, Fits
  <2> QED BY <2>1, <2>2, <2>3
<1> QED BY <1>3, <1>4

LEMMA CompleteFits == ASSUME TInv, NEW p \in Threads, Complete(p) PROVE TInv'
<1>1. SetState(p, "COMPLETE", "purge", "idle") /\ th[p].pc = "complete" /\ "COMPLETE" \in Statuses
  BY DEF Complete, At, Statuses
<1>2. UNCHANGED <<dropped, rows, phys, points, mail, wish, orders, used, fresh>>
  BY DEF Complete
<1>3. stack' \in StacksUpTo(used, fresh) /\ CrewFits(th', used', fresh') /\ Resolved'
  BY <1>1, <1>2, SetStateFits
<1> QED BY <1>2, <1>3 DEF TInv, Fits

LEMMA FailFits == ASSUME TInv, NEW w \in Workers, Fail(w) PROVE TInv'
<1>1. PICK next \in {"purge", "rollback"} : SetState(w, "FAILED", next, "reload")
  BY DEF Fail
<1>2. th[w].pc = "fail" /\ "FAILED" \in Statuses /\ th[w].pc \in Checking /\ w \in Threads
  BY Crew DEF Fail, At, Statuses, Checking
<1>3. UNCHANGED <<dropped, rows, phys, points, mail, wish, orders, used, fresh>>
  BY DEF Fail
<1>4. stack' \in StacksUpTo(used, fresh) /\ CrewFits(th', used', fresh') /\ Resolved'
  BY <1>1, <1>2, <1>3, SetStateFits
<1> QED BY <1>3, <1>4 DEF TInv, Fits

LEMMA PurgeFits == ASSUME TInv, NEW p \in Threads, Purge(p) PROVE TInv'
<1>1. UNCHANGED <<stack, dropped, phys, points, mail, wish, orders, used, fresh>> /\ th[p].pc = "purge" /\ Goto(p, "end")
  BY DEF Purge, At
<1>2. used' \in Nat /\ fresh' \in Nat /\ used <= used' /\ fresh <= fresh'
  BY <1>1, Crew
<1>3. CrewFits(th', used', fresh') /\ Resolved'
  BY <1>1, <1>2, Goes DEF Labels, Aiming, Starting, Checking
<1>4. RowsFit(rows', used)
  BY RowsPurged DEF Purge, TInv, Fits
<1> QED BY <1>1, <1>3, <1>4 DEF TInv, Fits

LEMMA EndFits == ASSUME TInv, NEW p \in Threads, End(p) PROVE TInv'
<1> DEFINE s == th[p].stk
           failed == s.status = "FAILED"
<1>1. UNCHANGED <<dropped, rows, phys, points, mail, wish, orders, used, fresh>> /\ th[p].pc = "end"
  BY DEF End, At
<1>2. used' \in Nat /\ fresh' \in Nat /\ used <= used' /\ fresh <= fresh'
  BY <1>1, Crew
<1>3. CASE Current(p)
  <2>1. /\ stack' = [s EXCEPT !.trav = IF failed THEN 0 ELSE @, !.prev = IF failed THEN @ ELSE None]
        /\ Goto(p, "erase")
    BY <1>3 DEF End
  <2>2. s \in StacksUpTo(used, fresh)
    BY <1>1, Crew DEF Equipped
  <2>3. s.trav \in 0 .. fresh /\ s.prev \in Maybe(DOMAIN Def) /\ 0 \in 0 .. fresh /\ None \in Maybe(DOMAIN Def)
    BY <1>1, <1>2, <2>2, StackFields DEF Maybe
  <2> DEFINE x == IF failed THEN 0 ELSE s.trav
             y == IF failed THEN s.prev ELSE None
  <2>4. x \in 0 .. fresh /\ y \in Maybe(DOMAIN Def)
    BY <2>3
  <2>5. stack' = [s EXCEPT !.trav = x, !.prev = y]
    BY <2>1, <2>2 DEF StacksUpTo
  <2> HIDE DEF x, y
  <2>6. stack' \in StacksUpTo(used, fresh)
    <3> HIDE DEF s
    <3> QED BY ONLY <2>2, <2>4, <2>5, StackChanges
  <2>7. CrewFits(th', used', fresh') /\ Resolved'
    BY <1>1, <1>2, <2>1, Goes DEF Labels, Aiming, Starting, Checking
  <2> QED BY <1>1, <2>6, <2>7 DEF TInv, Fits
<1>4. CASE ~Current(p)
  <2>1. UNCHANGED stack /\ Leave(p)
    BY <1>4 DEF End
  <2> QED BY <1>1, <1>2, <2>1, Leaves1 DEF TInv, Fits
<1> QED BY <1>3, <1>4

LEMMA EraseFits == ASSUME TInv, NEW p \in Threads, Erase(p) PROVE TInv'
<1> DEFINE s == th[p].stk
<1>1. UNCHANGED <<stack, rows, phys, mail, wish, orders, used, fresh>> /\ th[p].pc = "erase" /\ DropPoints(s.trav)
  BY DEF Erase, At
<1>2. used' \in Nat /\ fresh' \in Nat /\ used <= used' /\ fresh <= fresh'
  BY <1>1, Crew
<1>3. CrewFits(th', used', fresh') /\ Resolved'
  <2>1. CASE Goto(p, "remove")
    BY <1>1, <1>2, <2>1, Goes DEF Labels, Aiming, Starting, Checking
  <2>2. CASE Leave(p)
    BY <1>1, <1>2, <2>2, Leaves1
  <2> QED BY <2>1, <2>2 DEF Erase
<1>4. s.prev \in Maybe(DOMAIN Def)
  BY <1>1, Crew, StackFields DEF Equipped
<1>5. dropped' \subseteq DOMAIN Def
  BY <1>4 DEF Erase, Maybe, TInv, Fits
<1>6. PointsFit(points', used, fresh)
  BY <1>1, PointsDropped DEF TInv, Fits
<1> QED BY <1>1, <1>3, <1>5, <1>6 DEF TInv, Fits

LEMMA RemoveFits == ASSUME TInv, NEW p \in Threads, Remove(p) PROVE TInv'
<1>1. UNCHANGED <<dropped, phys, points, mail, wish, orders, used, fresh>> /\ th[p].pc = "remove" /\ Leave(p)
  BY DEF Remove, At
<1>2. used' \in Nat /\ fresh' \in Nat /\ used <= used' /\ fresh <= fresh'
  BY <1>1, Crew
<1>3. CrewFits(th', used', fresh') /\ Resolved'
  BY <1>1, <1>2, Leaves1
<1>4. th[p].stk \in StacksUpTo(used, fresh) /\ stack \in StacksUpTo(used, fresh)
  BY <1>1, Crew DEF Equipped, TInv, Fits
<1>5. stack' \in StacksUpTo(used, fresh)
  <2>1. None \in Maybe(DOMAIN Def) /\ "FAILED" \in Statuses
    BY DEF Maybe, Statuses
  <2>2. [stack EXCEPT !.gone = TRUE] \in StacksUpTo(used, fresh)
    BY <1>4, StackChanges
  <2>3. [th[p].stk EXCEPT !.prev = None, !.status = "FAILED"] \in StacksUpTo(used, fresh)
    BY <1>4, <2>1, StackChanges
  <2> QED BY <1>4, <2>2, <2>3 DEF Remove
<1>6. RowsFit(rows', used)
  BY DEF Remove, RowsFit, TInv, Fits
<1> QED BY <1>1, <1>3, <1>5, <1>6 DEF TInv, Fits

-----------------------------------------------------------------------------
(* Workers: the message, the lock. *)

LEMMA TakeFits == ASSUME TInv, NEW w \in Workers, Take(w) PROVE TInv'
<1>1. UNCHANGED <<stack, dropped, rows, phys, points, wish, orders, used, fresh>> /\ w \in Threads
  BY Crew DEF Take
<1>2. used' \in Nat /\ fresh' \in Nat /\ used <= used' /\ fresh <= fresh'
  BY <1>1, Crew
<1>3. BagToSet(mail') \subseteq MessagesUpTo(used, fresh)
  <2>1. PICK m \in BagToSet(mail) : mail' = mail (-) SetToBag({m})
    BY DEF Take
  <2> QED BY <2>1 DEF TInv, Fits, (-), BagToSet
<1>4. CrewFits(th', used', fresh') /\ Resolved'
  <2>1. CASE UNCHANGED th
    <3>1. Resolved'
      BY <2>1, IntentStays DEF TInv, Resolved, At
    <3> QED BY <1>1, <2>1, <3>1 DEF TInv, Fits
  <2>2. CASE \E m \in BagToSet(mail), label \in {"disown", "lock"} :
               /\ m.id \in DOMAIN rows /\ (label = "disown" => rows[m.id].replaces # None)
               /\ th' = [th EXCEPT ![w] = [Idle EXCEPT !.pc = label, !.msg = m, !.stk = stack, !.rsrc = rows[m.id]]]
    <3>1. PICK m \in BagToSet(mail), label \in {"disown", "lock"} :
               /\ m.id \in DOMAIN rows /\ (label = "disown" => rows[m.id].replaces # None)
               /\ th' = [th EXCEPT ![w] = [Idle EXCEPT !.pc = label, !.msg = m, !.stk = stack, !.rsrc = rows[m.id]]]
      BY <2>2
    <3> DEFINE r == rows[m.id]
               t == [Idle EXCEPT !.pc = label, !.msg = m, !.stk = stack, !.rsrc = r]
    <3>2. m \in MessagesUpTo(used, fresh) /\ stack \in StacksUpTo(used, fresh) /\ r \in RowsUpTo(used)
      BY <3>1 DEF TInv, Fits, RowsFit
    <3>3. Idle \in ThreadsUpTo(used, fresh) /\ label \in Labels
          /\ m \in Maybe(MessagesUpTo(used, fresh)) /\ stack \in Maybe(StacksUpTo(used, fresh)) /\ r \in Maybe(RowsUpTo(used))
      BY <3>2, IdleFits DEF Equipped, Labels, Checking, Maybe
    <3>4. th' = [th EXCEPT ![w] = t] /\ (label = "disown" => r.replaces # None)
      BY <3>1
    <3> HIDE DEF r
    <3>5. t \in ThreadsUpTo(used, fresh) /\ t.pc = label /\ t.msg = m /\ t.stk = stack /\ t.rsrc = r
      BY ONLY <3>3 DEF ThreadsUpTo
    <3> HIDE DEF t
    <3>6. Equipped(t, used, fresh) /\ t.pc # "begin"
      BY ONLY <3>2, <3>4, <3>5, label \in {"disown", "lock"} DEF Equipped, Aiming, Starting, Checking
    <3>7. Equipped(t, used', fresh')
      BY <1>1, <3>6
    <3> QED BY <1>1, <1>2, <3>4, <3>6, <3>7, OneGoesOn
  <2> QED BY <2>1, <2>2 DEF Take
<1> QED BY <1>1, <1>3, <1>4 DEF TInv, Fits

LEMMA DisownFits == ASSUME TInv, NEW w \in Workers, Disown(w) PROVE TInv'
<1>1. UNCHANGED <<stack, dropped, phys, points, mail, wish, orders, used, fresh>> /\ w \in Threads /\ th[w].pc = "disown"
  BY Crew DEF Disown, At
<1>2. used' \in Nat /\ fresh' \in Nat /\ used <= used' /\ fresh <= fresh' /\ Equipped(th[w], used, fresh)
  BY <1>1, Crew
<1>3. CASE Here(w)
  <2> DEFINE out == th[w].rsrc.replaces
             t == [th[w] EXCEPT !.pc = "retrigger", !.out = out]
  <2>1. rows' = [rows EXCEPT ![Own(w)].action = "DELETE"]
        /\ th' = [th EXCEPT ![w].pc = "retrigger", ![w].out = out]
    BY <1>3 DEF Disown
  <2>2. RowsFit(rows', used)
    <3>1. Own(w) \in DOMAIN rows /\ RowsFit(rows, used) /\ "DELETE" \in Actions
      BY <1>3 DEF Here, TInv, Fits, Actions
    <3>2. [rows[Own(w)] EXCEPT !.action = "DELETE"] \in RowsUpTo(used)
      BY <3>1, RowChanges DEF RowsFit
    <3> QED BY <2>1, <3>1, <3>2, RowWritten
  <2>3. out \in 1 .. used /\ th[w] \in ThreadsUpTo(used, fresh) /\ th[w].stk \in StacksUpTo(used, fresh)
    BY <1>1, <1>2, RowFields DEF Equipped, Checking, Maybe
  <2>4. out \in Maybe(Outcomes \cup (1 .. used)) /\ "retrigger" \in Labels
    BY <2>3 DEF Maybe, Labels
  <2>5. th' = [th EXCEPT ![w] = t]
    <3>1. th \in [Threads -> ThreadsUpTo(used, fresh)]
      BY Crew
    <3> QED BY ONLY <1>1, <2>1, <3>1
  <2> HIDE DEF out
  <2>6. t \in ThreadsUpTo(used, fresh) /\ t.pc = "retrigger" /\ t.stk = th[w].stk /\ t.out = out
    BY ONLY <2>3, <2>4 DEF ThreadsUpTo
  <2> HIDE DEF t
  <2>7. Equipped(t, used, fresh) /\ t.pc # "begin"
    BY ONLY <2>3, <2>6 DEF Equipped, Aiming, Starting, Checking
  <2>8. Equipped(t, used', fresh')
    BY <1>1, <2>7
  <2>9. CrewFits(th', used', fresh') /\ Resolved'
    BY <1>1, <1>2, <2>5, <2>7, <2>8, OneGoesOn
  <2> QED BY <1>1, <2>2, <2>9 DEF TInv, Fits
<1>4. CASE ~Here(w)
  <2>1. Leave(w) /\ rows' = rows
    BY <1>4 DEF Disown
  <2>2. CrewFits(th', used', fresh') /\ Resolved'
    BY <1>1, <1>2, <2>1, Leaves1
  <2> QED BY <1>1, <2>1, <2>2 DEF TInv, Fits
<1> QED BY <1>3, <1>4

LEMMA RetriggerFits == ASSUME TInv, NEW w \in Workers, Retrigger(w) PROVE TInv'
<1> DEFINE s == th[w].stk
           n == RetriggerKey(th[w].out, s.deps)
<1>1. UNCHANGED <<stack, dropped, rows, phys, wish, orders, used, fresh>> /\ w \in Threads /\ th[w].pc = "retrigger" /\ Leave(w)
  BY Crew DEF Retrigger, At
<1>2. used' \in Nat /\ fresh' \in Nat /\ used <= used' /\ fresh <= fresh' /\ Equipped(th[w], used, fresh)
  BY <1>1, Crew
<1>3. CrewFits(th', used', fresh') /\ Resolved'
  BY <1>1, <1>2, Leaves1
<1>4. n \in NodesUpTo(used) /\ None \in Maybe(1 .. used)
  BY <1>1, <1>2 DEF Equipped, RetriggerKey, Node, NodesUpTo, Maybe
<1>5. PointsFit(points, used, fresh) /\ BagToSet(mail) \subseteq MessagesUpTo(used, fresh)
  BY DEF TInv, Fits
<1>6. PointsFit(points', used, fresh) /\ BagToSet(mail') \subseteq MessagesUpTo(used, fresh)
  <2>1. CASE Present(s.trav, n) /\ Notify(s.trav, n, n, None, Predecessors(s.deps, n))
    <3> HIDE DEF n, s
    <3> QED BY <1>4, <1>5, <2>1, Notified
  <2>2. CASE UNCHANGED <<points, mail>>
    BY <1>5, <2>2
  <2> QED BY <2>1, <2>2 DEF Retrigger
<1> QED BY <1>1, <1>3, <1>6 DEF TInv, Fits

LEMMA LockFits == ASSUME TInv, NEW w \in Workers, Lock(w) PROVE TInv'
<1>1. UNCHANGED <<stack, dropped, phys, points, mail, wish, orders, used, fresh>> /\ w \in Threads /\ th[w].pc = "lock"
  BY Crew DEF Lock, At
<1>2. used' \in Nat /\ fresh' \in Nat /\ used <= used' /\ fresh <= fresh' /\ Equipped(th[w], used, fresh)
  BY <1>1, Crew
<1>3. th[w].pc \in Checking /\ th[w].rsrc \in RowsUpTo(used) /\ th[w].msg \in MessagesUpTo(used, fresh)
      /\ th[w].stk \in StacksUpTo(used, fresh) /\ th[w] \in ThreadsUpTo(used, fresh)
  BY <1>1, <1>2 DEF Equipped, Checking
<1>4. CASE ~(Here(w) /\ rows[Own(w)].lock = None)
  <2>1. Leave(w) /\ rows' = rows
    BY <1>4 DEF Lock
  <2>2. CrewFits(th', used', fresh') /\ Resolved'
    BY <1>1, <1>2, <2>1, Leaves1
  <2> QED BY <1>1, <2>1, <2>2 DEF TInv, Fits
<1>5. CASE Here(w) /\ rows[Own(w)].lock = None
  <2> DEFINE Turn(label, out) == th' = [th EXCEPT ![w].pc = label, ![w].out = out]
  <2>1. /\ rows' = [rows EXCEPT ![Own(w)].lock = w]
        /\ CASE Keeps(w) -> th' = [th EXCEPT ![w].pc = "unlock", ![w].out = "done",
                                               ![w].rsrc = Adopted(w, @)]
             [] Spared(w)   -> Turn("unlock", "done")
             [] Replaces(w) -> Turn("unlock", "replace")
             [] Discards(w) -> Turn("discard", "done")
             [] Absent(w)   -> Turn("heir", "done")
             [] Creates(w)  -> Turn("begin", "create")
             [] Changes(w)  -> Turn("begin", "update")
             [] Deletes(w)  -> Turn("begin", "delete")
    BY <1>5 DEF Lock
  <2>2. Keeps(w) \/ Spared(w) \/ Replaces(w) \/ Discards(w) \/ Absent(w) \/ Creates(w) \/ Changes(w) \/ Deletes(w)
    BY DEF Keeps, Spared, Replaces, Discards, Absent, Changes, Deletes
  <2>3. \/ Keeps(w) /\ th' = [th EXCEPT ![w].pc = "unlock", ![w].out = "done", ![w].rsrc = Adopted(w, @)]
        \/ Turn("unlock", "done") \/ Turn("unlock", "replace") \/ Turn("discard", "done") \/ Turn("heir", "done")
        \/ Creates(w) /\ Turn("begin", "create")
        \/ Changes(w) /\ Turn("begin", "update")
        \/ Deletes(w) /\ Turn("begin", "delete")
    BY ONLY <2>1, <2>2
  <2>4. RowsFit(rows', used)
    <3>1. Own(w) \in DOMAIN rows /\ RowsFit(rows, used) /\ w \in Maybe(Workers)
      BY <1>5 DEF Here, TInv, Fits, Maybe
    <3>2. [rows[Own(w)] EXCEPT !.lock = w] \in RowsUpTo(used)
      BY <3>1, RowChanges DEF RowsFit
    <3> QED BY <2>1, <3>1, <3>2, RowWritten
  <2>5. th \in [Threads -> ThreadsUpTo(used, fresh)]
    BY Crew
  <2>6. ASSUME NEW label \in {"unlock", "discard", "heir"}, NEW out \in {"done", "replace"}, NEW r \in RowsUpTo(used),
               th' = [th EXCEPT ![w].pc = label, ![w].out = out, ![w].rsrc = r]
        PROVE  CrewFits(th', used', fresh') /\ Resolved'
    <3>1. label \in Checking \ {"begin", "disown", "link"} /\ out \in Maybe(Outcomes \cup (1 .. used')) /\ r \in RowsUpTo(used')
      BY <1>1 DEF Checking, Maybe, Outcomes
    <3> QED BY <1>2, <1>3, <2>6, <3>1, WorkerGoesOn
  <2>7. ASSUME NEW label \in {"unlock", "discard", "heir"}, NEW out \in {"done", "replace"}, Turn(label, out)
        PROVE  CrewFits(th', used', fresh') /\ Resolved'
    <3>1. th' = [th EXCEPT ![w].pc = label, ![w].out = out, ![w].rsrc = th[w].rsrc]
      BY ONLY <1>1, <2>5, <2>7 DEF ThreadsUpTo
    <3> QED BY <1>3, <2>6, <3>1
  <2>8. ASSUME NEW out \in {"create", "update", "delete"}, Turn("begin", out),
               \/ out = "create" /\ Creates(w)
               \/ out = "update" /\ Changes(w)
               \/ out = "delete" /\ Deletes(w)
        PROVE  CrewFits(th', used', fresh') /\ Resolved'
    <3> DEFINE t == [th[w] EXCEPT !.pc = "begin", !.out = out]
    <3>1. th' = [th EXCEPT ![w] = t]
      BY ONLY <1>1, <2>5, <2>8
    <3>2. out \in Maybe(Outcomes \cup (1 .. used)) /\ "begin" \in Labels
      BY DEF Maybe, Outcomes, Labels, Checking
    <3>3. t \in ThreadsUpTo(used, fresh) /\ t.pc = "begin" /\ t.out = out
          /\ t.msg = th[w].msg /\ t.stk = th[w].stk /\ t.rsrc = th[w].rsrc
      BY ONLY <1>3, <3>2 DEF ThreadsUpTo
    <3>4. th'[w] = t
      BY <1>1, <2>5, <3>1
    <3> HIDE DEF t
    <3>5. Equipped(t, used, fresh)
      BY ONLY <1>3, <3>3 DEF Equipped, Aiming, Starting, Checking
    <3>6. CrewFits(th', used', fresh')
      <4>1. Equipped(t, used', fresh')
        BY <1>1, <3>5
      <4> QED BY <1>1, <1>2, <3>1, <4>1, OneMoves DEF TInv
    <3>7. Intent(w)'
      <4>1. /\ Creates(w)' <=> Creates(w)
            /\ Changes(w)' <=> Changes(w)
            /\ Deletes(w)' <=> Deletes(w)
        BY <3>3, <3>4 DEF Creates, Changes, Deletes, Replaces, Spared, Discards, Absent, Deleted, Update, Want, Have
      <4> QED BY <2>8, <3>3, <3>4, <4>1 DEF Intent
    <3> QED BY <1>1, <3>1, <3>6, <3>7, OthersResolved
  <2>9. ASSUME Keeps(w) /\ th' = [th EXCEPT ![w].pc = "unlock", ![w].out = "done", ![w].rsrc = Adopted(w, @)]
        PROVE  CrewFits(th', used', fresh') /\ Resolved'
    <3>1. Adopted(w, th[w].rsrc) \in RowsUpTo(used)
      <4>1. th[w].stk.tmpl \in DOMAIN Def /\ th[w].msg.data \in SUBSET (1 .. used)
        BY <1>3, StackFields DEF MessagesUpTo
      <4> QED BY <1>3, <4>1, RowChanges DEF Adopted
    <3> DEFINE r == Adopted(w, th[w].rsrc)
    <3>2. th' = [th EXCEPT ![w].pc = "unlock", ![w].out = "done", ![w].rsrc = r]
      BY ONLY <1>1, <2>5, <2>9 DEF Adopted, ThreadsUpTo
    <3>3. r \in RowsUpTo(used)
      BY <3>1
    <3> HIDE DEF r
    <3> QED BY <2>6, <3>2, <3>3
  <2>10. CrewFits(th', used', fresh') /\ Resolved'
    BY <2>3, <2>7, <2>8, <2>9
  <2> QED BY <1>1, <2>4, <2>10 DEF TInv, Fits
<1> QED BY <1>4, <1>5

-----------------------------------------------------------------------------
(* Workers: the work, the end of the lock. *)

LEMMA Hand ==
  ASSUME TInv, NEW w \in Workers, th[w].pc \in Checking
  PROVE  /\ w \in Threads /\ th[w] \in ThreadsUpTo(used, fresh) /\ Equipped(th[w], used, fresh)
         /\ th[w].rsrc \in RowsUpTo(used) /\ th[w].stk \in StacksUpTo(used, fresh)
         /\ th[w].msg \in MessagesUpTo(used, fresh) /\ Own(w) \in 1 .. used
         /\ th[w].out \in Maybe(Outcomes \cup (1 .. used)) /\ th[w].todo \subseteq NodesUpTo(used)
         /\ th[w].stk.tmpl \in DOMAIN Def /\ th[w].msg.data \in SUBSET (1 .. used)
         /\ used \in Nat /\ fresh \in Nat /\ used <= used /\ fresh <= fresh
         /\ th \in [Threads -> ThreadsUpTo(used, fresh)] /\ RowsFit(rows, used)
<1>1. w \in Threads /\ Equipped(th[w], used, fresh) /\ used \in Nat /\ fresh \in Nat
      /\ th \in [Threads -> ThreadsUpTo(used, fresh)]
  BY Crew
<1>2. /\ th[w] \in ThreadsUpTo(used, fresh) /\ th[w].pc # "idle"
      /\ th[w].rsrc \in RowsUpTo(used) /\ th[w].msg \in MessagesUpTo(used, fresh)
  BY <1>1 DEF Equipped, Checking
<1>3. th[w].stk \in StacksUpTo(used, fresh)
  BY <1>1, <1>2 DEF Equipped
<1>4. th[w].out \in Maybe(Outcomes \cup (1 .. used)) /\ th[w].todo \subseteq NodesUpTo(used)
  BY ONLY <1>2 DEF ThreadsUpTo
<1>5. th[w].msg.id \in 1 .. used /\ th[w].msg.data \in SUBSET (1 .. used)
  BY ONLY <1>2 DEF MessagesUpTo
<1> QED BY <1>1, <1>2, <1>3, <1>4, <1>5, StackFields DEF Own, TInv, Fits

(* The same with the outcome or the copy of the row left as it is. *)
LEMMA WorkerTurns ==
  ASSUME TInv, NEW w \in Workers, th[w].pc \in Checking, NEW label \in Checking \ {"begin", "disown", "link"},
         used' = used, fresh' = fresh
  PROVE  /\ Goto(w, label) => CrewFits(th', used', fresh') /\ Resolved'
         /\ \A r \in RowsUpTo(used) :
              th' = [th EXCEPT ![w].pc = label, ![w].rsrc = r] => CrewFits(th', used', fresh') /\ Resolved'
         /\ \A r \in RowsUpTo(used), out \in Outcomes :
              th' = [th EXCEPT ![w].pc = label, ![w].out = out, ![w].rsrc = r]
                => CrewFits(th', used', fresh') /\ Resolved'
         /\ Leave(w) => CrewFits(th', used', fresh') /\ Resolved'
<1>1. used' \in Nat /\ fresh' \in Nat /\ used <= used' /\ fresh <= fresh' /\ w \in Threads
      /\ th[w].rsrc \in RowsUpTo(used) /\ th[w].out \in Maybe(Outcomes \cup (1 .. used))
      /\ th \in [Threads -> ThreadsUpTo(used, fresh)]
  BY Hand
<1>2. ASSUME NEW r \in RowsUpTo(used), NEW out \in Maybe(Outcomes \cup (1 .. used)),
             th' = [th EXCEPT ![w].pc = label, ![w].out = out, ![w].rsrc = r]
      PROVE  CrewFits(th', used', fresh') /\ Resolved'
  <2>1. r \in RowsUpTo(used') /\ out \in Maybe(Outcomes \cup (1 .. used'))
    OBVIOUS
  <2> QED BY <1>1, <1>2, <2>1, WorkerGoesOn
<1>3. ASSUME NEW r \in RowsUpTo(used), th' = [th EXCEPT ![w].pc = label, ![w].rsrc = r]
      PROVE  CrewFits(th', used', fresh') /\ Resolved'
  <2>1. th' = [th EXCEPT ![w].pc = label, ![w].out = th[w].out, ![w].rsrc = r]
    BY ONLY <1>1, <1>3 DEF ThreadsUpTo
  <2> QED BY <1>1, <1>2, <2>1
<1>4. ASSUME Goto(w, label) PROVE CrewFits(th', used', fresh') /\ Resolved'
  <2>1. th' = [th EXCEPT ![w].pc = label]
    BY <1>4 DEF Goto
  <2>2. th' = [th EXCEPT ![w].pc = label, ![w].rsrc = th[w].rsrc]
    BY ONLY <1>1, <2>1 DEF ThreadsUpTo
  <2> QED BY <1>1, <1>3, <2>2
<1>5. ASSUME Leave(w) PROVE CrewFits(th', used', fresh') /\ Resolved'
  BY <1>1, <1>5, Leaves1
<1>6. \A out \in Outcomes : out \in Maybe(Outcomes \cup (1 .. used))
  BY DEF Maybe
<1> QED BY <1>2, <1>3, <1>4, <1>5, <1>6

LEMMA Turning ==
  /\ {"lock", "discard", "begin", "work", "heir", "replace", "link", "unlock", "notify", "reload", "fail"} \subseteq Checking
  /\ {"lock", "discard", "work", "heir", "replace", "unlock", "notify", "reload", "fail"}
       \subseteq Checking \ {"begin", "disown", "link"}
  /\ {"COMPLETE", "FAILED"} \subseteq Statuses
BY DEF Checking, Statuses

LEMMA DiscardFits == ASSUME TInv, NEW w \in Workers, Discard(w) PROVE TInv'
<1>1. UNCHANGED <<stack, dropped, phys, points, mail, wish, orders, used, fresh>> /\ th[w].pc = "discard" /\ Goto(w, "unlock")
  BY DEF Discard, At
<1>2. CrewFits(th', used', fresh') /\ Resolved'
  BY <1>1, WorkerTurns, Turning
<1>3. RowsFit(rows', used)
  BY RowsDropped DEF Discard, TInv, Fits
<1> QED BY <1>1, <1>2, <1>3 DEF TInv, Fits

LEMMA AdoptedFits ==
  ASSUME TInv, NEW w \in Workers, th[w].pc \in Checking, NEW r \in RowsUpTo(used)
  PROVE  Adopted(w, r) \in RowsUpTo(used)
BY Hand, RowChanges DEF Adopted

LEMMA BeginFits == ASSUME TInv, NEW w \in Workers, Begin(w) PROVE TInv'
<1>1. UNCHANGED <<stack, dropped, points, mail, wish, orders, fresh>> /\ th[w].pc = "begin" /\ th[w].pc \in Checking
  BY Turning DEF Begin, At
<1>2. CASE ~Here(w)
  <2>1. Leave(w) /\ UNCHANGED <<rows, phys, used>>
    BY <1>2 DEF Begin
  <2>2. CrewFits(th', used', fresh') /\ Resolved'
    BY <1>1, <2>1, WorkerTurns, Turning
  <2> QED BY <1>1, <2>1, <2>2 DEF TInv, Fits
<1>3. CASE Here(w)
  <2> DEFINE r == IF Creates(w) THEN [InProgress(w) EXCEPT !.real = used + 1] ELSE InProgress(w)
  <2>1. /\ Store(Own(w), r)
        /\ th' = [th EXCEPT ![w].pc = "work", ![w].rsrc = r]
        /\ IF Creates(w)
           THEN used' = used + 1 /\ phys' = With(phys, used + 1, [soft |-> Want(w).soft, hard |-> Want(w).hard])
           ELSE UNCHANGED <<used, phys>>
    BY <1>3 DEF Begin
  <2>2. used \in Nat /\ used' \in Nat /\ used <= used' /\ fresh' \in Nat /\ fresh <= fresh'
    BY <1>1, <2>1, Crew
  <2>3. th[w].rsrc \in RowsUpTo(used) /\ Adopted(w, th[w].rsrc) \in RowsUpTo(used)
    BY <1>1, Hand, AdoptedFits
  <2>4. InProgress(w) \in RowsUpTo(used)
    <3>1. {"CREATE", "UPDATE", "DELETE"} \subseteq Actions /\ "IN_PROGRESS" \in Statuses
      BY DEF Actions, Statuses
    <3>2. ASSUME NEW x \in RowsUpTo(used), NEW a \in {"CREATE", "UPDATE", "DELETE"}
          PROVE  [x EXCEPT !.action = a, !.status = "IN_PROGRESS"] \in RowsUpTo(used)
      BY <3>1, RowChanges
    <3>3. Intent(w)
      BY <1>1 DEF TInv, Resolved, At
    <3>4. Creates(w) \/ Changes(w) \/ Deletes(w)
      BY <3>3 DEF Intent
    <3>5. CASE Creates(w)
      <4>1. ~Changes(w) /\ ~Deletes(w)
        BY <3>5 DEF Creates, Changes, Deletes
      <4>2. InProgress(w) = [Adopted(w, th[w].rsrc) EXCEPT !.action = "CREATE", !.status = "IN_PROGRESS"]
        BY <3>5, <4>1 DEF InProgress
      <4> QED BY <2>3, <3>2, <4>2
    <3>6. CASE Changes(w)
      <4>1. ~Creates(w) /\ ~Deletes(w)
        BY <3>6 DEF Creates, Changes, Deletes
      <4>2. InProgress(w) = [th[w].rsrc EXCEPT !.action = "UPDATE", !.status = "IN_PROGRESS"]
        BY <3>6, <4>1 DEF InProgress
      <4> QED BY <2>3, <3>2, <4>2
    <3>7. CASE Deletes(w)
      <4>1. ~Creates(w) /\ ~Changes(w)
        BY <3>7 DEF Creates, Changes, Deletes
      <4>2. InProgress(w) = [th[w].rsrc EXCEPT !.action = "DELETE", !.status = "IN_PROGRESS"]
        BY <3>7, <4>1 DEF InProgress
      <4> QED BY <2>3, <3>2, <4>2
    <3> QED BY <3>4, <3>5, <3>6, <3>7
  <2>5. r \in RowsUpTo(used')
    <3>1. InProgress(w) \in RowsUpTo(used')
      BY <2>2, <2>4, Rising, Crew
    <3>2. CASE Creates(w)
      <4>1. used + 1 \in Maybe(1 .. used')
        BY <2>1, <2>2, <3>2 DEF Maybe
      <4> QED BY <3>1, <3>2, <4>1, RowChanges
    <3> QED BY <3>1, <3>2
  <2> HIDE DEF r
  <2>6. RowsFit(rows', used')
    <3>1. RowsFit(rows, used') /\ Own(w) \in DOMAIN rows
      BY <1>3, <2>2, Crew, OthersFit DEF Here
    <3> QED BY <2>1, <2>5, <3>1, RowStored
  <2>7. DOMAIN phys' \subseteq 1 .. used'
    <3>1. DOMAIN phys \subseteq 1 .. used
      BY DEF TInv, Fits
    <3> QED BY <2>1, <2>2, <3>1 DEF With
  <2>8. CrewFits(th', used', fresh') /\ Resolved'
    <3>1. th[w].out \in Maybe(Outcomes \cup (1 .. used')) /\ th \in [Threads -> ThreadsUpTo(used, fresh)] /\ w \in Threads
      BY <1>1, <2>2, Hand, Rising DEF Maybe
    <3>2. th' = [th EXCEPT ![w].pc = "work", ![w].out = th[w].out, ![w].rsrc = r]
      BY ONLY <2>1, <3>1 DEF ThreadsUpTo
    <3> QED BY <1>1, <2>2, <2>5, <3>1, <3>2, WorkerGoesOn, Turning
  <2>9. /\ stack \in StacksUpTo(used', fresh')
        /\ PointsFit(points, used', fresh') /\ BagToSet(mail) \subseteq MessagesUpTo(used', fresh')
    BY <2>2, OthersFit
  <2> QED BY <1>1, <2>2, <2>6, <2>7, <2>8, <2>9 DEF TInv, Fits
<1> QED BY <1>2, <1>3

LEMMA EndsFit ==
  ASSUME TInv, NEW w \in Workers, th[w].pc \in Checking, NEW r \in RowsUpTo(used),
         NEW label \in Checking \ {"begin", "disown", "link"}, NEW out \in Outcomes, Ends(w, r, label, out),
         used' = used, fresh' = fresh
  PROVE  RowsFit(rows', used) /\ CrewFits(th', used', fresh') /\ Resolved'
<1>1. CASE Here(w)
  <2>1. Store(Own(w), r) /\ th' = [th EXCEPT ![w].pc = label, ![w].out = out, ![w].rsrc = r]
    BY <1>1 DEF Ends
  <2>2. Own(w) \in DOMAIN rows /\ RowsFit(rows, used)
    BY <1>1 DEF Here, TInv, Fits
  <2> QED BY <2>1, <2>2, RowStored, WorkerTurns
<1>2. CASE ~Here(w)
  <2>1. Leave(w) /\ rows' = rows
    BY <1>2 DEF Ends
  <2> QED BY <2>1, WorkerTurns DEF TInv, Fits
<1> QED BY <1>1, <1>2

LEMMA DoneFits ==
  ASSUME TInv, NEW w \in Workers, th[w].pc \in Checking
  PROVE  Done(w) \in RowsUpTo(used)
BY Hand, RowChanges, Turning DEF Done

LEMMA FinishCreateFits == ASSUME TInv, NEW w \in Workers, FinishCreate(w) PROVE TInv'
<1>1. UNCHANGED <<stack, dropped, phys, points, mail, wish, orders, used, fresh>>
      /\ th[w].pc \in Checking /\ Ends(w, Done(w), "unlock", "done")
  BY Turning DEF FinishCreate, At
<1>2. "done" \in Outcomes
  BY DEF Outcomes
<1>3. RowsFit(rows', used) /\ CrewFits(th', used', fresh') /\ Resolved'
  BY <1>1, <1>2, DoneFits, EndsFit, Turning
<1> QED BY <1>1, <1>3 DEF TInv, Fits

LEMMA FinishDeleteFits == ASSUME TInv, NEW w \in Workers, FinishDelete(w) PROVE TInv'
<1>1. UNCHANGED <<stack, dropped, points, mail, wish, orders, used, fresh>>
      /\ th[w].pc \in Checking /\ Ends(w, Done(w), "heir", "done")
      /\ phys' = Restrict(phys, DOMAIN phys \ {th[w].rsrc.real})
  BY Turning DEF FinishDelete, At
<1>2. "done" \in Outcomes
  BY DEF Outcomes
<1>3. RowsFit(rows', used) /\ CrewFits(th', used', fresh') /\ Resolved'
  BY <1>1, <1>2, DoneFits, EndsFit, Turning
<1>4. DOMAIN phys' \subseteq 1 .. used
  BY <1>1 DEF Restrict, TInv, Fits
<1> QED BY <1>1, <1>3, <1>4 DEF TInv, Fits

LEMMA FinishUpdateFits == ASSUME TInv, NEW w \in Workers, FinishUpdate(w) PROVE TInv'
<1>1. UNCHANGED <<stack, dropped, points, mail, wish, orders, used, fresh>> /\ th[w].pc \in Checking
  BY Turning DEF FinishUpdate, At
<1>2. "done" \in Outcomes /\ "replace" \in Outcomes
  BY DEF Outcomes
<1>3. DOMAIN phys' \subseteq 1 .. used
  <2>1. DOMAIN phys' = DOMAIN phys
    BY DEF FinishUpdate
  <2> QED BY <2>1 DEF TInv, Fits
<1>4. RowsFit(rows', used) /\ CrewFits(th', used', fresh') /\ Resolved'
  <2>1. CASE Ends(w, Done(w), "unlock", "replace")
    BY <1>1, <1>2, <2>1, DoneFits, EndsFit, Turning
  <2>2. CASE /\ Here(w) /\ Store(Own(w), Done(w))
             /\ th' = [th EXCEPT ![w].pc = "unlock", ![w].out = "done", ![w].rsrc = Adopted(w, Done(w))]
    <3>1. Done(w) \in RowsUpTo(used) /\ Adopted(w, Done(w)) \in RowsUpTo(used)
      BY <1>1, DoneFits, AdoptedFits
    <3>2. Own(w) \in DOMAIN rows /\ RowsFit(rows, used)
      BY <2>2 DEF Here, TInv, Fits
    <3>3. RowsFit(rows', used)
      BY <2>2, <3>1, <3>2, RowStored
    <3> QED BY <1>1, <1>2, <2>2, <3>1, <3>3, WorkerTurns, Turning
  <2>3. CASE Leave(w) /\ UNCHANGED rows
    BY <1>1, <2>3, WorkerTurns, Turning DEF TInv, Fits
  <2> QED BY <2>1, <2>2, <2>3 DEF FinishUpdate
<1> QED BY <1>1, <1>3, <1>4 DEF TInv, Fits

LEMMA BreakFits == ASSUME TInv, NEW w \in Workers, Break(w) PROVE TInv'
<1> DEFINE r == [th[w].rsrc EXCEPT !.status = "FAILED"]
           r2 == IF th[w].out = "update" THEN Adopted(w, r) ELSE r
<1>1. UNCHANGED <<stack, dropped, phys, points, mail, wish, orders, used, fresh>> /\ th[w].pc \in Checking
  BY Turning DEF Break, At
<1>2. PICK out \in {"failed", "cancelled"} :
        IF Here(w)
        THEN Store(Own(w), r) /\ th' = [th EXCEPT ![w].pc = "unlock", ![w].out = out, ![w].rsrc = r2]
        ELSE Leave(w) /\ UNCHANGED rows
  BY DEF Break
<1>3. r \in RowsUpTo(used) /\ r2 \in RowsUpTo(used)
  BY <1>1, Hand, RowChanges, Turning, AdoptedFits
<1> HIDE DEF r, r2
<1>4. RowsFit(rows', used) /\ CrewFits(th', used', fresh') /\ Resolved'
  <2>1. CASE Here(w)
    <3>1. Own(w) \in DOMAIN rows /\ RowsFit(rows, used) /\ out \in Outcomes
      BY <2>1 DEF Here, TInv, Fits, Outcomes
    <3> QED BY <1>1, <1>2, <1>3, <2>1, <3>1, RowStored, WorkerTurns, Turning
  <2>2. CASE ~Here(w)
    BY <1>1, <1>2, <2>2, WorkerTurns, Turning DEF TInv, Fits
  <2> QED BY <2>1, <2>2
<1> QED BY <1>1, <1>4 DEF TInv, Fits

LEMMA HeirFits == ASSUME TInv, NEW w \in Workers, Heir(w) PROVE TInv'
<1> DEFINE h == th[w].rsrc.replacedBy
<1>1. UNCHANGED <<stack, dropped, phys, points, mail, wish, orders, used, fresh>> /\ th[w].pc \in Checking /\ Goto(w, "unlock")
  BY Turning DEF Heir, At
<1>2. rows' = rows \/ (h \in DOMAIN rows /\ rows' = [rows EXCEPT ![h].replaces = None])
  BY DEF Heir
<1>3. RowsFit(rows', used)
  <2>1. CASE h \in DOMAIN rows /\ rows' = [rows EXCEPT ![h].replaces = None]
    <3>1. rows[h] \in RowsUpTo(used) /\ None \in Maybe(1 .. used) /\ RowsFit(rows, used)
      BY <2>1 DEF TInv, Fits, RowsFit, Maybe
    <3>2. [rows[h] EXCEPT !.replaces = None] \in RowsUpTo(used)
      BY <3>1, RowChanges
    <3> QED BY <2>1, <3>1, <3>2, RowWritten
  <2> QED BY <1>2, <2>1 DEF TInv, Fits
<1>4. CrewFits(th', used', fresh') /\ Resolved'
  BY <1>1, WorkerTurns, Turning
<1> QED BY <1>1, <1>3, <1>4 DEF TInv, Fits

LEMMA ReplaceFits == ASSUME TInv, NEW w \in Workers, Replace(w) PROVE TInv'
<1> DEFINE r == th[w].rsrc
           new == NewRow(r.name, th[w].stk.tmpl, "INIT", Own(w), r.requires)
           t == [th[w] EXCEPT !.pc = "link", !.out = used + 1]
<1>1. UNCHANGED <<stack, dropped, phys, points, mail, wish, orders, fresh>> /\ th[w].pc \in Checking
      /\ used' = used + 1 /\ rows' = With(rows, used + 1, new)
      /\ th' = [th EXCEPT ![w].pc = "link", ![w].out = used + 1]
  BY Turning DEF Replace, At
<1>2. used \in Nat /\ used' \in Nat /\ used <= used' /\ fresh' \in Nat /\ fresh <= fresh' /\ used + 1 \in 1 .. used'
      /\ 1 .. used \subseteq 1 .. used'
  BY <1>1, Crew
<1>3. new \in RowsUpTo(used')
  <2>1. r \in RowsUpTo(used) /\ th[w].stk.tmpl \in DOMAIN Def /\ Own(w) \in 1 .. used
    BY <1>1, Hand
  <2>2. r.name \in Names /\ r.requires \in SUBSET (1 .. used')
    BY <1>2, <2>1, RowFields
  <2>3. Own(w) \in Maybe(1 .. used') /\ "INIT" \in Actions
    BY <1>2, <2>1 DEF Maybe, Actions
  <2> QED BY <2>1, <2>2, <2>3, NewRowFits
<1> HIDE DEF new
<1>4. RowsFit(rows', used')
  <2>1. RowsFit(rows, used')
    BY <1>1, <1>2, OthersFit
  <2> QED BY <1>1, <1>2, <1>3, <2>1 DEF RowsFit, With
<1>5. w \in Threads /\ Equipped(th[w], used', fresh') /\ th \in [Threads -> ThreadsUpTo(used, fresh)]
  BY <1>1, <1>2, Hand, RoomForMore
<1>6. th[w] \in ThreadsUpTo(used', fresh') /\ th[w].stk \in StacksUpTo(used', fresh')
      /\ th[w].msg \in MessagesUpTo(used', fresh') /\ th[w].rsrc \in RowsUpTo(used')
  BY <1>1, <1>5 DEF Equipped, Checking
<1>7. th' = [th EXCEPT ![w] = t]
  BY ONLY <1>1, <1>5
<1>8. used + 1 \in Maybe(Outcomes \cup (1 .. used')) /\ "link" \in Labels
  BY <1>2 DEF Maybe, Labels, Checking
<1>9. t \in ThreadsUpTo(used', fresh') /\ t.pc = "link" /\ t.out = used + 1
      /\ t.stk = th[w].stk /\ t.msg = th[w].msg /\ t.rsrc = th[w].rsrc
  BY ONLY <1>6, <1>8 DEF ThreadsUpTo
<1> HIDE DEF t
<1>10. Equipped(t, used', fresh') /\ t.pc # "begin"
  BY ONLY <1>2, <1>6, <1>9 DEF Equipped, Aiming, Starting, Checking
<1>11. CrewFits(th', used', fresh') /\ Resolved'
  BY <1>2, <1>5, <1>7, <1>10, OneGoesOn
<1>12. /\ stack \in StacksUpTo(used', fresh') /\ DOMAIN phys \subseteq 1 .. used'
       /\ PointsFit(points, used', fresh') /\ BagToSet(mail) \subseteq MessagesUpTo(used', fresh')
  BY <1>2, OthersFit
<1> QED BY <1>1, <1>2, <1>4, <1>11, <1>12 DEF TInv, Fits

LEMMA LinkFits == ASSUME TInv, NEW w \in Workers, Link(w) PROVE TInv'
<1> DEFINE out == th[w].out
           message == [th[w].msg EXCEPT !.id = out]
<1>1. UNCHANGED <<stack, dropped, phys, points, wish, orders, used, fresh>> /\ th[w].pc \in Checking
      /\ th[w].pc = "link" /\ Leave(w)
  BY Turning DEF Link, At
<1>2. out \in 1 .. used
  BY <1>1, Hand DEF Equipped
<1>3. CrewFits(th', used', fresh') /\ Resolved'
  BY <1>1, WorkerTurns, Turning
<1>4. RowsFit(rows, used) /\ BagToSet(mail) \subseteq MessagesUpTo(used, fresh)
  BY DEF TInv, Fits
<1>5. RowsFit(rows', used) /\ BagToSet(mail') \subseteq MessagesUpTo(used, fresh)
  <2>1. CASE Here(w)
    <3>1. rows' = [rows EXCEPT ![Own(w)].status = "COMPLETE", ![Own(w)].replacedBy = out] /\ Post({message})
      BY <2>1 DEF Link
    <3>2. Own(w) \in DOMAIN rows /\ rows[Own(w)] \in RowsUpTo(used) /\ out \in Maybe(1 .. used)
      BY <1>2, <1>4, <2>1 DEF Here, RowsFit, Maybe
    <3>3. [rows[Own(w)] EXCEPT !.status = "COMPLETE", !.replacedBy = out] \in RowsUpTo(used)
      BY <3>2, RowChanges, Turning
    <3>4. rows' = [rows EXCEPT ![Own(w)] = [rows[Own(w)] EXCEPT !.status = "COMPLETE", !.replacedBy = out]]
      BY <3>1, <3>2
    <3>5. message \in MessagesUpTo(used, fresh)
      <4>1. th[w].msg \in MessagesUpTo(used, fresh)
        BY <1>1, Hand
      <4> QED BY ONLY <1>2, <4>1 DEF MessagesUpTo
    <3> HIDE DEF message
    <3>6. {message} \in SUBSET MessagesUpTo(used, fresh)
      BY <3>5
    <3> QED BY <1>4, <3>1, <3>2, <3>3, <3>4, <3>6, RowWritten, Posted
  <2>2. CASE ~Here(w)
    BY <1>4, <2>2 DEF Link
  <2> QED BY <2>1, <2>2
<1> QED BY <1>1, <1>3, <1>5 DEF TInv, Fits

LEMMA GraphKeyFits ==
  ASSUME TInv, NEW w \in Workers, th[w].pc \in Checking
  PROVE  GraphKey(w) \in NodesUpTo(used)
<1>1. Own(w) \in 1 .. used /\ th[w].msg.update \in BOOLEAN
      /\ (th[w].rsrc.replaces # None => th[w].rsrc.replaces \in 1 .. used)
  BY Hand, RowFields DEF MessagesUpTo, Maybe
<1>2. \A i \in 1 .. used, b \in BOOLEAN : Node(i, b) \in NodesUpTo(used)
  BY DEF Node, NodesUpTo
<1> QED BY <1>1, <1>2 DEF GraphKey

LEMMA UnlockFits == ASSUME TInv, NEW w \in Workers, Unlock(w) PROVE TInv'
<1>1. UNCHANGED <<stack, dropped, phys, points, mail, wish, orders, used, fresh>> /\ th[w].pc \in Checking
  BY Turning DEF Unlock, At
<1>2. RowsFit(rows', used)
  <2> DEFINE r == th[w].rsrc
  <2>1. CASE Here(w) /\ rows' = [rows EXCEPT ![Own(w)].lock = None, ![Own(w)].tmpl = r.tmpl, ![Own(w)].requires = r.requires]
    <3>1. Own(w) \in DOMAIN rows /\ rows[Own(w)] \in RowsUpTo(used) /\ None \in Maybe(Workers) /\ RowsFit(rows, used)
      BY <2>1 DEF Here, TInv, Fits, RowsFit, Maybe
    <3>2. r.tmpl \in DOMAIN Def /\ r.requires \in SUBSET (1 .. used)
      BY <1>1, Hand, RowFields
    <3> DEFINE row == [rows[Own(w)] EXCEPT !.lock = None, !.tmpl = r.tmpl, !.requires = r.requires]
    <3>3. row \in RowsUpTo(used)
      <4> HIDE DEF r
      <4> QED BY <3>1, <3>2, RowChanges
    <3>4. rows' = [rows EXCEPT ![Own(w)] = row]
      BY <2>1, <3>1
    <3> HIDE DEF row
    <3> QED BY <3>1, <3>3, <3>4, RowWritten
  <2>2. CASE rows' = rows
    BY <2>2 DEF TInv, Fits
  <2> QED BY <2>1, <2>2 DEF Unlock
<1>3. CrewFits(th', used', fresh') /\ Resolved'
  <2> DEFINE todo == RequiredBy(th[w].stk.deps, GraphKey(w))
  <2>1. Goto(w, "replace") \/ Goto(w, "fail") \/ Leave(w)
        \/ th' = [th EXCEPT ![w].pc = "notify", ![w].todo = todo]
    BY DEF Unlock
  <2>2. CASE th' = [th EXCEPT ![w].pc = "notify", ![w].todo = todo]
    <3> DEFINE t == [th[w] EXCEPT !.pc = "notify", !.todo = todo]
    <3>1. todo \subseteq NodesUpTo(used) /\ "notify" \in Labels
      <4>1. th[w].stk.deps.nodes \subseteq NodesUpTo(used)
        BY <1>1, Hand, StackFields
      <4> QED BY <4>1 DEF RequiredBy, Labels, Checking
    <3> HIDE DEF todo
    <3>2. th[w] \in ThreadsUpTo(used, fresh) /\ th[w].stk \in StacksUpTo(used, fresh) /\ th \in [Threads -> ThreadsUpTo(used, fresh)]
          /\ th[w].msg \in MessagesUpTo(used, fresh) /\ th[w].rsrc \in RowsUpTo(used) /\ w \in Threads
          /\ used' \in Nat /\ used <= used' /\ fresh' \in Nat /\ fresh <= fresh'
      BY <1>1, Hand
    <3>3. th' = [th EXCEPT ![w] = t]
      BY ONLY <2>2, <3>2
    <3>4. t \in ThreadsUpTo(used, fresh) /\ t.pc = "notify" /\ t.stk = th[w].stk /\ t.msg = th[w].msg /\ t.rsrc = th[w].rsrc
      BY ONLY <3>1, <3>2 DEF ThreadsUpTo
    <3> HIDE DEF t
    <3>5. Equipped(t, used, fresh) /\ t.pc # "begin"
      BY ONLY <3>2, <3>4 DEF Equipped, Aiming, Starting, Checking
    <3>6. Equipped(t, used', fresh')
      BY <1>1, <3>5
    <3> QED BY <3>2, <3>3, <3>5, <3>6, OneGoesOn
  <2> QED BY <1>1, <2>1, <2>2, WorkerTurns, Turning
<1> QED BY <1>1, <1>2, <1>3 DEF TInv, Fits

LEMMA NotifyNextFits == ASSUME TInv, NEW w \in Workers, NotifyNext(w) PROVE TInv'
<1> DEFINE s == th[w].stk
<1>1. UNCHANGED <<stack, dropped, rows, phys, wish, orders, used, fresh>> /\ th[w].pc \in Checking /\ th[w].pc = "notify"
  BY Turning DEF NotifyNext, At
<1>2. PICK n \in th[w].todo :
       IF Present(s.trav, n)
       THEN /\ Notify(s.trav, n, GraphKey(w), IF n.update THEN Own(w) ELSE None, Predecessors(s.deps, n))
            /\ th' = [th EXCEPT ![w].todo = @ \ {n}]
       ELSE Goto(w, "reload") /\ UNCHANGED <<points, mail>>
  BY DEF NotifyNext
<1>3. PointsFit(points, used, fresh) /\ BagToSet(mail) \subseteq MessagesUpTo(used, fresh)
  BY DEF TInv, Fits
<1>4. CASE Present(s.trav, n)
  <2> DEFINE data == IF n.update THEN Own(w) ELSE None
             preds == Predecessors(s.deps, n)
             todo == th[w].todo \ {n}
             t == [th[w] EXCEPT !.todo = todo]
  <2>1. Notify(s.trav, n, GraphKey(w), data, preds) /\ th' = [th EXCEPT ![w].todo = @ \ {n}]
    BY <1>2, <1>4
  <2>2. n \in NodesUpTo(used) /\ GraphKey(w) \in NodesUpTo(used) /\ data \in Maybe(1 .. used)
    BY <1>1, <1>2, Hand, GraphKeyFits DEF Maybe
  <2> HIDE DEF data, preds
  <2>3. PointsFit(points', used, fresh) /\ BagToSet(mail') \subseteq MessagesUpTo(used, fresh)
    <3> HIDE DEF s
    <3> QED BY <1>3, <1>4, <2>1, <2>2, Notified
  <2>4. th[w] \in ThreadsUpTo(used, fresh) /\ th[w].stk \in StacksUpTo(used, fresh) /\ th \in [Threads -> ThreadsUpTo(used, fresh)]
        /\ th[w].msg \in MessagesUpTo(used, fresh) /\ th[w].rsrc \in RowsUpTo(used) /\ w \in Threads
        /\ used' \in Nat /\ used <= used' /\ fresh' \in Nat /\ fresh <= fresh' /\ todo \subseteq NodesUpTo(used)
    BY <1>1, Hand
  <2>5. th' = [th EXCEPT ![w] = t]
    BY ONLY <2>1, <2>4 DEF ThreadsUpTo
  <2> HIDE DEF todo
  <2>6. t \in ThreadsUpTo(used, fresh) /\ t.pc = th[w].pc /\ t.stk = th[w].stk /\ t.msg = th[w].msg /\ t.rsrc = th[w].rsrc
    BY ONLY <2>4 DEF ThreadsUpTo
  <2> HIDE DEF t
  <2>7. Equipped(t, used, fresh) /\ t.pc # "begin"
    BY ONLY <1>1, <2>4, <2>6 DEF Equipped, Aiming, Starting, Checking
  <2>8. Equipped(t, used', fresh')
    BY <1>1, <2>7
  <2>9. CrewFits(th', used', fresh') /\ Resolved'
    BY <2>4, <2>5, <2>7, <2>8, OneGoesOn
  <2> QED BY <1>1, <2>3, <2>9 DEF TInv, Fits
<1>5. CASE ~Present(s.trav, n)
  <2>1. CrewFits(th', used', fresh') /\ Resolved'
    BY <1>1, <1>2, <1>5, WorkerTurns, Turning
  <2> QED BY <1>1, <1>2, <1>3, <1>5, <2>1 DEF TInv, Fits
<1> QED BY <1>4, <1>5

LEMMA CheckStackFits == ASSUME TInv, NEW w \in Workers, CheckStack(w) PROVE TInv'
<1> DEFINE s == th[w].stk
           from == GraphKey(w)
           input == Joined(s.trav, StackNode, from, None)
           k == <<s.trav, StackNode>>
<1>1. UNCHANGED <<stack, dropped, rows, phys, mail, wish, orders, used, fresh>> /\ th[w].pc \in Checking
  BY Turning DEF CheckStack, At
<1>2. \/ Leave(w) /\ UNCHANGED points
      \/ Goto(w, "reload") /\ UNCHANGED points
      \/ /\ Present(s.trav, StackNode) /\ points' = [points EXCEPT ![k] = input]
         /\ Goto(w, "complete") \/ Leave(w)
  BY DEF CheckStack
<1>3. used' \in Nat /\ used <= used' /\ fresh' \in Nat /\ fresh <= fresh' /\ w \in Threads /\ th[w].pc # "idle"
  BY <1>1, Hand DEF Checking
<1>4. CrewFits(th', used', fresh') /\ Resolved'
  <2>1. CASE Goto(w, "complete")
    BY <1>3, <2>1, Goes DEF Labels, Aiming, Starting, Checking
  <2> QED BY <1>1, <1>2, <2>1, WorkerTurns, Turning
<1>5. PointsFit(points', used, fresh)
  <2>1. PointsFit(points, used, fresh)
    BY DEF TInv, Fits
  <2>2. CASE Present(s.trav, StackNode) /\ points' = [points EXCEPT ![k] = input]
    <3>1. k \in DOMAIN points /\ input = With(points[k], from, None)
      BY <2>2 DEF Present, Joined, With
    <3>2. from \in NodesUpTo(used) /\ None \in Maybe(1 .. used)
      BY <1>1, GraphKeyFits DEF Maybe
    <3> HIDE DEF input, from, k
    <3> QED BY <2>1, <2>2, <3>1, <3>2, PointWritten
  <2> QED BY <1>2, <2>1, <2>2
<1> QED BY <1>1, <1>4, <1>5 DEF TInv, Fits

LEMMA ReloadFits == ASSUME TInv, NEW w \in Workers, Reload(w) PROVE TInv'
<1> DEFINE t == [th[w] EXCEPT !.pc = "retrigger", !.out = Own(w), !.stk = stack]
<1>1. UNCHANGED <<stack, dropped, rows, phys, points, mail, wish, orders, used, fresh>> /\ th[w].pc \in Checking
  BY Turning DEF Reload, At
<1>2. CASE Leave(w)
  BY <1>1, <1>2, WorkerTurns, Turning DEF TInv, Fits
<1>3. CASE th' = [th EXCEPT ![w].pc = "retrigger", ![w].out = Own(w), ![w].stk = stack]
  <2>1. th[w] \in ThreadsUpTo(used, fresh) /\ th \in [Threads -> ThreadsUpTo(used, fresh)] /\ w \in Threads
        /\ used' \in Nat /\ used <= used' /\ fresh' \in Nat /\ fresh <= fresh' /\ Own(w) \in 1 .. used
        /\ stack \in StacksUpTo(used, fresh)
    BY <1>1, Hand DEF TInv, Fits
  <2>2. Own(w) \in Maybe(Outcomes \cup (1 .. used)) /\ stack \in Maybe(StacksUpTo(used, fresh)) /\ "retrigger" \in Labels
    BY <2>1 DEF Maybe, Labels
  <2>3. th' = [th EXCEPT ![w] = t]
    BY ONLY <1>3, <2>1
  <2>4. t \in ThreadsUpTo(used, fresh) /\ t.pc = "retrigger" /\ t.out = Own(w) /\ t.stk = stack
    BY ONLY <2>1, <2>2 DEF ThreadsUpTo
  <2> HIDE DEF t
  <2>5. Equipped(t, used, fresh) /\ t.pc # "begin"
    BY ONLY <2>1, <2>4 DEF Equipped, Aiming, Starting, Checking
  <2>6. Equipped(t, used', fresh')
    BY <1>1, <2>5
  <2>7. CrewFits(th', used', fresh') /\ Resolved'
    BY <2>1, <2>3, <2>5, <2>6, OneGoesOn
  <2> QED BY <1>1, <2>7 DEF TInv, Fits
<1> QED BY <1>2, <1>3 DEF Reload

-----------------------------------------------------------------------------
LEMMA InitFits == Init => TInv
<1> SUFFICES ASSUME Init PROVE TInv
  OBVIOUS
<1>1. PICK plan \in Plans :
        /\ wish = Restrict(plan, Callers)
        /\ stack = [trav |-> 1, action |-> "CREATE", status |-> "IN_PROGRESS", tmpl |-> plan[Creator],
                    prev |-> None, deps |-> [nodes |-> {}, edges |-> {}], gone |-> FALSE]
  BY DEF Init
<1>2. used = 0 /\ fresh = 1 /\ dropped = {} /\ rows = <<>> /\ phys = <<>> /\ points = <<>> /\ mail = EmptyBag /\ orders = {}
      /\ th = [p \in Threads |-> IF p = Creator THEN [Idle EXCEPT !.pc = "rows", !.stk = stack] ELSE Idle]
  BY DEF Init
<1>3. stack \in StacksUpTo(0, 1) /\ stack.trav # 0
  <2>1. plan[Creator] \in DOMAIN Def
    BY TemplatesAssumption
  <2>2. [nodes |-> {}, edges |-> {}] \in GraphsUpTo(0)
    BY DEF GraphsUpTo
  <2> QED BY <1>1, <2>1, <2>2 DEF StacksUpTo, Actions, Statuses, Maybe
<1>4. wish \in [Callers -> DOMAIN Def \cup {"delete", "rollback", None}]
  BY <1>1, TemplatesAssumption DEF Restrict
<1>5. BagToSet(mail) = {} /\ DOMAIN rows = {} /\ DOMAIN phys = {} /\ DOMAIN points = {}
  BY <1>2 DEF BagToSet, EmptyBag, SetToBag
<1>6. CrewFits(th, 0, 1)
  <2> DEFINE t == [Idle EXCEPT !.pc = "rows", !.stk = stack]
  <2>1. Idle \in ThreadsUpTo(0, 1) /\ "rows" \in Labels /\ stack \in Maybe(StacksUpTo(0, 1)) /\ Equipped(Idle, 0, 1)
    BY <1>3, IdleFits DEF Equipped, Labels, Starting, Maybe
  <2>2. t \in ThreadsUpTo(0, 1) /\ t.pc = "rows" /\ t.stk = stack
    BY ONLY <2>1 DEF ThreadsUpTo
  <2>3. th = [p \in Threads |-> IF p = Creator THEN t ELSE Idle]
    BY <1>2
  <2> HIDE DEF t
  <2>4. Equipped(t, 0, 1)
    BY ONLY <1>3, <2>2 DEF Equipped, Aiming, Starting, Checking
  <2> QED BY <2>1, <2>2, <2>3, <2>4 DEF CrewFits
<1>7. Resolved
  <2>1. \A p \in Threads : th[p].pc # "begin"
    BY <1>2 DEF Idle
  <2> QED BY <2>1 DEF Resolved, At, Threads
<1> QED BY <1>2, <1>3, <1>4, <1>5, <1>6, <1>7 DEF TInv, Fits, RowsFit, PointsFit

LEMMA StepFits == TInv /\ [Next]_vars => TInv'
<1> SUFFICES ASSUME TInv, [Next]_vars PROVE TInv'
  OBVIOUS
<1>1. ASSUME NEW c \in Callers, Request(c) \/ CallerStep(c) PROVE TInv'
  BY <1>1, RequestFits, StopFits, FailStoppedFits, OrderFits, WaitFits DEF CallerStep
<1>2. ASSUME NEW p \in Threads, EngineStep(p) PROVE TInv'
  BY <1>2, RollbackFits, ConvergeFits, DropFits, RowsFits, StoreGraphFits, LaunchFits, CompleteFits, PurgeFits, EndFits,
     EraseFits, RemoveFits
     DEF EngineStep
<1>3. ASSUME NEW w \in Workers, CheckStep(w) PROVE TInv'
  BY <1>3, TakeFits, DisownFits, RetriggerFits, LockFits, DiscardFits, BeginFits, FinishCreateFits, FinishUpdateFits,
     FinishDeleteFits, BreakFits, HeirFits, UnlockFits, ReplaceFits, LinkFits, NotifyNextFits, CheckStackFits,
     ReloadFits, FailFits
     DEF CheckStep
<1>4. CASE UNCHANGED vars
  <2>1. Resolved'
    BY <1>4, IntentStays DEF TInv, Resolved, At, vars
  <2> QED BY <1>4, <2>1 DEF TInv, Fits, vars
<1> QED BY <1>1, <1>2, <1>3, <1>4, CancelFits DEF Next

LEMMA FitsIsTyped == TInv => TypeOK
<1> SUFFICES ASSUME TInv PROVE TypeOK
  OBVIOUS
<1>1. \A n \in NodesUpTo(used) : NodeOK(n)
  BY DEF NodesUpTo, NodeOK, Ids
<1>2. ASSUME NEW s \in StacksUpTo(used, fresh) PROVE StackOK(s)
  BY <1>1, StackFields DEF StackOK
<1>3. ASSUME NEW r \in RowsUpTo(used) PROVE RowOK(r)
  BY RowFields DEF RowOK, Ids
<1>4. StackOK(stack) /\ dropped \subseteq DOMAIN Def /\ DOMAIN rows \subseteq Ids /\ (\A i \in DOMAIN rows : RowOK(rows[i]))
      /\ DOMAIN phys \subseteq Ids /\ orders \subseteq Workers
  BY <1>2, <1>3 DEF TInv, Fits, RowsFit, Ids
<1>5. ASSUME NEW k \in DOMAIN points
      PROVE  /\ k[1] \in 1 .. fresh /\ NodeOK(k[2])
             /\ \A n \in DOMAIN points[k] : NodeOK(n) /\ points[k][n] \in Maybe(Ids)
  <2>1. /\ k \in (1 .. fresh) \X (NodesUpTo(used) \cup {StackNode})
        /\ DOMAIN points[k] \subseteq NodesUpTo(used)
        /\ \A n \in DOMAIN points[k] : points[k][n] \in Maybe(1 .. used)
    BY DEF TInv, Fits, PointsFit
  <2>2. NodeOK(StackNode)
    BY DEF NodeOK, StackNode, Node
  <2> QED BY <1>1, <2>1, <2>2 DEF Ids
<1>6. ASSUME NEW m \in BagToSet(mail)
      PROVE  m.id \in Ids /\ m.update \in BOOLEAN /\ m.trav \in 1 .. fresh /\ m.data \subseteq Ids
  <2>1. m \in MessagesUpTo(used, fresh)
    BY DEF TInv, Fits
  <2> QED BY ONLY <2>1 DEF MessagesUpTo, Ids
<1>7. ASSUME NEW p \in Threads
      PROVE  /\ th[p].stk # None => StackOK(th[p].stk)
             /\ th[p].rsrc # None => RowOK(th[p].rsrc)
             /\ \A n \in th[p].todo : NodeOK(n)
  <2>1. th[p] \in ThreadsUpTo(used, fresh)
    BY Crew
  <2>2. th[p].stk \in Maybe(StacksUpTo(used, fresh)) /\ th[p].rsrc \in Maybe(RowsUpTo(used)) /\ th[p].todo \subseteq NodesUpTo(used)
    BY ONLY <2>1 DEF ThreadsUpTo
  <2> QED BY <1>1, <1>2, <1>3, <2>2 DEF Maybe
<1> QED BY <1>4, <1>5, <1>6, <1>7 DEF TypeOK

LEMMA Fitting == Spec => []TInv
BY InitFits, StepFits, PTL DEF Spec

(* The rows, graphs, sync points and messages of a stack keep their shape, whatever is *)
(* asked for and in whatever order threads that work on old copies write them: graphs  *)
(* have no edge to a node they lack (StoreGraph), sync points hold rows under nodes of *)
(* a graph (Notify, CheckStack), and a message names a row that was made (Link).       *)
THEOREM TypeCorrect == Spec => []TypeOK
BY Fitting, FitsIsTyped, PTL

-----------------------------------------------------------------------------
(* The first traversal: until a later request or a rollback begins one of  *)
(* its own.  Creation is its invariant: the graph is that of the template, *)
(* each row has one check at most, a row whose check has been asked for    *)
(* has every row it requires in service, each of which has reported, and   *)
(* whoever reports is in service.                                          *)

FirstTraversal == fresh = 1

(* A check that may still act on its row or tell of it. *)
Active == {"lock", "begin", "work", "unlock", "notify"}
Doing(w) == th[w].pc \in Active
Up(i) == Node(i, TRUE)

Places ==
  /\ th[Creator].pc \in {"idle", "rows", "graph", "launch", "complete", "purge", "end", "erase"}
  /\ \A c \in Callers : th[c].pc \in {"idle", "stop", "order", "wait", "converge"}
  /\ \A w \in Workers : th[w].pc \in {"idle", "complete", "purge", "end", "erase", "fail", "rollback", "converge", "reload", "retrigger"} \cup Active

Whole(s) == s.action = "CREATE" /\ s.tmpl = stack.tmpl /\ s.prev = None /\ ~s.gone
Copied(p) ==
  th[p].pc # "idle" =>
    /\ Whole(th[p].stk)
    /\ th[p].stk.trav = IF th[p].pc = "retrigger" THEN 0 ELSE 1
    /\ th[p].pc \notin {"rows", "graph"} => th[p].stk.deps = stack.deps
Copies == Whole(stack) /\ Copied(Creator) /\ \A w \in Workers : Copied(w)

Preparing == th[Creator].pc \in {"rows", "graph", "launch"}
Untouched ==
  /\ Preparing => /\ stack.trav = 1 /\ stack.status = "IN_PROGRESS"
                  /\ DOMAIN points = {} /\ BagToSet(mail) = {}
                  /\ \A w \in Workers : th[w].pc = "idle"
                  /\ \A i \in DOMAIN rows : rows[i].action = "INIT"
  /\ th[Creator].pc \in {"rows", "graph"} => th[Creator].stk.status = "IN_PROGRESS"
  /\ th[Creator].pc = "rows" => DOMAIN rows = {} /\ th[Creator].seen = None

Graph == IF th[Creator].pc = "graph" THEN th[Creator].stk.deps ELSE stack.deps
Requires(i, j) == rows[j].name \in Def[stack.tmpl][rows[i].name].needs
Charted ==
  th[Creator].pc # "rows" =>
    /\ Graph.nodes = {Up(i) : i \in DOMAIN rows}
    /\ \A i, j \in DOMAIN rows : <<Up(i), Up(j)>> \in Graph.edges <=> Requires(i, j)
    /\ \A n \in DOMAIN Def[stack.tmpl] : \E i \in DOMAIN rows : rows[i].name = n
    /\ \A i, j \in DOMAIN rows : rows[i].name = rows[j].name => i = j

Listed ==
  \A i \in DOMAIN rows :
    /\ rows[i].name \in DOMAIN Def[stack.tmpl] /\ rows[i].tmpl = stack.tmpl
    /\ rows[i].replaces = None /\ rows[i].action \in {"INIT", "CREATE"}

Served(i) == InService(i, rows[i].name, stack.tmpl)
AllServed == \A i \in DOMAIN rows : Served(i)
Tells(i, n) == <<1, n>> \in DOMAIN points /\ Up(i) \in DOMAIN points[<<1, n>>]

Stage(w) ==
  Doing(w) =>
    /\ Own(w) \in DOMAIN rows /\ Update(w)
    /\ th[w].rsrc.name = rows[Own(w)].name /\ th[w].rsrc.tmpl = stack.tmpl /\ th[w].rsrc.replaces = None
    /\ th[w].pc \in {"lock", "begin"} => rows[Own(w)].action = "INIT" /\ th[w].rsrc.action = "INIT"
    /\ th[w].pc \in {"begin", "work"} => th[w].out = "create"
    /\ th[w].pc = "work" =>
         /\ rows[Own(w)].action = "CREATE" /\ rows[Own(w)].status = "IN_PROGRESS" /\ th[w].rsrc.action = "CREATE"
         /\ th[w].rsrc.real \in DOMAIN phys
         /\ phys[th[w].rsrc.real] = Settings(Def[stack.tmpl][rows[Own(w)].name])
    /\ th[w].pc = "unlock" =>
         /\ rows[Own(w)].action = "CREATE" /\ th[w].out \in {"done", "failed", "cancelled"}
         /\ th[w].out = "done" => Served(Own(w))
         /\ \A j \in DOMAIN rows : ~Tells(Own(w), Up(j))
    /\ th[w].pc = "notify" =>
         /\ Served(Own(w)) /\ th[w].todo \subseteq RequiredBy(stack.deps, Up(Own(w)))
         /\ \A n \in th[w].todo : ~Tells(Own(w), n)
Stages == \A w \in Workers : Stage(w)

Ended(p) == (th[p].pc = "complete" \/ (th[p].pc \in {"purge", "end", "erase"} /\ th[p].stk.status = "COMPLETE")) => AllServed
Endings == Ended(Creator) /\ (\A w \in Workers : Ended(w)) /\ (stack.status = "COMPLETE" => AllServed)

Single == \A v, w \in Workers : (Doing(v) /\ Doing(w) /\ Own(v) = Own(w)) => v = w

Mails ==
  \A m \in BagToSet(mail) :
    /\ mail[m] = 1 /\ m.update /\ m.id \in DOMAIN rows /\ rows[m.id].action = "INIT"
    /\ \A w \in Workers : Doing(w) => Own(w) # m.id
    /\ \A x \in BagToSet(mail) : x.id = m.id => x = m

Started(j) == rows[j].action # "INIT" \/ (\E m \in BagToSet(mail) : m.id = j) \/ \E w \in Workers : Doing(w) /\ Own(w) = j
Joins ==
  \A i, j \in DOMAIN rows :
    (<<Up(j), Up(i)>> \in stack.deps.edges /\ Started(j)) =>
      Served(i) /\ (<<1, Up(j)>> \in DOMAIN points => Tells(i, Up(j)))

Reports == \A k \in DOMAIN points : \A f \in DOMAIN points[k] : \E i \in DOMAIN rows : f = Up(i) /\ Served(i)

Creation == /\ Places /\ Copies /\ Untouched /\ Charted /\ Listed /\ Stages /\ Endings
            /\ Single /\ Mails /\ Joins /\ Reports

LEMMA Types ==
  ASSUME TInv
  PROVE  /\ used \in Nat /\ fresh \in Nat /\ DOMAIN rows \subseteq 1 .. used
         /\ \A p \in Threads : /\ th[p] \in ThreadsUpTo(used, fresh)
                               /\ th[p].pc # "idle" => th[p].stk \in StacksUpTo(used, fresh)
         /\ \A k \in DOMAIN points : k[1] \in 1 .. fresh /\ k = <<k[1], k[2]>>
         /\ BagToSet(mail) \subseteq MessagesUpTo(used, fresh)
         /\ Workers \subseteq Threads /\ Callers \subseteq Threads /\ Creator \in Threads
         /\ stack \in StacksUpTo(used, fresh) /\ stack.tmpl \in DOMAIN Def
<1>1. \A k \in DOMAIN points : k[1] \in 1 .. fresh /\ k = <<k[1], k[2]>>
  BY DEF TInv, Fits, PointsFit
<1>2. stack \in StacksUpTo(used, fresh) /\ stack.tmpl \in DOMAIN Def
  BY StackFields DEF TInv, Fits
<1> QED BY <1>1, <1>2, Crew DEF TInv, Fits, RowsFit, CrewFits, Equipped, Threads

Early == TInv /\ TInv' /\ fresh = 1 /\ fresh' = 1 /\ Creation

Moves(p) == \A q \in Threads \ {p} : th'[q] = th[q]

(* What the threads make for the first traversal is still there. *)
Kept ==
  /\ DOMAIN rows' = DOMAIN rows
  /\ \A i \in DOMAIN rows : /\ rows'[i].name = rows[i].name /\ rows'[i].tmpl = rows[i].tmpl
                            /\ rows'[i].replaces = rows[i].replaces /\ rows'[i].action \in {"INIT", "CREATE"}
                            /\ Served(i) => Served(i)'
  /\ \A x \in DOMAIN phys : x \in DOMAIN phys' /\ phys'[x] = phys[x]
Alike == stack'.tmpl = stack.tmpl /\ stack'.deps = stack.deps /\ Whole(stack')
PointsKept == \A k \in DOMAIN points' : k[2] # StackNode => k \in DOMAIN points /\ points'[k] = points[k]

RowsSame == DOMAIN rows' = DOMAIN rows /\ \A i \in DOMAIN rows : rows'[i] = rows[i]

LEMMA Unmoved ==
  ASSUME Early, RowsSame, phys' = phys, stack'.tmpl = stack.tmpl
  PROVE  Kept
BY DEF RowsSame, Early, Creation, Listed, Kept, Served, InService

LEMMA TellsStay ==
  ASSUME PointsKept, NEW i, NEW n, n # StackNode
  PROVE  /\ Tells(i, n)' => Tells(i, n)
         /\ <<1, n>> \in DOMAIN points' => <<1, n>> \in DOMAIN points /\ (Tells(i, n) => Tells(i, n)')
BY DEF PointsKept, Tells

LEMMA NodesAreRows ==
  ASSUME Early
  PROVE  \A i \in DOMAIN rows : Up(i) # StackNode /\ i # 0
BY Types DEF Early, Up, Node, StackNode

LEMMA ChartedNodes ==
  ASSUME Early, ~Preparing
  PROVE  /\ stack.deps.nodes = {Up(i) : i \in DOMAIN rows}
         /\ \A i, j \in DOMAIN rows : <<Up(i), Up(j)>> \in stack.deps.edges <=> Requires(i, j)
         /\ \A i, j \in DOMAIN rows : Up(i) = Up(j) => i = j
BY DEF Early, Creation, Charted, Graph, Preparing, Up, Node

LEMMA OthersStage ==
  ASSUME Early, ~Preparing, NEW p \in Workers \cup {Creator}, Moves(p), Alike, Kept, PointsKept,
         \A i \in DOMAIN rows : rows'[i] = rows[i] \/ (p \in Workers /\ Doing(p) /\ Own(p) = i),
         NEW v \in Workers, v # p
  PROVE  Stage(v)'
<1>1. th'[v] = th[v] /\ Stage(v)
  BY Types DEF Moves, Early, Creation, Stages
<1> SUFFICES ASSUME Doing(v) PROVE Stage(v)'
  BY <1>1 DEF Stage, Doing
<1> PICK i \in DOMAIN rows : i = Own(v)
  BY <1>1 DEF Stage
<1>2. Own(v)' = i /\ Update(v)' = Update(v)
  BY <1>1 DEF Own, Update
<1>3. rows'[i] = rows[i]
  BY <1>2 DEF Early, Creation, Single
<1>4. Served(i) => Served(i)'
  BY <1>2 DEF Kept
<1>5. \A j \in DOMAIN rows : Tells(i, Up(j))' => Tells(i, Up(j))
  BY NodesAreRows, TellsStay
<1>6. th[v].pc = "notify" => \A n \in th[v].todo : Tells(i, n)' => Tells(i, n)
  <2> SUFFICES ASSUME th[v].pc = "notify", NEW n \in th[v].todo PROVE Tells(i, n)' => Tells(i, n)
    OBVIOUS
  <2>1. n \in stack.deps.nodes
    BY <1>1 DEF Stage, RequiredBy
  <2>2. stack.deps.nodes = {Up(k) : k \in DOMAIN rows}
    BY ChartedNodes
  <2>3. n # StackNode
    BY <2>1, <2>2, NodesAreRows
  <2> QED BY <2>3, TellsStay
<1> QED BY <1>1, <1>2, <1>3, <1>4, <1>5, <1>6 DEF Stage, Doing, Alike, Kept

LEMMA ChartStays ==
  ASSUME Early, ~Preparing, NEW p \in Workers \cup {Creator}, Moves(p), Alike, Kept,
         p = Creator => th'[p].pc \in {"idle", "complete", "purge", "end", "erase"}
  PROVE  Charted' /\ Listed' /\ Untouched'
<1>1. th'[Creator].pc \notin {"rows", "graph", "launch"}
  BY Types, ThreadsAssumption DEF Moves, Early, Preparing
<1>2. Graph' = stack.deps
  BY <1>1 DEF Graph, Alike
<1>3. \A i, j \in DOMAIN rows : Requires(i, j)' <=> Requires(i, j)
  BY DEF Requires, Kept, Alike
<1>4. Charted'
  <2>1. th[Creator].pc # "rows" /\ Graph = stack.deps
    BY DEF Preparing, Graph
  <2>2. /\ stack.deps.nodes = {Up(i) : i \in DOMAIN rows}
        /\ \A i, j \in DOMAIN rows : <<Up(i), Up(j)>> \in stack.deps.edges <=> Requires(i, j)
        /\ \A n \in DOMAIN Def[stack.tmpl] : \E i \in DOMAIN rows : rows[i].name = n
        /\ \A i, j \in DOMAIN rows : rows[i].name = rows[j].name => i = j
    BY <2>1 DEF Early, Creation, Charted
  <2>3. DOMAIN rows' = DOMAIN rows /\ stack'.tmpl = stack.tmpl /\ \A i \in DOMAIN rows : rows'[i].name = rows[i].name
    BY DEF Kept, Alike
  <2>4. Graph'.nodes = {Up(i) : i \in DOMAIN rows'}
    BY <1>2, <2>2, <2>3
  <2>5. \A i, j \in DOMAIN rows' : <<Up(i), Up(j)>> \in Graph'.edges <=> Requires(i, j)'
    BY <1>2, <1>3, <2>2, <2>3
  <2>6. /\ \A n \in DOMAIN Def[stack'.tmpl] : \E i \in DOMAIN rows' : rows'[i].name = n
        /\ \A i, j \in DOMAIN rows' : rows'[i].name = rows'[j].name => i = j
    BY <2>2, <2>3
  <2> QED BY <2>4, <2>5, <2>6 DEF Charted, Up
<1>5. Listed'
  BY DEF Early, Creation, Listed, Kept, Alike
<1>6. Untouched'
  BY <1>1 DEF Untouched, Preparing
<1> QED BY <1>4, <1>5, <1>6

LEMMA CopiesStay ==
  ASSUME Early, NEW p \in Workers \cup {Creator}, Moves(p), Alike, Copied(p)'
  PROVE  Copies'
<1>1. ASSUME NEW q \in Workers \cup {Creator}, q # p PROVE Copied(q)'
  <2>1. th'[q] = th[q] /\ Copied(q)
    BY <1>1, Types DEF Moves, Early, Creation, Copies
  <2> QED BY <2>1 DEF Copied, Whole, Alike
<1> QED BY <1>1 DEF Copies, Alike, Whole

LEMMA EndingsStay ==
  ASSUME Early, NEW p \in Workers \cup {Creator}, Moves(p), Kept, Alike, Ended(p)',
         stack'.status = "COMPLETE" => AllServed
  PROVE  Endings'
<1>1. AllServed => AllServed'
  BY DEF AllServed, Kept
<1>2. ASSUME NEW q \in Workers \cup {Creator}, q # p PROVE Ended(q)'
  <2>1. th'[q] = th[q] /\ Ended(q)
    BY <1>2, Types DEF Moves, Early, Creation, Endings
  <2> QED BY <1>1, <2>1 DEF Ended
<1> QED BY <1>1, <1>2 DEF Endings

(* The check a worker goes on with or takes up is the only one of its row. *)
Sole(p) ==
  (p \in Workers /\ Doing(p)') =>
    /\ \A v \in Workers \ {p} : Doing(v) => Own(v) # Own(p)'
    /\ \A m \in BagToSet(mail') : m.id # Own(p)'
    /\ Started(Own(p)')
MailsKept == \A m \in BagToSet(mail') : m \in BagToSet(mail) /\ mail'[m] = mail[m]

LEMMA StillSole ==
  ASSUME Early, NEW p \in Workers, MailsKept, Doing(p)' => Doing(p) /\ th'[p].msg = th[p].msg
  PROVE  Sole(p)
<1> SUFFICES ASSUME Doing(p)' PROVE Sole(p)
  BY DEF Sole
<1>1. Doing(p) /\ Own(p)' = Own(p)
  BY DEF Own
<1>2. Started(Own(p)) 
  BY <1>1 DEF Started
<1>3. \A v \in Workers \ {p} : Doing(v) => Own(v) # Own(p)
  BY <1>1 DEF Early, Creation, Single
<1>4. \A m \in BagToSet(mail') : m.id # Own(p)
  BY <1>1 DEF Early, Creation, Mails, MailsKept
<1> QED BY <1>1, <1>2, <1>3, <1>4 DEF Sole

LEMMA MailsStay ==
  ASSUME Early, NEW p \in Workers \cup {Creator}, Moves(p), Kept, MailsKept, Sole(p),
         \A i \in DOMAIN rows : rows'[i] = rows[i] \/ (p \in Workers /\ Doing(p) /\ Own(p) = i)
  PROVE  Single' /\ Mails'
<1>1. \A v \in Workers \ {p} : th'[v] = th[v] /\ (Doing(v)' <=> Doing(v)) /\ Own(v)' = Own(v)
  BY Types DEF Moves, Early, Doing, Own
<1>2. Single'
  BY <1>1 DEF Sole, Single, Early, Creation
<1>3. ASSUME NEW m \in BagToSet(mail')
      PROVE  /\ mail'[m] = 1 /\ m.update /\ m.id \in DOMAIN rows' /\ rows'[m.id].action = "INIT"
             /\ \A w \in Workers : Doing(w)' => Own(w)' # m.id
             /\ \A x \in BagToSet(mail') : x.id = m.id => x = m
  <2>1. /\ mail[m] = 1 /\ m.update /\ m.id \in DOMAIN rows /\ rows[m.id].action = "INIT"
        /\ \A w \in Workers : Doing(w) => Own(w) # m.id
        /\ \A x \in BagToSet(mail) : x.id = m.id => x = m
    BY <1>3 DEF MailsKept, Early, Creation, Mails
  <2> QED BY <1>1, <1>3, <2>1 DEF MailsKept, Kept, Sole
<1> QED BY <1>2, <1>3 DEF Mails

LEMMA JoinsStay ==
  ASSUME Early, ~Preparing, NEW p \in Workers \cup {Creator}, Moves(p), Alike, Kept, PointsKept, MailsKept, Sole(p),
         \A i \in DOMAIN rows : rows'[i] = rows[i] \/ (p \in Workers /\ Doing(p) /\ Own(p) = i)
  PROVE  Joins'
<1>1. \A v \in Workers \ {p} : th'[v] = th[v] /\ (Doing(v)' <=> Doing(v)) /\ Own(v)' = Own(v)
  BY Types DEF Moves, Early, Doing, Own
<1>2. ASSUME NEW j \in DOMAIN rows, Started(j)' PROVE Started(j)
  <2>1. CASE rows'[j].action # "INIT"
    BY <2>1 DEF Started
  <2>2. CASE \E m \in BagToSet(mail') : m.id = j
    BY <2>2 DEF Started, MailsKept
  <2>3. CASE \E w \in Workers : Doing(w)' /\ Own(w)' = j
    BY <1>1, <2>3 DEF Started, Sole
  <2> QED BY <1>2, <2>1, <2>2, <2>3 DEF Started
<1> SUFFICES ASSUME NEW i \in DOMAIN rows, NEW j \in DOMAIN rows, <<Up(j), Up(i)>> \in stack.deps.edges, Started(j)'
             PROVE  Served(i)' /\ (<<1, Up(j)>> \in DOMAIN points' => Tells(i, Up(j))')
  BY DEF Joins, Alike, Kept, Up
<1>3. Served(i) /\ (<<1, Up(j)>> \in DOMAIN points => Tells(i, Up(j)))
  BY <1>2 DEF Early, Creation, Joins
<1>4. Up(j) # StackNode
  BY NodesAreRows
<1> QED BY <1>3, <1>4, TellsStay DEF Kept

(* A step of the creation after the messages have been sent, of a worker   *)
(* or of the thread of the request.                                        *)
LEMMA Onward ==
  ASSUME Early, ~Preparing, NEW p \in Workers \cup {Creator}, Moves(p), Alike, Kept, PointsKept, MailsKept, Sole(p),
         \A i \in DOMAIN rows : rows'[i] = rows[i] \/ (p \in Workers /\ Doing(p) /\ Own(p) = i),
         Places', Copied(p)', Ended(p)', stack'.status = "COMPLETE" => AllServed, Reports',
         p \in Workers => Stage(p)',
         p = Creator => th'[p].pc \in {"idle", "complete", "purge", "end", "erase"}
  PROVE  Creation'
<1>1. Stages'
  BY OthersStage DEF Stages
<1> QED BY <1>1, ChartStays, CopiesStay, EndingsStay, MailsStay, JoinsStay DEF Creation

(* A step that leaves all but what callers do as it is. *)
LEMMA Aside ==
  ASSUME Early, UNCHANGED <<stack, rows, phys, points, mail>>,
         \A q \in Workers \cup {Creator} : th'[q] = th[q],
         \A c \in Callers : th'[c].pc \in {"idle", "stop", "order", "wait", "converge"}
  PROVE  Creation'
<1>1. Creator \in Workers \cup {Creator} /\ th'[Creator] = th[Creator] /\ \A w \in Workers : th'[w] = th[w]
  OBVIOUS
<1>2. Places' /\ Copies' /\ Untouched'
  BY <1>1 DEF Early, Creation, Places, Doing, Copies, Copied, Whole, Untouched, Preparing
<1>3. Charted' /\ Listed'
  BY <1>1 DEF Early, Creation, Charted, Graph, Requires, Listed, Up
<1>4. \A i : (Served(i)' <=> Served(i)) /\ \A n : Tells(i, n)' <=> Tells(i, n)
  BY DEF Served, InService, Tells
<1>5. \A w \in Workers : (Doing(w)' <=> Doing(w)) /\ Own(w)' = Own(w) /\ Update(w)' = Update(w)
  BY <1>1 DEF Doing, Own, Update
<1>6. Stages'
  <2> SUFFICES ASSUME NEW w \in Workers PROVE Stage(w)'
    BY DEF Stages
  <2>1. Stage(w)
    BY DEF Early, Creation, Stages
  <2>2. th'[w] = th[w] /\ (Doing(w)' <=> Doing(w)) /\ Own(w)' = Own(w) /\ Update(w)' = Update(w)
    BY <1>1, <1>5
  <2> QED BY <1>4, <2>1, <2>2 DEF Stage
<1>7. Endings'
  BY <1>1, <1>4 DEF Early, Creation, Endings, Ended, AllServed
<1>8. Single' /\ Mails'
  BY <1>5 DEF Early, Creation, Single, Mails
<1>9. Joins' /\ Reports'
  BY <1>4, <1>5 DEF Early, Creation, Joins, Started, Reports
<1> QED BY <1>2, <1>3, <1>6, <1>7, <1>8, <1>9 DEF Creation

(* Before the messages are sent. *)
LEMMA Ahead ==
  ASSUME Places', Copies', Preparing', Untouched', Charted', Listed'
  PROVE  Creation'
<1>1. /\ DOMAIN points' = {} /\ BagToSet(mail') = {} /\ stack'.status = "IN_PROGRESS"
      /\ \A w \in Workers : th'[w].pc = "idle"
      /\ \A i \in DOMAIN rows' : rows'[i].action = "INIT"
      /\ th'[Creator].pc \in {"rows", "graph", "launch"}
  BY DEF Untouched, Preparing
<1>2. \A w \in Workers : ~Doing(w)'
  BY <1>1 DEF Doing, Active
<1>3. Stages' /\ Single' /\ Mails' /\ Reports'
  BY <1>1, <1>2 DEF Stages, Stage, Single, Mails, Reports
<1>4. Endings'
  BY <1>1 DEF Endings, Ended
<1>5. Joins'
  BY <1>1, <1>2 DEF Joins, Started
<1> QED BY <1>3, <1>4, <1>5 DEF Creation

LEMMA CallerMoves ==
  ASSUME Early, NEW c \in Callers, NEW t, th' = [th EXCEPT ![c] = t],
         t.pc \in {"idle", "stop", "order", "wait", "converge"}, UNCHANGED <<stack, rows, phys, points, mail>>
  PROVE  Creation'
<1>1. /\ \A q \in Workers \cup {Creator} : th'[q] = th[q]
      /\ \A q \in Callers : q # c => th'[q] = th[q]
      /\ th'[c] = t
  BY Crew, ThreadsAssumption DEF Early, Threads
<1>2. \A q \in Callers : th'[q].pc \in {"idle", "stop", "order", "wait", "converge"}
  BY <1>1 DEF Early, Creation, Places
<1> QED BY <1>1, <1>2, Aside

LEMMA RequestCreates == ASSUME Early, NEW c \in Callers, Request(c) PROVE Creation'
<1>1. UNCHANGED <<stack, rows, phys, points, mail>>
  BY DEF Request
<1>2. CASE UNCHANGED th
  BY <1>1, <1>2, Aside DEF Early, Creation, Places
<1>3. CASE ~(UNCHANGED th)
  <2> DEFINE what == wish[c]
  <2>1. ~Refused(what) /\ Accept(c, what)
    BY <1>3 DEF Request
  <2>2. what # "rollback"
    BY <2>1 DEF Refused, Early, Creation, Copies, Whole
  <2> DEFINE start == [Idle EXCEPT !.stk = stack]
             t == CASE what = "delete" -> [start EXCEPT !.pc = IF stack.status = "IN_PROGRESS" THEN "stop" ELSE "order",
                                          !.to = [tmpl |-> Empty, action |-> "DELETE"]]
                    [] OTHER -> [start EXCEPT !.pc = "converge", !.seen = ByName, !.to = [tmpl |-> what, action |-> "UPDATE"]]
  <2>3. th' = [th EXCEPT ![c] = t]
    BY <2>1, <2>2 DEF Accept
  <2>4. t.pc \in {"stop", "order", "converge"}
    BY DEF Idle
  <2> HIDE DEF t
  <2> QED BY <1>1, <2>3, <2>4, CallerMoves
<1> QED BY <1>2, <1>3

LEMMA CallerCreates == ASSUME Early, NEW c \in Callers, CallerStep(c) PROVE Creation'
<1>1. ~Stop(c)
  BY DEF Stop, Early
<1>2. ~FailStopped(c)
  BY DEF FailStopped, At, Early, Creation, Places
<1>3. PICK label \in {"wait", "converge"} : Goto(c, label) /\ UNCHANGED <<stack, rows, phys, points, mail>>
  BY <1>1, <1>2 DEF CallerStep, Order, Wait
<1> DEFINE t == [th[c] EXCEPT !.pc = label]
<1>4. th' = [th EXCEPT ![c] = t]
  BY <1>3 DEF Goto
<1>5. t.pc = label
  BY Types DEF ThreadsUpTo, Early
<1> HIDE DEF t
<1> QED BY <1>3, <1>4, <1>5, CallerMoves

(* A thread that ends or goes on to what is no more about a row, with the  *)
(* rows and messages as they were.                                         *)
Inert == {"idle", "complete", "purge", "end", "erase", "fail", "rollback", "converge", "reload", "retrigger"}

LEMMA Busy ==
  ASSUME Early, NEW w \in Workers, th[w].pc # "idle"
  PROVE  ~Preparing
BY DEF Early, Creation, Untouched

LEMMA Parts ==
  ASSUME Early, ~Preparing, NEW p \in Workers \cup {Creator}, NEW t, th' = [th EXCEPT ![p] = t],
         t.pc \in Inert, p = Creator => t.pc \in {"idle", "complete", "purge", "end", "erase"},
         Kept, \A i \in DOMAIN rows : rows'[i] = rows[i] \/ (p \in Workers /\ Doing(p) /\ Own(p) = i),
         UNCHANGED mail, PointsKept, Reports', Alike, Copied(p)', Ended(p)', stack'.status = "COMPLETE" => AllServed
  PROVE  Creation'
<1>1. Moves(p) /\ th'[p] = t /\ p \in Threads
  BY Crew DEF Early, Threads, Moves
<1>2. ~Doing(p)'
  BY <1>1 DEF Doing, Active, Inert
<1>3. Places'
  <2>1. \A q \in Threads : q # p => th'[q] = th[q]
    BY <1>1 DEF Moves
  <2>2. \A c \in Callers : c # p /\ c \in Threads
    BY ThreadsAssumption DEF Threads
  <2>3. \A q \in Workers : q # Creator /\ q \in Threads
    BY ThreadsAssumption DEF Threads
  <2>4. Creator \in Threads
    BY DEF Threads
  <2> QED BY <1>1, <2>1, <2>2, <2>3, <2>4 DEF Places, Early, Creation, Inert
<1>4. MailsKept /\ Sole(p) /\ Stage(p)'
  BY <1>2 DEF MailsKept, Sole, Stage
<1> QED BY <1>1, <1>3, <1>4, Onward

LEMMA Withdraws ==
  ASSUME Early, ~Preparing, NEW p \in Workers \cup {Creator}, NEW t, th' = [th EXCEPT ![p] = t],
         t.pc \in Inert, p = Creator => t.pc \in {"idle", "complete", "purge", "end", "erase"},
         RowsSame, UNCHANGED <<phys, mail>>, PointsKept, Reports', Alike, Copied(p)', Ended(p)',
         stack'.status = "COMPLETE" => AllServed
  PROVE  Creation'
<1>1. Kept
  BY Unmoved DEF Alike
<1> QED BY <1>1, Parts DEF RowsSame

LEMMA AllKept ==
  ASSUME Early, RowsSame, UNCHANGED <<stack, phys, points>>
  PROVE  /\ PointsKept /\ Reports' /\ Alike
         /\ stack'.status = "COMPLETE" => AllServed
BY DEF RowsSame, PointsKept, Early, Creation, Reports, Served, InService, Copies, Whole, Alike, Endings

LEMMA Quits ==
  ASSUME Early, ~Preparing, NEW p \in Workers \cup {Creator}, Leave(p), UNCHANGED <<stack, rows, phys, points, mail>>
  PROVE  Creation'
<1>1. th' = [th EXCEPT ![p] = Idle] /\ Idle.pc = "idle"
  BY DEF Leave, Idle
<1>2. th'[p] = Idle
  BY <1>1, Crew DEF Early, Threads
<1>3. Copied(p)' /\ Ended(p)'
  BY <1>1, <1>2 DEF Copied, Ended
<1> HIDE DEF Idle
<1> QED BY <1>1, <1>3, AllKept, Withdraws DEF RowsSame, Inert

LEMMA AimCreates == ASSUME Early, NEW p \in Threads, Rollback(p) \/ Converge(p) \/ Drop(p) PROVE Creation'
<1>1. CASE Rollback(p)
  <2>1. p \in Workers /\ th[p].pc = "rollback"
    BY <1>1 DEF Rollback, At, Threads, Early, Creation, Places
  <2>2. Copied(p) /\ th[p].stk.prev = None /\ ~Preparing
    BY <2>1, Busy DEF Early, Creation, Copies, Copied, Whole
  <2> DEFINE t == [th[p] EXCEPT !.pc = "converge", !.stk.prev = None, !.to = [tmpl |-> Empty, action |-> "ROLLBACK"]]
  <2>3. th' = [th EXCEPT ![p] = t] /\ UNCHANGED <<stack, rows, phys, points, mail>>
    BY ONLY <1>1, <2>2 DEF Rollback
  <2>4. th[p] \in ThreadsUpTo(used, fresh) /\ th[p].stk \in StacksUpTo(used, fresh)
    BY <2>1, Types DEF Early
  <2>5. t.pc = "converge" /\ t.stk = [th[p].stk EXCEPT !.prev = None]
    BY ONLY <2>4 DEF ThreadsUpTo
  <2>6. /\ t.stk.action = th[p].stk.action /\ t.stk.tmpl = th[p].stk.tmpl /\ t.stk.prev = None
        /\ t.stk.gone = th[p].stk.gone /\ t.stk.trav = th[p].stk.trav /\ t.stk.deps = th[p].stk.deps
    BY ONLY <2>4, <2>5 DEF StacksUpTo
  <2> HIDE DEF t
  <2>7. th'[p] = t
    BY <2>1, <2>3, Types, Crew DEF Early
  <2>8. Copied(p)' /\ Ended(p)'
    BY <2>1, <2>2, <2>3, <2>5, <2>6, <2>7 DEF Copied, Whole, Ended
  <2> QED BY <2>1, <2>2, <2>3, <2>5, <2>8, ThreadsAssumption, AllKept, Withdraws DEF RowsSame, Inert
<1>2. CASE Converge(p)
  <2>1. Leave(p) /\ UNCHANGED <<stack, rows, phys, points, mail>>
    BY <1>2 DEF Converge, Early
  <2>2. CASE p \in Callers
    BY <2>1, <2>2, CallerMoves DEF Leave, Idle
  <2>3. CASE p \notin Callers
    <3>1. p \in Workers
      BY <1>2, <2>3 DEF Converge, At, Threads, Early, Creation, Places
    <3>2. ~Preparing
      BY <1>2, <3>1, Busy DEF Converge, At
    <3> QED BY <2>1, <3>1, <3>2, Quits
  <2> QED BY <2>2, <2>3
<1>3. ~Drop(p)
  BY DEF Drop, At, Threads, Early, Creation, Places, Active
<1> QED BY <1>1, <1>2, <1>3

(* state_set, with what a worker or the creation goes on to. *)
LEMMA SetsState ==
  ASSUME Early, ~Preparing, NEW p \in Workers \cup {Creator}, th[p].pc \notin {"idle", "retrigger"}, UNCHANGED <<rows, phys, points, mail>>,
         NEW status, status = "COMPLETE" => AllServed,
         NEW next \in {"purge", "rollback"}, NEW otherwise \in {"idle", "reload"},
         p = Creator => next = "purge" /\ otherwise = "idle",
         SetState(p, status, next, otherwise)
  PROVE  Creation'
<1>1. /\ p \in Threads /\ Copied(p) /\ th \in [Threads -> ThreadsUpTo(used, fresh)] /\ th[p] \in ThreadsUpTo(used, fresh)
      /\ th[p].stk \in StacksUpTo(used, fresh) /\ stack \in StacksUpTo(used, fresh) /\ th[p].pc \notin {"rows", "graph"}
  BY Types, Crew DEF Early, Creation, Copies, Places, Preparing, Active
<1>2. /\ Whole(stack) /\ Whole(th[p].stk) /\ th[p].stk.trav = 1 /\ th[p].stk.deps = stack.deps
  BY <1>1 DEF Early, Creation, Copies, Copied
<1>3. CASE Current(p)
  <2> DEFINE t == [th[p] EXCEPT !.stk.status = status, !.pc = next]
  <2>1. stack' = [stack EXCEPT !.action = th[p].stk.action, !.status = status] /\ th' = [th EXCEPT ![p] = t]
    BY <1>3, ZenonT(40) DEF SetState
  <2>2. /\ stack'.action = "CREATE" /\ stack'.tmpl = stack.tmpl /\ stack'.prev = stack.prev /\ stack'.gone = stack.gone
        /\ stack'.deps = stack.deps /\ stack'.status = status
    BY <1>1, <1>2, <2>1 DEF StacksUpTo, Whole
  <2>3. Alike
    BY <1>2, <2>2 DEF Alike, Whole
  <2>4. t.pc = next /\ t.stk = [th[p].stk EXCEPT !.status = status]
    BY ONLY <1>1 DEF ThreadsUpTo
  <2>5. /\ t.stk.action = th[p].stk.action /\ t.stk.tmpl = th[p].stk.tmpl /\ t.stk.prev = th[p].stk.prev
        /\ t.stk.gone = th[p].stk.gone /\ t.stk.trav = th[p].stk.trav /\ t.stk.deps = th[p].stk.deps /\ t.stk.status = status
    BY ONLY <1>1, <2>4 DEF StacksUpTo
  <2> HIDE DEF t
  <2>6. th'[p] = t
    BY <1>1, <2>1
  <2>7. Copied(p)'
    BY <1>2, <2>2, <2>4, <2>5, <2>6 DEF Copied, Whole
  <2>8. PointsKept /\ Reports'
    <3>1. \A i : Served(i)' <=> Served(i)
      BY <2>2 DEF Served, InService
    <3> QED BY <3>1 DEF PointsKept, Early, Creation, Reports
  <2>9. AllServed => AllServed'
    BY <2>2 DEF AllServed, Served, InService
  <2>10. Ended(p)'
    BY <2>4, <2>5, <2>6, <2>9 DEF Ended
  <2> QED BY <2>1, <2>2, <2>3, <2>4, <2>7, <2>8, <2>10, Withdraws DEF RowsSame, Inert
<1>4. CASE ~Current(p)
  <2> DEFINE t == IF otherwise = "idle" \/ stack.gone THEN Idle ELSE [th[p] EXCEPT !.pc = otherwise]
  <2>1. th' = [th EXCEPT ![p] = t] /\ UNCHANGED stack
    BY <1>4 DEF SetState
  <2>2. CASE t = Idle
    BY <2>1, <2>2, Quits DEF Leave
  <2>3. CASE t # Idle
    <3>1. t.pc = "reload" /\ t.stk = th[p].stk /\ p # Creator
      BY <1>1, <2>3 DEF ThreadsUpTo
    <3> HIDE DEF t
    <3>2. th'[p] = t
      BY <1>1, <2>1
    <3>3. Copied(p)' /\ Ended(p)'
      BY <1>2, <2>1, <3>1, <3>2 DEF Copied, Whole, Ended
    <3> QED BY <2>1, <3>1, <3>3, AllKept, Withdraws DEF RowsSame, Inert
  <2> QED BY <2>2, <2>3
<1> QED BY <1>3, <1>4

LEMMA AtEnd ==
  ASSUME Early, NEW p \in Threads, th[p].pc \in {"complete", "purge", "end", "erase"}
  PROVE  /\ p \in Workers \cup {Creator} /\ ~Preparing /\ Ended(p)
         /\ th[p] \in ThreadsUpTo(used, fresh) /\ th \in [Threads -> ThreadsUpTo(used, fresh)]
         /\ th[p].stk \in StacksUpTo(used, fresh)
         /\ Whole(stack) /\ Whole(th[p].stk) /\ th[p].stk.trav = 1 /\ th[p].stk.deps = stack.deps
<1>1. p \in Workers \cup {Creator}
  BY DEF Early, Creation, Places, Threads
<1>2. ~Preparing
  BY <1>1, Busy DEF Preparing
<1>3. Copied(p) /\ Ended(p) /\ Whole(stack)
  BY <1>1 DEF Early, Creation, Copies, Endings
<1> QED BY <1>1, <1>2, <1>3, Types, Crew DEF Early, Copied

LEMMA SettleCreates ==
  ASSUME Early, NEW p \in Threads, Complete(p) \/ (p \in Workers /\ Fail(p))
  PROVE  Creation'
<1>1. CASE Complete(p)
  <2>1. th[p].pc = "complete" /\ SetState(p, "COMPLETE", "purge", "idle") /\ UNCHANGED <<rows, phys, points, mail>>
    BY <1>1 DEF Complete, At
  <2>2. AllServed
    BY <2>1, AtEnd DEF Ended
  <2> QED BY <2>1, <2>2, AtEnd, SetsState
<1>2. CASE p \in Workers /\ Fail(p)
  <2>1. PICK next \in {"purge", "rollback"} : SetState(p, "FAILED", next, "reload")
    BY <1>2 DEF Fail
  <2>2. th[p].pc = "fail" /\ UNCHANGED <<rows, phys, points, mail>> /\ p # Creator
    BY <1>2, ThreadsAssumption DEF Fail, At
  <2>3. ~Preparing
    BY <1>2, <2>2, Busy
  <2> QED BY <1>2, <2>1, <2>2, <2>3, SetsState
<1> QED BY <1>1, <1>2

LEMMA PurgeCreates == ASSUME Early, NEW p \in Threads, Purge(p) PROVE Creation'
<1>1. th[p].pc = "purge" /\ Goto(p, "end") /\ UNCHANGED <<stack, phys, points, mail>>
  BY DEF Purge, At
<1>2. RowsSame
  <2>1. \A i \in DOMAIN rows : ~Deleted(rows[i])
    BY DEF Early, Creation, Listed, Deleted
  <2> QED BY <2>1 DEF Purge, RestrictValues, Restrict, RowsSame
<1> DEFINE t == [th[p] EXCEPT !.pc = "end"]
<1>3. th' = [th EXCEPT ![p] = t]
  BY <1>1 DEF Goto
<1>4. t.pc = "end" /\ t.stk = th[p].stk
  BY <1>1, AtEnd DEF ThreadsUpTo
<1> HIDE DEF t
<1>5. th'[p] = t
  BY <1>1, <1>3, AtEnd
<1>6. Copied(p)'
  BY <1>1, <1>4, <1>5, AtEnd DEF Copied, Whole
<1>7. Ended(p)'
  <2>1. AllServed => AllServed'
    BY <1>1, <1>2 DEF AllServed, Served, InService, RowsSame
  <2> QED BY <1>1, <1>4, <1>5, <2>1, AtEnd DEF Ended
<1> QED BY <1>1, <1>2, <1>3, <1>4, <1>6, <1>7, AtEnd, AllKept, Withdraws DEF Inert

LEMMA EndCreates == ASSUME Early, NEW p \in Threads, End(p) PROVE Creation'
<1> DEFINE s == th[p].stk
<1>1. th[p].pc = "end" /\ UNCHANGED <<rows, phys, points, mail>>
  BY DEF End, At
<1>2. CASE ~Current(p)
  BY <1>1, <1>2, AtEnd, Quits DEF End
<1>3. CASE Current(p)
  <2>1. /\ s.action = "CREATE" /\ s.tmpl = stack.tmpl /\ s.prev = None /\ ~s.gone /\ s.deps = stack.deps
        /\ s \in StacksUpTo(used, fresh) /\ s.trav = 1
    BY <1>1, AtEnd DEF Whole
  <2>2. /\ stack' = [s EXCEPT !.trav = IF s.status = "FAILED" THEN 0 ELSE @,
                              !.prev = IF s.status = "FAILED" THEN @ ELSE None]
        /\ Goto(p, "erase")
    BY <1>3 DEF End
  <2>3. /\ stack'.action = "CREATE" /\ stack'.tmpl = stack.tmpl /\ stack'.prev = None /\ ~stack'.gone
        /\ stack'.deps = stack.deps /\ stack'.status = s.status
    BY <2>1, <2>2 DEF StacksUpTo
  <2>4. Alike
    BY <2>3 DEF Alike, Whole
  <2>5. \A i : Served(i)' <=> Served(i)
    BY <1>1, <2>3 DEF Served, InService
  <2>6. PointsKept /\ Reports'
    BY <1>1, <2>5 DEF PointsKept, Early, Creation, Reports
  <2>7. stack'.status = "COMPLETE" => AllServed
    BY <1>1, <2>3, AtEnd DEF Ended
  <2> DEFINE t == [th[p] EXCEPT !.pc = "erase"]
  <2>8. th' = [th EXCEPT ![p] = t]
    BY <2>2 DEF Goto
  <2>9. t.pc = "erase" /\ t.stk = s
    BY <1>1, AtEnd DEF ThreadsUpTo
  <2> HIDE DEF t
  <2>10. th'[p] = t
    BY <1>1, <2>8, AtEnd
  <2>11. Copied(p)'
    BY <2>1, <2>3, <2>9, <2>10 DEF Copied, Whole
  <2>12. Ended(p)'
    <3>1. AllServed => AllServed'
      BY <1>1, <2>5 DEF AllServed
    <3> QED BY <1>1, <2>9, <2>10, <3>1, AtEnd DEF Ended
  <2> QED BY <1>1, <2>4, <2>6, <2>7, <2>8, <2>9, <2>11, <2>12, AtEnd, Withdraws DEF RowsSame, Inert
<1> QED BY <1>2, <1>3

LEMMA EraseCreates == ASSUME Early, NEW p \in Threads, Erase(p) PROVE Creation'
<1>1. th[p].pc = "erase" /\ UNCHANGED <<stack, rows, phys, mail>> /\ DropPoints(th[p].stk.trav)
  BY DEF Erase, At
<1>2. th[p].stk.action = "CREATE" /\ Leave(p)
  BY <1>1, AtEnd DEF Erase, Whole
<1>3. \A k \in DOMAIN points' : k \in DOMAIN points /\ points'[k] = points[k]
  BY <1>1 DEF DropPoints, RestrictDomain, Restrict
<1>4. PointsKept /\ Reports'
  <2>1. \A i : Served(i)' <=> Served(i)
    BY <1>1 DEF Served, InService
  <2> QED BY <1>1, <1>3, <2>1 DEF PointsKept, Early, Creation, Reports
<1>5. Alike /\ (stack'.status = "COMPLETE" => AllServed)
  BY <1>1, AtEnd DEF Alike, Whole, Early, Creation, Endings
<1>6. th' = [th EXCEPT ![p] = Idle] /\ Idle.pc = "idle"
  BY <1>2 DEF Leave, Idle
<1>7. th'[p] = Idle
  BY <1>1, <1>6, AtEnd
<1>8. Copied(p)' /\ Ended(p)'
  BY <1>6, <1>7 DEF Copied, Ended
<1> HIDE DEF Idle
<1> QED BY <1>1, <1>4, <1>5, <1>6, <1>8, AtEnd, Withdraws DEF RowsSame, Inert

LEMMA OnlyCreator ==
  ASSUME Early, NEW p \in Threads, th[p].pc \in {"rows", "graph", "launch"}
  PROVE  /\ p = Creator /\ Preparing /\ p \in Workers \cup {Creator} /\ th[p] \in ThreadsUpTo(used, fresh)
         /\ th \in [Threads -> ThreadsUpTo(used, fresh)] /\ th[p].stk \in StacksUpTo(used, fresh)
         /\ Whole(stack) /\ Whole(th[p].stk) /\ th[p].stk.trav = 1
         /\ stack.trav = 1 /\ stack.status = "IN_PROGRESS" /\ DOMAIN points = {} /\ BagToSet(mail) = {}
         /\ \A w \in Workers : th[w].pc = "idle"
         /\ \A i \in DOMAIN rows : rows[i].action = "INIT"
         /\ stack.tmpl \in DOMAIN Def
<1>1. p = Creator
  BY DEF Early, Creation, Places, Threads, Active
<1>2. Preparing /\ Copied(p)
  BY <1>1 DEF Preparing, Early, Creation, Copies
<1> QED BY <1>1, <1>2, Types, Crew DEF Early, Creation, Copies, Copied, Untouched

LEMMA PlacesAhead ==
  ASSUME Early, Moves(Creator), th'[Creator].pc \in {"idle", "rows", "graph", "launch", "complete"}
  PROVE  Places' /\ \A w \in Workers : th'[w] = th[w]
<1>1. \A q \in Workers \cup Callers : q \in Threads \ {Creator}
  BY ThreadsAssumption DEF Threads
<1> QED BY <1>1 DEF Moves, Places, Early, Creation

LEMMA StoreGraphCreates == ASSUME Early, NEW p \in Threads, StoreGraph(p) PROVE Creation'
<1>1. th[p].pc = "graph"
  BY DEF StoreGraph, At
<1>2. Current(p)
  BY <1>1, OnlyCreator DEF Current, Whole
<1>3. stack' = th[p].stk /\ Goto(p, "launch") /\ UNCHANGED <<rows, phys, points, mail>>
  BY <1>2 DEF StoreGraph
<1> DEFINE t == [th[p] EXCEPT !.pc = "launch"]
<1>4. th' = [th EXCEPT ![p] = t] /\ Moves(p)
  BY <1>3, <1>1, OnlyCreator DEF Goto, Moves
<1>5. t.pc = "launch" /\ t.stk = th[p].stk
  BY <1>1, OnlyCreator DEF ThreadsUpTo
<1> HIDE DEF t
<1>6. th'[Creator] = t /\ p = Creator
  BY <1>1, <1>4, OnlyCreator
<1>7. Places' /\ \A w \in Workers : th'[w] = th[w]
  BY <1>4, <1>5, <1>6, PlacesAhead
<1>8. stack'.tmpl = stack.tmpl /\ Whole(stack')
  BY <1>1, <1>3, OnlyCreator DEF Whole
<1>9. Copies'
  <2>1. Copied(Creator)'
    BY <1>1, <1>3, <1>5, <1>6, <1>8, OnlyCreator DEF Copied, Whole
  <2>2. \A w \in Workers : Copied(w)'
    BY <1>1, <1>7, OnlyCreator DEF Copied
  <2> QED BY <1>8, <2>1, <2>2 DEF Copies, Whole
<1>10. Preparing' /\ Untouched'
  <2>1. Creation /\ th'[Creator].pc = "launch" /\ \A w \in Workers : th'[w].pc = "idle"
    BY <1>1, <1>5, <1>6, <1>7, OnlyCreator DEF Early
  <2>2. th[p].stk.status = "IN_PROGRESS"
    BY <1>1, <1>6 DEF Early, Creation, Untouched
  <2> QED BY <1>1, <1>3, <1>6, <2>1, <2>2, OnlyCreator DEF Untouched, Preparing
<1>11. Charted' /\ Listed'
  <2>1. Graph' = Graph
    BY <1>1, <1>3, <1>5, <1>6 DEF Graph
  <2> QED BY <1>1, <1>3, <1>5, <1>6, <1>8, <2>1, ZenonT(40) DEF Early, Creation, Charted, Listed, Requires, Up
<1> QED BY <1>7, <1>9, <1>10, <1>11, Ahead

(* The graph of a stack that has no row yet. *)
LEMMA FirstGraph ==
  ASSUME NEW t \in DOMAIN Def, NEW cur, DOMAIN cur = DOMAIN Def[t],
         \A m, n \in DOMAIN cur : cur[m] = cur[n] => m = n, NEW found, DOMAIN found = {}
  PROVE  /\ GraphOf(t, cur, found).nodes = {Up(cur[n]) : n \in DOMAIN cur}
         /\ \A m, n \in DOMAIN cur :
              <<Up(cur[n]), Up(cur[m])>> \in GraphOf(t, cur, found).edges <=> m \in Def[t][n].needs
<1> DEFINE ups == {Node(cur[n], TRUE) : n \in DOMAIN cur}
           downs == {Node(i, FALSE) : i \in DOMAIN found}
           Needs(a, b) == \E n \in DOMAIN cur : \E m \in Def[t][n].needs : a.id = cur[n] /\ b.id = cur[m]
           Outlives(a, b) == a.id \in found[b.id].requires \/ a.id = found[b.id].replaces
           first == {e \in ups \X ups : Needs(e[1], e[2])}
           second == {e \in downs \X downs : Outlives(e[1], e[2])}
           third == {<<Node(i, FALSE), Node(i, TRUE)>> : i \in DOMAIN found \cap Range(cur)}
<1>1. GraphOf(t, cur, found) = [nodes |-> ups \cup downs, edges |-> first \cup second \cup third]
  BY DEF GraphOf, Pairs
<1>2. downs = {} /\ third = {} /\ second = {}
  OBVIOUS
<1>3. ASSUME NEW m \in DOMAIN cur, NEW n \in DOMAIN cur
      PROVE  <<Up(cur[n]), Up(cur[m])>> \in first <=> m \in Def[t][n].needs
  <2>1. Up(cur[n]) \in ups /\ Up(cur[m]) \in ups /\ Up(cur[n]).id = cur[n] /\ Up(cur[m]).id = cur[m]
    BY DEF Up, Node
  <2>2. Def[t][n].needs \subseteq DOMAIN cur /\ \A k \in DOMAIN cur : Def[t][k].needs \subseteq DOMAIN cur
    OBVIOUS
  <2>3. <<Up(cur[n]), Up(cur[m])>> \in first <=> Needs(Up(cur[n]), Up(cur[m]))
    BY <2>1
  <2>4. Needs(Up(cur[n]), Up(cur[m])) <=> m \in Def[t][n].needs
    BY <2>1, <2>2
  <2> QED BY <2>3, <2>4
<1>4. ups = {Up(cur[n]) : n \in DOMAIN cur}
  BY DEF Up
<1> HIDE DEF ups, downs, first, second, third
<1>5. GraphOf(t, cur, found).nodes = ups /\ GraphOf(t, cur, found).edges = first
  BY <1>1, <1>2
<1> QED BY <1>3, <1>4, <1>5

LEMMA RowsCreates == ASSUME Early, NEW p \in Threads, Rows(p) PROVE Creation'
<1>1. th[p].pc = "rows" /\ UNCHANGED <<stack, phys, points, mail>>
  BY DEF Rows, At
<1> DEFINE s      == th[p].stk
           seen   == IF th[p].seen = None THEN ByName ELSE th[p].seen
           found  == RestrictValues(rows, LAMBDA r : ~Deleted(r))
           names  == DOMAIN Def[s.tmpl]
           kept   == {n \in names : Best(n, s, found) # {}}
           again  == {n \in names \ kept : n \in DOMAIN seen}
           made   == names \ (kept \cup again)
           ids    == CHOOSE f \in [made -> used + 1 .. used + Cardinality(made)] : IsInjective(f)
           action == IF s.action = "ROLLBACK" THEN "ROLLBACK" ELSE "INIT"
           Copy(n) == [seen[n].row EXCEPT !.tmpl = s.tmpl, !.lock = rows[seen[n].id].lock]
           Fill(n) == NewRow(n, s.tmpl, action, None, {})
<1>2. p = Creator /\ DOMAIN rows = {} /\ th[p].seen = None /\ s.status = "IN_PROGRESS"
  BY <1>1, OnlyCreator DEF Early, Creation, Untouched
<1>3. s.tmpl = stack.tmpl /\ s.action = "CREATE" /\ s.tmpl \in DOMAIN Def
  BY <1>1, OnlyCreator DEF Whole
<1>4. DOMAIN seen = {} /\ DOMAIN found = {}
  BY <1>2 DEF ByName, RestrictValues, Restrict
<1>5. kept = {} /\ again = {} /\ made = names /\ action = "INIT"
  <2> HIDE DEF found, seen
  <2>1. \A n \in names : Best(n, s, found) = {}
    BY <1>4 DEF Best
  <2> QED BY <1>3, <1>4, <2>1
<1>6. used \in Nat /\ IsFiniteSet(names)
  BY <1>3, Types DEF Early
<1>7. ids \in [names -> used + 1 .. used + Cardinality(names)] /\ IsInjective(ids)
  BY <1>5, <1>6, NumberingExists
<1>8. PICK best \in [kept -> DOMAIN found] :
        LET cur == [n \in names |-> CASE n \in kept -> best[n]
                                      [] n \in again -> seen[n].id
                                      [] OTHER -> ids[n]]
            New(i) == CHOOSE n \in again \cup made : cur[n] = i
            written == {cur[n] : n \in again \cup made}
        IN /\ rows' = [i \in DOMAIN rows \cup written |->
                         IF i \notin written THEN rows[i]
                         ELSE IF New(i) \in again THEN Copy(New(i)) ELSE Fill(New(i))]
           /\ th' = [th EXCEPT ![p].pc = "graph", ![p].seen = None, ![p].stk.deps = GraphOf(s.tmpl, cur, found)]
  BY <1>5 DEF Rows
<1> DEFINE cur == [n \in names |-> CASE n \in kept -> best[n]
                                     [] n \in again -> seen[n].id
                                     [] OTHER -> ids[n]]
           New(i) == CHOOSE n \in again \cup made : cur[n] = i
           written == {cur[n] : n \in again \cup made}
           g == GraphOf(s.tmpl, cur, found)
<1>9. /\ rows' = [i \in DOMAIN rows \cup written |->
                    IF i \notin written THEN rows[i]
                    ELSE IF New(i) \in again THEN Copy(New(i)) ELSE Fill(New(i))]
      /\ th' = [th EXCEPT ![p].pc = "graph", ![p].seen = None, ![p].stk.deps = g]
  BY <1>8
<1>10. DOMAIN cur = names /\ \A n \in names : cur[n] = ids[n]
  BY <1>5
<1> HIDE DEF ids, cur, found, seen, kept, again, made, action
<1>11. \A m, n \in names : cur[m] = cur[n] => m = n
  BY <1>7, <1>10 DEF IsInjective
<1>12. DOMAIN rows' = {cur[n] : n \in names}
  <2>1. again \cup made = names
    BY ONLY <1>5
  <2>2. written = {cur[n] : n \in names}
    BY ONLY <2>1
  <2> HIDE DEF written
  <2>3. DOMAIN rows' = DOMAIN rows \cup written
    BY ONLY <1>9
  <2> QED BY ONLY <1>2, <2>2, <2>3
<1>13. ASSUME NEW n \in names PROVE rows'[cur[n]] = NewRow(n, stack.tmpl, "INIT", None, {})
  <2>1. cur[n] \in written /\ New(cur[n]) = n
    BY ONLY <1>5, <1>11, <1>13
  <2>2. cur[n] \in DOMAIN rows' /\ New(cur[n]) \notin again
    BY ONLY <1>5, <1>9, <2>1
  <2>3. rows'[cur[n]] = Fill(New(cur[n]))
    BY ONLY <1>9, <2>1, <2>2
  <2> QED BY <1>3, <1>5, <2>1, <2>3
<1>14. /\ g.nodes = {Up(cur[n]) : n \in names}
       /\ \A m, n \in names : <<Up(cur[n]), Up(cur[m])>> \in g.edges <=> m \in Def[stack.tmpl][n].needs
  <2>1. s.tmpl \in DOMAIN Def /\ DOMAIN cur = DOMAIN Def[s.tmpl] /\ DOMAIN found = {} /\ s.tmpl = stack.tmpl
    BY <1>3, <1>4, <1>10
  <2>2. \A m, n \in DOMAIN cur : cur[m] = cur[n] => m = n
    BY <1>10, <1>11
  <2>3. /\ g.nodes = {Up(cur[n]) : n \in DOMAIN cur}
        /\ \A m, n \in DOMAIN cur : <<Up(cur[n]), Up(cur[m])>> \in g.edges <=> m \in Def[s.tmpl][n].needs
    BY ONLY <2>1, <2>2, FirstGraph
  <2> QED BY ONLY <1>10, <2>1, <2>3
<1> HIDE DEF g, names
<1> DEFINE t == [th[p] EXCEPT !.pc = "graph", !.seen = None, !.stk.deps = g]
<1>15. th' = [th EXCEPT ![p] = t] /\ Moves(p)
  <2>1. th' = [th EXCEPT ![p].pc = "graph", ![p].seen = None, ![p].stk.deps = g]
    BY ONLY <1>9
  <2>2. th \in [Threads -> ThreadsUpTo(used, fresh)]
    BY <1>1, OnlyCreator
  <2> QED BY ONLY <2>1, <2>2, p \in Threads DEF Moves
<1>16. t.pc = "graph" /\ t.stk = [th[p].stk EXCEPT !.deps = g]
  BY <1>1, OnlyCreator DEF ThreadsUpTo
<1>17. /\ t.stk.action = s.action /\ t.stk.tmpl = s.tmpl /\ t.stk.prev = s.prev
       /\ t.stk.gone = s.gone /\ t.stk.trav = s.trav /\ t.stk.deps = g /\ t.stk.status = s.status
  BY <1>1, <1>16, OnlyCreator DEF StacksUpTo
<1> HIDE DEF t
<1>18. th'[Creator] = t
  BY <1>1, <1>2, <1>15, OnlyCreator
<1>19. Places' /\ \A w \in Workers : th'[w] = th[w]
  BY <1>2, <1>15, <1>16, <1>18, PlacesAhead
<1>20. Copies'
  <2>1. Copied(Creator)'
    BY <1>1, <1>16, <1>17, <1>18, OnlyCreator DEF Copied, Whole
  <2>2. \A w \in Workers : Copied(w)'
    BY <1>1, <1>19, OnlyCreator DEF Copied
  <2> QED BY <1>1, <2>1, <2>2, OnlyCreator DEF Copies, Whole
<1>21. ASSUME NEW i \in DOMAIN rows'
       PROVE  /\ rows'[i].name \in names /\ i = cur[rows'[i].name]
              /\ rows'[i].tmpl = stack.tmpl /\ rows'[i].replaces = None /\ rows'[i].action = "INIT"
  <2>1. PICK n \in names : i = cur[n]
    BY <1>12, <1>21
  <2>2. rows'[i] = NewRow(n, stack.tmpl, "INIT", None, {})
    BY <1>13, <2>1
  <2> QED BY <2>1, <2>2 DEF NewRow
<1>22. Listed' /\ \A i \in DOMAIN rows' : rows'[i].action = "INIT"
  <2>1. names = DOMAIN Def[stack.tmpl] /\ stack' = stack
    BY <1>1, <1>3 DEF names
  <2> QED BY ONLY <1>21, <2>1 DEF Listed
<1>23. Preparing' /\ Untouched'
  <2>1. th'[Creator].pc = "graph" /\ th'[Creator].stk.status = "IN_PROGRESS"
    BY <1>2, <1>16, <1>17, <1>18
  <2>2. \A w \in Workers : th'[w].pc = "idle"
    BY <1>1, <1>19, OnlyCreator
  <2>3. stack'.trav = 1 /\ stack'.status = "IN_PROGRESS" /\ DOMAIN points' = {} /\ BagToSet(mail') = {}
    BY <1>1, OnlyCreator
  <2> QED BY ONLY <1>22, <2>1, <2>2, <2>3 DEF Preparing, Untouched
<1>24. Charted'
  <2>1. Graph' = g
    BY <1>16, <1>17, <1>18 DEF Graph
  <2>2. ASSUME NEW n \in names PROVE cur[n] \in DOMAIN rows' /\ rows'[cur[n]].name = n
    <3>1. cur[n] \in DOMAIN rows'
      BY <1>12
    <3>2. rows'[cur[n]] = NewRow(n, stack.tmpl, "INIT", None, {})
      BY <1>13
    <3> QED BY <3>1, <3>2 DEF NewRow
  <2>3. \A i \in DOMAIN rows' : rows'[i].name \in names /\ i = cur[rows'[i].name]
    BY <1>21
  <2>4. g.nodes = {Up(i) : i \in DOMAIN rows'}
    BY <1>12, <1>14
  <2>5. \A i, j \in DOMAIN rows' : <<Up(i), Up(j)>> \in g.edges <=> rows'[j].name \in Def[stack.tmpl][rows'[i].name].needs
    BY <1>14, <2>3
  <2>6. stack'.tmpl = stack.tmpl /\ names = DOMAIN Def[stack.tmpl]
    BY <1>1, <1>3 DEF names
  <2>7. \A n \in DOMAIN Def[stack'.tmpl] : \E i \in DOMAIN rows' : rows'[i].name = n
    BY <2>2, <2>6
  <2>8. \A i, j \in DOMAIN rows' : rows'[i].name = rows'[j].name => i = j
    BY <2>3
  <2>9. \A i, j \in DOMAIN rows' : <<Up(i), Up(j)>> \in g.edges <=> Requires(i, j)'
    BY <2>5, <2>6 DEF Requires
  <2> QED BY <2>1, <2>4, <2>7, <2>8, <2>9 DEF Charted, Up
<1> QED BY <1>19, <1>20, <1>22, <1>23, <1>24, Ahead

LEMMA LaunchCreates == ASSUME Early, NEW p \in Threads, Launch(p) PROVE Creation'
<1> DEFINE s == th[p].stk
           made == {<<s.trav, n>> : n \in s.deps.nodes \cup {StackNode}}
           sent == {Message(s.trav, n, {}) : n \in Leaves(s.deps)}
<1>1. th[p].pc = "launch" /\ UNCHANGED <<stack, rows, phys>>
  BY DEF Launch, At
<1>2. /\ points' = [k \in DOMAIN points \cup made |-> IF k \in made THEN <<>> ELSE points[k]]
      /\ Post(sent)
      /\ IF s.deps.nodes = {} THEN Goto(p, "complete") ELSE Leave(p)
  BY DEF Launch
<1>3. s.trav = 1 /\ s.deps = stack.deps /\ p = Creator /\ DOMAIN points = {} /\ BagToSet(mail) = {}
  BY <1>1, OnlyCreator DEF Early, Creation, Copies, Copied
<1>4. /\ s.deps.nodes = {Up(i) : i \in DOMAIN rows}
      /\ \A i, j \in DOMAIN rows : <<Up(i), Up(j)>> \in s.deps.edges <=> Requires(i, j)
  BY <1>1, <1>3 DEF Early, Creation, Charted, Graph
<1>5. /\ \A k \in DOMAIN points' : DOMAIN points'[k] = {}
  BY <1>2, <1>3
<1>6. BagToSet(mail') = sent /\ \A m \in sent : mail'[m] = 1
  BY <1>2, <1>3 DEF Post, BagToSet, SetToBag, (+)
<1>7. ASSUME NEW m \in sent
      PROVE  \E i \in DOMAIN rows : /\ m = Message(1, Up(i), {}) /\ m.id = i /\ m.update = TRUE
                                    /\ \A j \in DOMAIN rows : <<Up(i), Up(j)>> \notin stack.deps.edges
  <2>1. PICK n \in Leaves(s.deps) : m = Message(s.trav, n, {})
    OBVIOUS
  <2>2. PICK i \in DOMAIN rows : n = Up(i)
    BY <1>4 DEF Leaves
  <2>3. \A j \in DOMAIN rows : <<Up(i), Up(j)>> \notin stack.deps.edges
    BY <1>3, <1>4, <2>2 DEF Leaves, Predecessors
  <2> QED BY <1>3, <2>1, <2>2, <2>3 DEF Message, Up, Node
<1> DEFINE t == IF s.deps.nodes = {} THEN [th[p] EXCEPT !.pc = "complete"] ELSE Idle
<1>8. th' = [th EXCEPT ![p] = t]
  BY <1>2 DEF Goto, Leave
<1>9. /\ t.pc \in {"complete", "idle"}
      /\ t.pc # "idle" => t.stk = th[p].stk
      /\ t.pc = "complete" => s.deps.nodes = {}
  BY <1>1, OnlyCreator DEF ThreadsUpTo, Idle
<1> HIDE DEF t, made, sent
<1>10. th'[Creator] = t /\ Moves(Creator)
  BY <1>1, <1>3, <1>8, OnlyCreator DEF Moves
<1>11. Places' /\ \A w \in Workers : th'[w] = th[w] /\ ~Doing(w)' /\ th'[w].pc = "idle"
  BY <1>1, <1>9, <1>10, PlacesAhead, OnlyCreator DEF Doing, Active
<1>12. Copies'
  <2>1. Copied(Creator) /\ Copied(Creator)'
    BY <1>1, <1>3, <1>9, <1>10, OnlyCreator DEF Early, Creation, Copies, Copied, Whole
  <2>2. \A w \in Workers : Copied(w)'
    BY <1>11 DEF Copied
  <2> QED BY <1>1, <2>1, <2>2, OnlyCreator DEF Copies, Whole
<1>13. Charted' /\ Listed' /\ Untouched'
  <2>1. Graph' = stack.deps /\ Graph = stack.deps
    BY <1>1, <1>3, <1>9, <1>10 DEF Graph
  <2>2. Charted /\ Listed /\ th[Creator].pc # "rows" /\ th'[Creator].pc \notin {"rows", "graph", "launch"}
    BY <1>1, <1>3, <1>9, <1>10 DEF Early, Creation
  <2>3. Charted' /\ Listed'
    BY <1>1, <2>1, <2>2 DEF Charted, Listed, Requires, Up
  <2> QED BY <2>2, <2>3 DEF Untouched, Preparing
<1>14. Stages' /\ Single'
  BY <1>11 DEF Stages, Stage, Single
<1>15. Endings'
  <2>1. t.pc = "complete" => DOMAIN rows = {}
    <3> SUFFICES ASSUME t.pc = "complete", NEW i \in DOMAIN rows PROVE FALSE
      OBVIOUS
    <3>1. Up(i) \in s.deps.nodes
      BY ONLY <1>4, i \in DOMAIN rows
    <3> QED BY <1>9, <3>1
  <2> QED BY <1>1, <1>9, <1>10, <1>11, <2>1, OnlyCreator DEF Endings, Ended, AllServed
<1>16. Mails'
  <2> SUFFICES ASSUME NEW m \in BagToSet(mail')
               PROVE  /\ mail'[m] = 1 /\ m.update /\ m.id \in DOMAIN rows' /\ rows'[m.id].action = "INIT"
                      /\ \A w \in Workers : Doing(w)' => Own(w)' # m.id
                      /\ \A x \in BagToSet(mail') : x.id = m.id => x = m
    BY DEF Mails
  <2>1. \A x \in BagToSet(mail') : x.id \in DOMAIN rows /\ x = Message(1, Up(x.id), {}) /\ x.update = TRUE
    BY <1>6, <1>7
  <2>2. rows'[m.id].action = "INIT"
    BY <1>1, <2>1, OnlyCreator
  <2> QED BY <1>1, <1>6, <1>11, <2>1, <2>2
<1>17. Joins'
  <2> SUFFICES ASSUME NEW i \in DOMAIN rows, NEW j \in DOMAIN rows, <<Up(j), Up(i)>> \in stack.deps.edges, Started(j)'
               PROVE  FALSE
    BY <1>1 DEF Joins, Up
  <2>1. PICK m \in BagToSet(mail') : m.id = j
    BY <1>1, <1>11, OnlyCreator DEF Started
  <2> QED BY <1>6, <1>7, <2>1
<1>18. Reports'
  BY <1>5 DEF Reports
<1> QED BY <1>11, <1>12, <1>13, <1>14, <1>15, <1>16, <1>17, <1>18 DEF Creation

LEMMA InitCreates == Init => Creation
<1> SUFFICES ASSUME Init PROVE Creation
  OBVIOUS
<1>1. /\ rows = <<>> /\ points = <<>> /\ mail = EmptyBag
      /\ th = [p \in Threads |-> IF p = Creator THEN [Idle EXCEPT !.pc = "rows", !.stk = stack] ELSE Idle]
  BY DEF Init
<1>2. /\ stack.trav = 1 /\ stack.status = "IN_PROGRESS" /\ stack.action = "CREATE" /\ stack.prev = None /\ stack.gone = FALSE
  BY DEF Init
<1>3. DOMAIN rows = {} /\ DOMAIN points = {} /\ BagToSet(mail) = {}
  BY <1>1 DEF EmptyBag, BagToSet, SetToBag
<1>4. th[Creator].pc = "rows" /\ th[Creator].stk = stack /\ th[Creator].seen = None
  BY <1>1 DEF Threads, Idle
<1>5. \A q \in Workers \cup Callers : th[q].pc = "idle"
  BY <1>1, ThreadsAssumption DEF Threads, Idle
<1>6. \A w \in Workers : ~Doing(w)
  BY <1>5 DEF Doing, Active
<1>7. Places /\ Copies /\ Untouched
  BY <1>2, <1>3, <1>4, <1>5 DEF Places, Copies, Copied, Whole, Untouched
<1>8. Charted /\ Listed /\ Stages /\ Single /\ Mails /\ Joins /\ Reports
  BY <1>3, <1>4, <1>6 DEF Charted, Listed, Stages, Stage, Single, Mails, Joins, Reports
<1>9. Endings
  BY <1>2, <1>4, <1>5 DEF Endings, Ended
<1> QED BY <1>7, <1>8, <1>9 DEF Creation

LEMMA AtWork ==
  ASSUME Early, NEW w \in Workers, Doing(w)
  PROVE  /\ w \in Threads /\ ~Preparing /\ w # Creator /\ th \in [Threads -> ThreadsUpTo(used, fresh)]
         /\ th[w] \in ThreadsUpTo(used, fresh) /\ th[w].rsrc \in RowsUpTo(used) /\ th[w].stk \in StacksUpTo(used, fresh)
         /\ th[w].msg \in MessagesUpTo(used, fresh) /\ th[w].msg.update = TRUE
         /\ Stage(w) /\ Here(w) /\ Own(w) \in DOMAIN rows /\ Update(w) /\ rows[Own(w)] \in RowsUpTo(used)
         /\ rows[Own(w)].name \in DOMAIN Def[stack.tmpl] /\ rows[Own(w)].tmpl = stack.tmpl /\ rows[Own(w)].replaces = None
         /\ Whole(th[w].stk) /\ th[w].stk.trav = 1 /\ th[w].stk.deps = stack.deps /\ th[w].stk.tmpl = stack.tmpl
         /\ GraphKey(w) = Up(Own(w))
<1>1. th[w].pc \in Checking /\ th[w].pc # "idle" /\ th[w].pc \notin {"retrigger", "rows", "graph"}
  BY DEF Doing, Active, Checking
<1>2. w # Creator /\ ~Preparing
  BY <1>1, Busy, ThreadsAssumption
<1>3. Stage(w) /\ Copied(w)
  BY DEF Early, Creation, Stages, Copies
<1>4. Here(w) /\ Update(w) /\ Own(w) \in DOMAIN rows /\ th[w].rsrc.replaces = None
  BY <1>3 DEF Stage, Here
<1>5. th[w].msg \in MessagesUpTo(used, fresh) /\ RowsFit(rows, used)
  BY <1>1, Hand DEF Early
<1>6. th[w].msg.update = TRUE
  BY <1>4, <1>5 DEF Update, MessagesUpTo
<1>7. rows[Own(w)] \in RowsUpTo(used)
  BY <1>4, <1>5 DEF RowsFit
<1>8. GraphKey(w) = Up(Own(w))
  BY <1>4, <1>6 DEF GraphKey, Up
<1>9. Whole(th[w].stk) /\ th[w].stk.trav = 1 /\ th[w].stk.deps = stack.deps /\ th[w].stk.tmpl = stack.tmpl
  BY <1>1, <1>3 DEF Copied, Whole
<1>10. rows[Own(w)].name \in DOMAIN Def[stack.tmpl] /\ rows[Own(w)].tmpl = stack.tmpl /\ rows[Own(w)].replaces = None
  BY <1>4 DEF Early, Creation, Listed
<1>11. w \in Threads /\ th[w] \in ThreadsUpTo(used, fresh) /\ th[w].rsrc \in RowsUpTo(used) /\ th[w].stk \in StacksUpTo(used, fresh)
       /\ th \in [Threads -> ThreadsUpTo(used, fresh)]
  BY <1>1, Hand DEF Early
<1> QED BY <1>2, <1>3, <1>4, <1>5, <1>6, <1>7, <1>8, <1>9, <1>10, <1>11

(* A worker goes on with its row. *)
LEMMA Carries ==
  ASSUME Early, NEW w \in Workers, Doing(w), NEW t, th' = [th EXCEPT ![w] = t], t.pc \in Active,
         t.msg = th[w].msg, t.stk = th[w].stk, UNCHANGED <<stack, points, mail>>, Kept,
         \A i \in DOMAIN rows : i # Own(w) => rows'[i] = rows[i], Stage(w)'
  PROVE  Creation'
<1>1. /\ w \in Threads /\ ~Preparing /\ th \in [Threads -> ThreadsUpTo(used, fresh)] /\ Whole(th[w].stk)
      /\ th[w].stk.trav = 1 /\ th[w].stk.deps = stack.deps /\ w # Creator
  BY AtWork
<1>2. Moves(w) /\ th'[w] = t
  BY <1>1 DEF Moves
<1>3. Places'
  <2>1. \A q \in Threads : q # w => th'[q] = th[q]
    BY <1>2 DEF Moves
  <2>2. (\A c \in Callers : c # w /\ c \in Threads) /\ Creator \in Threads /\ Workers \subseteq Threads
    BY ThreadsAssumption DEF Threads
  <2> QED BY <1>1, <1>2, <2>1, <2>2 DEF Places, Early, Creation
<1>4. Copied(w)' /\ Ended(w)'
  BY <1>1, <1>2 DEF Copied, Whole, Ended, Active
<1>5. Alike /\ PointsKept /\ MailsKept /\ (stack'.status = "COMPLETE" => AllServed)
  BY DEF Alike, PointsKept, MailsKept, Early, Creation, Copies, Whole, Endings
<1>6. Sole(w)
  BY <1>2, <1>5, StillSole
<1>7. Reports'
  BY DEF Early, Creation, Reports, Kept
<1> QED BY <1>1, <1>2, <1>3, <1>4, <1>5, <1>6, <1>7, Onward

(* A worker writes its row. *)
LEMMA RewrittenRow ==
  ASSUME Early, NEW i \in DOMAIN rows, NEW r, rows' = [rows EXCEPT ![i] = r],
         r.name = rows[i].name, r.tmpl = rows[i].tmpl, r.replaces = rows[i].replaces, r.action \in {"INIT", "CREATE"},
         ~Served(i) \/ (r.action = rows[i].action /\ r.status = rows[i].status /\ r.real = rows[i].real),
         \A x \in DOMAIN phys : x \in DOMAIN phys' /\ phys'[x] = phys[x], stack'.tmpl = stack.tmpl
  PROVE  Kept /\ rows'[i] = r /\ \A j \in DOMAIN rows : j # i => rows'[j] = rows[j]
<1>1. rows'[i] = r /\ DOMAIN rows' = DOMAIN rows /\ \A j \in DOMAIN rows : j # i => rows'[j] = rows[j]
  OBVIOUS
<1>2. ASSUME NEW j \in DOMAIN rows, Served(j) PROVE Served(j)'
  <2>1. CASE j = i
    BY <1>1, <1>2, <2>1 DEF Served, InService
  <2>2. CASE j # i
    BY <1>1, <1>2, <2>2 DEF Served, InService
  <2> QED BY <2>1, <2>2
<1>3. \A j \in DOMAIN rows : rows[j].action \in {"INIT", "CREATE"}
  BY DEF Early, Creation, Listed
<1> QED BY <1>1, <1>2, <1>3 DEF Kept

LEMMA Untold ==
  ASSUME Early, NEW i \in DOMAIN rows, ~Served(i)
  PROVE  \A n : ~Tells(i, n)
BY DEF Early, Creation, Reports, Tells, Up, Node

LEMMA LockTakes ==
  ASSUME Early, NEW w \in Workers, Lock(w)
  PROVE  \/ Leave(w) /\ UNCHANGED rows
         \/ /\ rows' = [rows EXCEPT ![Own(w)] = [rows[Own(w)] EXCEPT !.lock = w]]
            /\ th' = [th EXCEPT ![w] = [th[w] EXCEPT !.pc = "begin", !.out = "create"]]
<1>1. th[w].pc = "lock" /\ Doing(w)
  BY DEF Lock, At, Doing, Active
<1>2. Here(w) /\ Stage(w)
  BY <1>1, AtWork
<1>3. CASE rows[Own(w)].lock # None
  BY <1>2, <1>3 DEF Lock
<1>4. CASE rows[Own(w)].lock = None
  <2> DEFINE Turn(label, out) == th' = [th EXCEPT ![w].pc = label, ![w].out = out]
  <2>1. rows' = [rows EXCEPT ![Own(w)].lock = w]
    BY <1>2, <1>4 DEF Lock
  <2>2. (CASE Keeps(w) -> th' = [th EXCEPT ![w].pc = "unlock", ![w].out = "done", ![w].rsrc = Adopted(w, @)]
           [] Spared(w)   -> Turn("unlock", "done")
           [] Replaces(w) -> Turn("unlock", "replace")
           [] Discards(w) -> Turn("discard", "done")
           [] Absent(w)   -> Turn("heir", "done")
           [] Creates(w)  -> Turn("begin", "create")
           [] Changes(w)  -> Turn("begin", "update")
           [] Deletes(w)  -> Turn("begin", "delete"))
    BY <1>2, <1>4 DEF Lock
  <2>3. Creates(w) /\ Update(w)
    BY <1>1, <1>2 DEF Stage, Creates
  <2>4. ~Keeps(w) /\ ~Spared(w) /\ ~Replaces(w) /\ ~Discards(w) /\ ~Absent(w) /\ ~Changes(w) /\ ~Deletes(w)
    BY <2>3 DEF Keeps, Spared, Replaces, Discards, Absent, Changes, Deletes
  <2>5. Turn("begin", "create")
    BY ONLY <2>2, <2>3, <2>4
  <2> QED BY ONLY <2>1, <2>5
<1> QED BY <1>3, <1>4

LEMMA LockCreates == ASSUME Early, NEW w \in Workers, Lock(w) PROVE Creation'
<1>1. th[w].pc = "lock" /\ Doing(w) /\ UNCHANGED <<stack, phys, points, mail>>
  BY DEF Lock, At, Doing, Active
<1>2. Here(w) /\ ~Preparing /\ Stage(w)
  BY <1>1, AtWork
<1>3. CASE Leave(w) /\ UNCHANGED rows
  BY <1>1, <1>2, <1>3, Quits
<1>4. CASE ~(Leave(w) /\ UNCHANGED rows)
  <2> DEFINE t == [th[w] EXCEPT !.pc = "begin", !.out = "create"]
             r == [rows[Own(w)] EXCEPT !.lock = w]
  <2>1. th' = [th EXCEPT ![w] = t] /\ rows' = [rows EXCEPT ![Own(w)] = r]
    BY <1>4, LockTakes
  <2>2. t.pc = "begin" /\ t.out = "create" /\ t.msg = th[w].msg /\ t.stk = th[w].stk /\ t.rsrc = th[w].rsrc
    BY <1>1, AtWork DEF ThreadsUpTo
  <2>3. /\ r.name = rows[Own(w)].name /\ r.tmpl = rows[Own(w)].tmpl /\ r.replaces = rows[Own(w)].replaces
        /\ r.action = rows[Own(w)].action /\ r.status = rows[Own(w)].status /\ r.real = rows[Own(w)].real
    BY <1>1, AtWork DEF RowsUpTo
  <2> HIDE DEF t, r
  <2>4. Own(w) \in DOMAIN rows /\ rows[Own(w)].action = "INIT" /\ th[w].rsrc.action = "INIT"
    BY <1>1, <1>2 DEF Stage
  <2>5. Kept /\ rows'[Own(w)] = r /\ \A j \in DOMAIN rows : j # Own(w) => rows'[j] = rows[j]
    BY <1>1, <2>1, <2>3, <2>4, RewrittenRow
  <2>6. th'[w] = t
    BY <1>1, <2>1, AtWork
  <2>7. Stage(w)'
    BY <1>1, <1>2, <2>2, <2>3, <2>4, <2>5, <2>6 DEF Stage, Doing, Active, Own, Update, Kept
  <2> QED BY <1>1, <2>1, <2>2, <2>5, <2>7, Carries DEF Active
<1> QED BY <1>3, <1>4

LEMMA BeginCreates == ASSUME Early, NEW w \in Workers, Begin(w) PROVE Creation'
<1>1. th[w].pc = "begin" /\ Doing(w) /\ UNCHANGED <<stack, points, mail>>
  BY DEF Begin, At, Doing, Active
<1>2. Here(w) /\ ~Preparing /\ Stage(w) /\ Own(w) \in DOMAIN rows
  BY <1>1, AtWork
<1>3. Creates(w) /\ Update(w) /\ th[w].rsrc.action = "INIT" /\ rows[Own(w)].action = "INIT" /\ th[w].out = "create"
      /\ th[w].rsrc.name = rows[Own(w)].name /\ th[w].rsrc.replaces = None
  BY <1>1, <1>2 DEF Stage, Creates
<1> DEFINE i == Own(w)
           a == [Adopted(w, th[w].rsrc) EXCEPT !.action = "CREATE", !.status = "IN_PROGRESS"]
           r == [a EXCEPT !.real = used + 1]
           r2 == [r EXCEPT !.lock = rows[Own(w)].lock]
           t == [th[w] EXCEPT !.pc = "work", !.rsrc = r]
<1>4. InProgress(w) = a
  <2>1. ~Changes(w) /\ ~Deletes(w)
    BY <1>3 DEF Changes, Deletes
  <2> QED BY <1>3, <2>1 DEF InProgress
<1>5. /\ rows' = [rows EXCEPT ![Own(w)] = r2] /\ th' = [th EXCEPT ![w] = t]
      /\ phys' = With(phys, used + 1, [soft |-> Want(w).soft, hard |-> Want(w).hard])
  BY <1>2, <1>3, <1>4 DEF Begin, Store
<1>6. /\ r.name = th[w].rsrc.name /\ r.tmpl = stack.tmpl /\ r.replaces = None /\ r.action = "CREATE"
      /\ r.status = "IN_PROGRESS" /\ r.real = used + 1
  <2>1. th[w].rsrc \in RowsUpTo(used) /\ th[w].stk.tmpl = stack.tmpl
    BY <1>1, AtWork
  <2> DEFINE q == [th[w].rsrc EXCEPT !.tmpl = th[w].stk.tmpl, !.requires = th[w].msg.data]
  <2>2. a = [q EXCEPT !.action = "CREATE", !.status = "IN_PROGRESS"]
    BY DEF Adopted
  <2>3. q.name = th[w].rsrc.name /\ q.tmpl = stack.tmpl /\ q.replaces = th[w].rsrc.replaces
    BY ONLY <2>1 DEF RowsUpTo
  <2>4. DOMAIN q = {"name", "tmpl", "action", "status", "requires", "replaces", "replacedBy", "real", "lock"}
    BY ONLY <2>1 DEF RowsUpTo
  <2> HIDE DEF q, a
  <2>5. /\ a.name = q.name /\ a.tmpl = q.tmpl /\ a.replaces = q.replaces /\ a.action = "CREATE"
        /\ a.status = "IN_PROGRESS" /\ DOMAIN a = DOMAIN q
    BY ONLY <2>2, <2>4
  <2> QED BY ONLY <1>3, <2>3, <2>4, <2>5
<1>7. /\ r2.name = r.name /\ r2.tmpl = r.tmpl /\ r2.replaces = r.replaces /\ r2.action = r.action
      /\ r2.status = r.status /\ r2.real = r.real
  <2>1. \E q \in RowsUpTo(used) : r = [[[q EXCEPT !.tmpl = th[w].stk.tmpl, !.requires = th[w].msg.data] EXCEPT !.action = "CREATE", !.status = "IN_PROGRESS"] EXCEPT !.real = used + 1]
    BY <1>1, AtWork DEF Adopted
  <2> QED BY ONLY <2>1 DEF RowsUpTo
<1>8. t.pc = "work" /\ t.rsrc = r /\ t.out = th[w].out /\ t.msg = th[w].msg /\ t.stk = th[w].stk
  BY <1>1, AtWork DEF ThreadsUpTo
<1> HIDE DEF a, r, r2, t
<1>9. DOMAIN phys \subseteq 1 .. used /\ used \in Nat
  BY DEF Early, TInv, Fits
<1>10. /\ \A x \in DOMAIN phys : x \in DOMAIN phys' /\ phys'[x] = phys[x]
       /\ used + 1 \in DOMAIN phys' /\ phys'[used + 1] = [soft |-> Want(w).soft, hard |-> Want(w).hard]
  BY <1>5, <1>9 DEF With
<1>11. Want(w) = Def[stack.tmpl][rows[Own(w)].name]
  BY <1>1, <1>3, AtWork DEF Want
<1>12. ~Served(Own(w))
  BY <1>3 DEF Served, InService
<1>13. Kept /\ rows'[Own(w)] = r2 /\ \A j \in DOMAIN rows : j # Own(w) => rows'[j] = rows[j]
  <2>1. /\ r2.name = rows[Own(w)].name /\ r2.tmpl = rows[Own(w)].tmpl /\ r2.replaces = rows[Own(w)].replaces
        /\ r2.action = "CREATE" /\ stack'.tmpl = stack.tmpl
    <3>1. rows[Own(w)].tmpl = stack.tmpl /\ rows[Own(w)].replaces = None
      BY <1>1, AtWork
    <3> QED BY ONLY <1>1, <1>3, <1>6, <1>7, <3>1
  <2> QED BY ONLY <1>2, <1>5, <1>10, <1>12, <2>1, Early, RewrittenRow
<1>14. th'[w] = t
  BY <1>1, <1>5, AtWork
<1>15. Stage(w)'
  <2>1. Own(w)' = Own(w) /\ Update(w)' /\ Own(w) \in DOMAIN rows'
    BY <1>2, <1>3, <1>8, <1>13, <1>14 DEF Own, Update, Kept
  <2>2. phys'[used + 1] = Settings(Def[stack'.tmpl][rows'[Own(w)].name])
    BY <1>1, <1>3, <1>6, <1>7, <1>10, <1>11, <1>13 DEF Settings
  <2> QED BY <1>1, <1>3, <1>6, <1>7, <1>8, <1>10, <1>13, <1>14, <2>1, <2>2 DEF Stage
<1> QED BY <1>1, <1>5, <1>8, <1>13, <1>15, Carries DEF Active

(* The end of a creation, done, failed or cancelled. *)
LEMMA Stops ==
  ASSUME Early, NEW w \in Workers, th[w].pc = "work", NEW status \in {"COMPLETE", "FAILED"},
         NEW out \in {"done", "failed", "cancelled"}, out = "done" => status = "COMPLETE",
         NEW r, r = [th[w].rsrc EXCEPT !.status = status], Store(Own(w), r),
         th' = [th EXCEPT ![w].pc = "unlock", ![w].out = out, ![w].rsrc = r],
         UNCHANGED <<stack, phys, points, mail>>
  PROVE  Creation'
<1>1. Doing(w)
  BY DEF Doing, Active
<1>2. Here(w) /\ ~Preparing /\ Stage(w) /\ Own(w) \in DOMAIN rows /\ Update(w)
  BY <1>1, AtWork
<1> DEFINE r2 == [r EXCEPT !.lock = rows[Own(w)].lock]
           t == [th[w] EXCEPT !.pc = "unlock", !.out = out, !.rsrc = r]
<1>3. rows' = [rows EXCEPT ![Own(w)] = r2] /\ th' = [th EXCEPT ![w] = t]
  BY DEF Store
<1>4. /\ r.name = th[w].rsrc.name /\ r.tmpl = th[w].rsrc.tmpl /\ r.replaces = th[w].rsrc.replaces
      /\ r.action = th[w].rsrc.action /\ r.status = status /\ r.real = th[w].rsrc.real
      /\ r2.name = r.name /\ r2.tmpl = r.tmpl /\ r2.replaces = r.replaces
      /\ r2.action = r.action /\ r2.status = r.status /\ r2.real = r.real
  <2>1. th[w].rsrc \in RowsUpTo(used)
    BY <1>1, AtWork
  <2> QED BY ONLY <2>1, r = [th[w].rsrc EXCEPT !.status = status] DEF RowsUpTo
<1>5. t.pc = "unlock" /\ t.rsrc = r /\ t.out = out /\ t.msg = th[w].msg /\ t.stk = th[w].stk
  BY <1>1, AtWork DEF ThreadsUpTo
<1> HIDE DEF r2, t
<1>6. /\ th[w].rsrc.name = rows[Own(w)].name /\ th[w].rsrc.tmpl = stack.tmpl /\ th[w].rsrc.replaces = None
      /\ rows[Own(w)].status = "IN_PROGRESS" /\ th[w].rsrc.action = "CREATE"
      /\ th[w].rsrc.real \in DOMAIN phys /\ phys[th[w].rsrc.real] = Settings(Def[stack.tmpl][rows[Own(w)].name])
  BY <1>1, <1>2 DEF Stage
<1>7. ~Served(Own(w))
  BY <1>6 DEF Served, InService
<1>8. Kept /\ rows'[Own(w)] = r2 /\ \A j \in DOMAIN rows : j # Own(w) => rows'[j] = rows[j]
  <2>1. /\ r2.name = rows[Own(w)].name /\ r2.tmpl = rows[Own(w)].tmpl /\ r2.replaces = rows[Own(w)].replaces
        /\ r2.action = "CREATE" /\ stack'.tmpl = stack.tmpl
    <3>1. rows[Own(w)].tmpl = stack.tmpl /\ rows[Own(w)].replaces = None
      BY <1>1, AtWork
    <3> QED BY ONLY <1>4, <1>6, <3>1, UNCHANGED <<stack, phys, points, mail>>
  <2>2. \A x \in DOMAIN phys : x \in DOMAIN phys' /\ phys'[x] = phys[x]
    OBVIOUS
  <2> QED BY ONLY <1>2, <1>3, <1>7, <2>1, <2>2, Early, RewrittenRow
<1>9. th'[w] = t
  BY <1>1, <1>3, AtWork
<1>10. Own(w)' = Own(w) /\ Update(w)' /\ Own(w) \in DOMAIN rows'
  BY <1>2, <1>5, <1>8, <1>9 DEF Own, Update, Kept
<1>11. \A j \in DOMAIN rows' : ~Tells(Own(w), Up(j))'
  <2>1. \A n : ~Tells(Own(w), n)
    BY <1>2, <1>7, Untold
  <2> QED BY <1>10, <2>1 DEF Tells
<1>12. out = "done" => Served(Own(w))'
  <2>1. out = "done" => rows'[Own(w)].status = "COMPLETE"
    BY <1>4, <1>8
  <2>2. /\ rows'[Own(w)].name = rows[Own(w)].name /\ rows'[Own(w)].tmpl = stack'.tmpl
        /\ rows'[Own(w)].action = "CREATE" /\ rows'[Own(w)].real = th[w].rsrc.real /\ stack'.tmpl = stack.tmpl
    BY <1>4, <1>6, <1>8
  <2>3. phys' = phys
    OBVIOUS
  <2> QED BY ONLY <1>6, <1>10, <2>1, <2>2, <2>3 DEF Served, InService
<1>13. Stage(w)'
  <2>1. /\ th'[w].pc = "unlock" /\ th'[w].out = out /\ rows'[Own(w)].action = "CREATE" /\ stack'.tmpl = stack.tmpl
        /\ th'[w].rsrc.name = rows'[Own(w)].name /\ th'[w].rsrc.tmpl = stack.tmpl /\ th'[w].rsrc.replaces = None
    <3>1. th[w].rsrc.action = "CREATE" /\ r2.action = "CREATE" /\ UNCHANGED stack
      BY ONLY <1>4, <1>6, UNCHANGED <<stack, phys, points, mail>>
    <3>2. rows'[Own(w)].name = th[w].rsrc.name /\ rows'[Own(w)].action = "CREATE"
      BY ONLY <1>4, <1>8, <3>1
    <3>3. th'[w].pc = "unlock" /\ th'[w].out = out /\ th'[w].rsrc = r
      BY ONLY <1>5, <1>9
    <3> QED BY ONLY <1>4, <1>6, <3>1, <3>2, <3>3
  <2> QED BY ONLY <1>10, <1>11, <1>12, <2>1, out \in {"done", "failed", "cancelled"} DEF Stage
<1> QED BY <1>1, <1>3, <1>5, <1>8, <1>13, Carries DEF Active

LEMMA FinishCreates == ASSUME Early, NEW w \in Workers, FinishCreate(w) \/ Break(w) PROVE Creation'
<1>1. th[w].pc = "work" /\ UNCHANGED <<stack, phys, points, mail>>
  BY DEF FinishCreate, Break, At
<1>2. Here(w) /\ Doing(w) /\ th[w].out = "create"
  BY <1>1, AtWork DEF Doing, Active, Stage
<1>3. CASE FinishCreate(w)
  <2>1. Store(Own(w), Done(w)) /\ th' = [th EXCEPT ![w].pc = "unlock", ![w].out = "done", ![w].rsrc = Done(w)]
    BY <1>2, <1>3 DEF FinishCreate, Ends
  <2> QED BY <1>1, <2>1, Stops DEF Done
<1>4. CASE Break(w)
  <2> DEFINE r == [th[w].rsrc EXCEPT !.status = "FAILED"]
  <2>1. PICK out \in {"failed", "cancelled"} :
          Store(Own(w), r) /\ th' = [th EXCEPT ![w].pc = "unlock", ![w].out = out, ![w].rsrc = r]
    BY <1>2, <1>4 DEF Break
  <2> HIDE DEF r
  <2>2. r = [th[w].rsrc EXCEPT !.status = "FAILED"]
    BY DEF r
  <2> QED BY <1>1, <2>1, <2>2, Stops
<1> QED BY <1>3, <1>4

LEMMA UnlockCreates == ASSUME Early, NEW w \in Workers, Unlock(w) PROVE Creation'
<1>1. th[w].pc = "unlock" /\ Doing(w) /\ UNCHANGED <<stack, phys, points, mail>>
  BY DEF Unlock, At, Doing, Active
<1>2. Here(w) /\ ~Preparing /\ Stage(w) /\ Own(w) \in DOMAIN rows /\ GraphKey(w) = Up(Own(w)) /\ th[w].stk.deps = stack.deps
      /\ th \in [Threads -> ThreadsUpTo(used, fresh)] /\ w \in Threads /\ th[w] \in ThreadsUpTo(used, fresh)
      /\ Whole(th[w].stk) /\ th[w].stk.trav = 1 /\ w # Creator
  BY <1>1, AtWork
<1>3. /\ th[w].rsrc.name = rows[Own(w)].name /\ th[w].rsrc.tmpl = stack.tmpl /\ th[w].rsrc.replaces = None
      /\ rows[Own(w)].action = "CREATE" /\ th[w].out \in {"done", "failed", "cancelled"}
      /\ th[w].out = "done" => Served(Own(w))
      /\ (\A j \in DOMAIN rows : ~Tells(Own(w), Up(j))) /\ Update(w)
  BY <1>1, <1>2 DEF Stage
<1>4. Kept /\ \A j \in DOMAIN rows : j # Own(w) => rows'[j] = rows[j]
  <2> DEFINE r == [rows[Own(w)] EXCEPT !.lock = None, !.tmpl = th[w].rsrc.tmpl, !.requires = th[w].rsrc.requires]
  <2>1. rows' = rows \/ rows' = [rows EXCEPT ![Own(w)] = r]
    <3>1. \/ rows' = [rows EXCEPT ![Own(w)].lock = None, ![Own(w)].tmpl = th[w].rsrc.tmpl,
                                  ![Own(w)].requires = th[w].rsrc.requires]
          \/ rows' = rows
      BY DEF Unlock
    <3>2. rows[Own(w)] \in RowsUpTo(used)
      BY <1>1, AtWork
    <3> QED BY ONLY <1>2, <3>1, <3>2
  <2>2. CASE rows' = rows
    BY <1>1, <2>2, Unmoved DEF RowsSame
  <2>3. CASE rows' = [rows EXCEPT ![Own(w)] = r]
    <3>1. rows[Own(w)] \in RowsUpTo(used) /\ rows[Own(w)].tmpl = stack.tmpl
      BY <1>1, AtWork
    <3>2. /\ r.name = rows[Own(w)].name /\ r.tmpl = rows[Own(w)].tmpl /\ r.replaces = rows[Own(w)].replaces
          /\ r.action = rows[Own(w)].action /\ r.status = rows[Own(w)].status /\ r.real = rows[Own(w)].real
      BY ONLY <1>3, <3>1 DEF RowsUpTo
    <3> HIDE DEF r
    <3>3. stack'.tmpl = stack.tmpl /\ (\A x \in DOMAIN phys : x \in DOMAIN phys' /\ phys'[x] = phys[x])
      BY ONLY <1>1
    <3>4. r.action \in {"INIT", "CREATE"}
      BY ONLY <1>3, <3>2
    <3> QED BY ONLY Early, <1>2, <2>3, <3>2, <3>3, <3>4, RewrittenRow
  <2> QED BY ONLY <2>1, <2>2, <2>3
<1>5. Alike /\ PointsKept /\ (stack'.status = "COMPLETE" => AllServed)
  BY <1>1 DEF Alike, PointsKept, Early, Creation, Copies, Whole, Endings
<1>6. Reports'
  BY <1>1, <1>4 DEF Early, Creation, Reports, Kept
<1>7. CASE Leave(w)
  <2>1. th' = [th EXCEPT ![w] = Idle] /\ Idle.pc = "idle"
    BY <1>7 DEF Leave, Idle
  <2>2. th'[w] = Idle
    BY <1>2, <2>1
  <2>3. Copied(w)' /\ Ended(w)'
    BY <2>1, <2>2 DEF Copied, Ended
  <2> HIDE DEF Idle
  <2> QED BY <1>1, <1>2, <1>4, <1>5, <1>6, <2>1, <2>3, Parts DEF Inert
<1>8. CASE Goto(w, "fail")
  <2> DEFINE t == [th[w] EXCEPT !.pc = "fail"]
  <2>1. th' = [th EXCEPT ![w] = t]
    BY <1>8 DEF Goto
  <2>2. t.pc = "fail" /\ t.stk = th[w].stk
    BY <1>2 DEF ThreadsUpTo
  <2> HIDE DEF t
  <2>3. th'[w] = t
    BY <1>2, <2>1
  <2>4. Copied(w)' /\ Ended(w)'
    BY <1>1, <1>2, <2>2, <2>3 DEF Copied, Ended, Whole
  <2> QED BY <1>1, <1>2, <1>4, <1>5, <1>6, <2>1, <2>2, <2>4, Parts DEF Inert
<1>9. CASE th[w].out = "done" /\ th' = [th EXCEPT ![w].pc = "notify", ![w].todo = RequiredBy(stack.deps, Up(Own(w)))]
  <2> DEFINE t == [th[w] EXCEPT !.pc = "notify", !.todo = RequiredBy(stack.deps, Up(Own(w)))]
  <2>1. th' = [th EXCEPT ![w] = t]
    BY <1>9
  <2>2. /\ t.pc = "notify" /\ t.stk = th[w].stk /\ t.msg = th[w].msg /\ t.rsrc = th[w].rsrc
        /\ t.todo = RequiredBy(stack.deps, Up(Own(w)))
    BY <1>2 DEF ThreadsUpTo
  <2> HIDE DEF t
  <2>3. th'[w] = t
    BY <1>2, <2>1
  <2>4. Own(w)' = Own(w) /\ Update(w)' /\ Own(w) \in DOMAIN rows' /\ rows'[Own(w)].name = rows[Own(w)].name
    BY <1>2, <1>3, <1>4, <2>2, <2>3 DEF Own, Update, Kept
  <2>5. PICK i \in DOMAIN rows : i = Own(w)
    BY <1>2
  <2>6. Served(i)' /\ \A n \in t.todo : ~Tells(i, n)'
    <3>1. t.todo \subseteq {Up(j) : j \in DOMAIN rows}
      BY <1>2, <2>2, ChartedNodes DEF RequiredBy
    <3>2. Served(i)'
      BY <1>3, <1>4, <1>9, <2>5 DEF Kept
    <3> QED BY <1>1, <1>3, <2>5, <3>1, <3>2 DEF Tells
  <2>7. Stage(w)'
    <3>1. stack' = stack /\ th'[w].pc = "notify" /\ th'[w].rsrc = th[w].rsrc /\ th'[w].todo = RequiredBy(stack.deps, Up(i)) /\ i = Own(w)'
      BY ONLY <1>1, <2>2, <2>3, <2>4, <2>5
    <3>2. \A n \in th'[w].todo : ~Tells(i, n)'
      BY <2>3, <2>6
    <3> QED BY ONLY <1>3, <2>4, <2>5, <2>6, <3>1, <3>2 DEF Stage
  <2> QED BY <1>1, <1>4, <2>1, <2>2, <2>7, Carries DEF Active
<1>10. Leave(w) \/ Goto(w, "fail") \/ (th[w].out = "done" /\ th' = [th EXCEPT ![w].pc = "notify", ![w].todo = RequiredBy(stack.deps, Up(Own(w)))])
  <2>1. (CASE th[w].out = "replace" -> Goto(w, "replace")
       [] th[w].out = "failed"  -> Goto(w, "fail")
       [] th[w].out = "done" /\ GraphKey(w) \in th[w].stk.deps.nodes ->
            th' = [th EXCEPT ![w].pc = "notify", ![w].todo = RequiredBy(th[w].stk.deps, GraphKey(w))]
       [] OTHER -> Leave(w))
    BY DEF Unlock
  <2> QED BY ONLY <1>2, <1>3, <2>1
<1> QED BY <1>7, <1>8, <1>9, <1>10

(* What a worker is about to tell a row it has not told: the row has not  *)
(* been started.                                                          *)
LEMMA Unstarted ==
  ASSUME Early, NEW w \in Workers, th[w].pc = "notify", NEW n \in th[w].todo
  PROVE  \E j \in DOMAIN rows :
           /\ n = Up(j) /\ <<Up(j), Up(Own(w))>> \in stack.deps.edges
           /\ <<1, n>> \in DOMAIN points => ~Started(j)
<1>1. Doing(w)
  BY DEF Doing, Active
<1>2. Stage(w) /\ ~Preparing /\ Own(w) \in DOMAIN rows
  BY <1>1, AtWork
<1>3. n \in RequiredBy(stack.deps, Up(Own(w))) /\ ~Tells(Own(w), n)
  BY <1>1, <1>2 DEF Stage
<1>4. PICK j \in DOMAIN rows : n = Up(j)
  BY <1>2, <1>3, ChartedNodes DEF RequiredBy
<1>5. <<Up(j), Up(Own(w))>> \in stack.deps.edges
  BY <1>3, <1>4 DEF RequiredBy
<1>6. <<1, n>> \in DOMAIN points => ~Started(j)
  BY <1>2, <1>3, <1>4, <1>5 DEF Early, Creation, Joins
<1> QED BY <1>4, <1>5, <1>6

(* A worker reports its row to one that requires it. *)
LEMMA ReportCreates ==
  ASSUME Early, NEW w \in Workers, th[w].pc = "notify", NEW n \in th[w].todo, Present(1, n),
         Notify(1, n, Up(Own(w)), Own(w), Predecessors(stack.deps, n)),
         th' = [th EXCEPT ![w].todo = @ \ {n}], UNCHANGED <<stack, rows, phys>>
  PROVE  Creation'
<1>1. Doing(w) /\ th[w].pc \in Active
  BY DEF Doing, Active
<1>2. /\ Stage(w) /\ ~Preparing /\ w \in Threads /\ w # Creator /\ th \in [Threads -> ThreadsUpTo(used, fresh)]
      /\ th[w] \in ThreadsUpTo(used, fresh) /\ Whole(th[w].stk) /\ th[w].stk.trav = 1 /\ th[w].stk.deps = stack.deps
  BY <1>1, AtWork
<1> PICK i \in DOMAIN rows : i = Own(w)
  BY <1>1, AtWork
<1> PICK j \in DOMAIN rows : n = Up(j) /\ <<Up(j), Up(i)>> \in stack.deps.edges /\ ~Started(j)
  BY Unstarted DEF Present
<1> DEFINE t == [th[w] EXCEPT !.todo = @ \ {n}]
           input == With(points[<<1, n>>], Up(i), i)
           m0 == Message(1, n, Range(input) \ {None})
<1>3. th' = [th EXCEPT ![w] = t]
  OBVIOUS
<1>4. t.pc = "notify" /\ t.stk = th[w].stk /\ t.msg = th[w].msg /\ t.rsrc = th[w].rsrc /\ t.todo = th[w].todo \ {n}
  BY ONLY <1>2, th[w].pc = "notify" DEF ThreadsUpTo
<1> HIDE DEF t
<1>5. th'[w] = t /\ Moves(w)
  BY ONLY <1>2, <1>3 DEF Moves
<1>6. <<1, n>> \in DOMAIN points /\ points' = [points EXCEPT ![<<1, n>>] = input]
  BY DEF Notify, Joined, Present
<1>7. \/ Predecessors(stack.deps, n) \subseteq DOMAIN input /\ mail' = mail (+) SetToBag({m0})
      \/ mail' = mail
  BY DEF Notify, Joined, Post, Ready
<1>8. DOMAIN input = DOMAIN points[<<1, n>>] \cup {Up(i)}
  BY DEF With
<1>9. m0.id = j /\ m0.update = TRUE
  BY DEF Message, Up, Node
<1> HIDE DEF input, m0
<1>10. /\ DOMAIN points' = DOMAIN points
       /\ DOMAIN points'[<<1, n>>] = DOMAIN points[<<1, n>>] \cup {Up(i)}
       /\ \A k \in DOMAIN points : k # <<1, n>> => points'[k] = points[k]
  BY ONLY <1>6, <1>8
<1>11. \A k, x : Tells(k, x)' <=> Tells(k, x) \/ (k = i /\ x = n)
  <2> SUFFICES ASSUME NEW k, NEW x PROVE Tells(k, x)' <=> Tells(k, x) \/ (k = i /\ x = n)
    OBVIOUS
  <2>1. Up(k) = Up(i) <=> k = i
    BY DEF Up, Node
  <2>2. <<1, x>> = <<1, n>> <=> x = n
    OBVIOUS
  <2> QED BY ONLY <1>6, <1>10, <2>1, <2>2 DEF Tells
<1>12. \A k : Served(k)' <=> Served(k)
  BY DEF Served, InService
<1>13. Kept /\ Alike
  BY Unmoved DEF RowsSame, Alike, Early, Creation, Copies, Whole
<1>14. \A x \in BagToSet(mail) : x.id # j /\ x # m0
  BY <1>9 DEF Started
<1>15. \/ /\ Predecessors(stack.deps, n) \subseteq DOMAIN points'[<<1, n>>]
          /\ BagToSet(mail') = BagToSet(mail) \cup {m0} /\ mail'[m0] = 1
          /\ \A x \in BagToSet(mail) : mail'[x] = mail[x]
       \/ mail' = mail
  <2>1. ASSUME mail' = mail (+) SetToBag({m0})
        PROVE  /\ BagToSet(mail') = BagToSet(mail) \cup {m0} /\ mail'[m0] = 1
               /\ \A x \in BagToSet(mail) : mail'[x] = mail[x]
    <3>1. \A x \in BagToSet(mail) : mail[x] = 1
      BY DEF Early, Creation, Mails
    <3> QED BY ONLY <1>14, <2>1, <3>1 DEF BagToSet, SetToBag, (+)
  <2> QED BY <1>7, <1>8, <1>10, <2>1
<1>16. \A v \in Workers : (Doing(v)' <=> Doing(v)) /\ Own(v)' = Own(v) /\ Update(v)' = Update(v) /\ th'[v].rsrc = th[v].rsrc
                          /\ th'[v].pc = th[v].pc /\ th'[v].out = th[v].out /\ (v # w => th'[v] = th[v])
  <2> SUFFICES ASSUME NEW v \in Workers
               PROVE  (Doing(v)' <=> Doing(v)) /\ Own(v)' = Own(v) /\ Update(v)' = Update(v) /\ th'[v].rsrc = th[v].rsrc
                          /\ th'[v].pc = th[v].pc /\ th'[v].out = th[v].out /\ (v # w => th'[v] = th[v])
    OBVIOUS
  <2>1. CASE v = w
    <3>1. t.out = th[w].out
      BY ONLY <1>2 DEF ThreadsUpTo, t
    <3> QED BY <1>4, <1>5, <2>1, <3>1 DEF Doing, Own, Update
  <2>2. CASE v # w
    BY <1>5, <2>2, Types DEF Moves, Doing, Own, Update, Early
  <2> QED BY <2>1, <2>2
<1>17. Places'
  <2>1. \A q \in Threads : th'[q].pc = th[q].pc
    BY ONLY <1>4, <1>5, th[w].pc = "notify" DEF Moves
  <2> QED BY <2>1 DEF Places, Early, Creation, Threads
<1>18. Copies' /\ Endings'
  <2>1. Copied(w)' /\ Ended(w)'
    BY <1>2, <1>4, <1>5 DEF Copied, Whole, Ended
  <2>2. stack'.status = "COMPLETE" => AllServed
    BY DEF Early, Creation, Endings
  <2> QED BY <1>5, <1>13, <2>1, <2>2, CopiesStay, EndingsStay
<1>19. Charted' /\ Listed' /\ Untouched'
  BY <1>2, <1>5, <1>13, ChartStays
<1>20. Stages'
  <2> SUFFICES ASSUME NEW v \in Workers, Doing(v) PROVE Stage(v)'
    BY <1>16 DEF Stages, Stage
  <2>1. Stage(v)
    BY DEF Early, Creation, Stages
  <2> PICK o \in DOMAIN rows : o = Own(v)
    BY <2>1 DEF Stage
  <2>2. CASE v = w
    <3>1. /\ Update(w) /\ th[w].rsrc.name = rows[i].name /\ th[w].rsrc.tmpl = stack.tmpl /\ th[w].rsrc.replaces = None
          /\ Served(i) /\ th[w].todo \subseteq RequiredBy(stack.deps, Up(i)) /\ \A x \in th[w].todo : ~Tells(i, x)
      BY <1>1, <1>2 DEF Stage
    <3>2. th'[w].todo = th[w].todo \ {n} /\ th'[w].pc = "notify"
      BY <1>4, <1>5
    <3>3. \A x \in th'[w].todo : ~Tells(i, x)'
      BY ONLY <1>11, <3>1, <3>2
    <3>4. Own(w)' = i /\ Update(w)' /\ th'[w].rsrc = th[w].rsrc /\ Served(i)'
      BY <1>12, <1>16, <3>1
    <3> QED BY ONLY <2>2, <3>1, <3>2, <3>3, <3>4, i \in DOMAIN rows, UNCHANGED <<stack, rows, phys>> DEF Stage
  <2>3. CASE v # w
    <3>1. th'[v] = th[v] /\ Own(v)' = o /\ Update(v)' = Update(v)
      BY <1>16, <2>3
    <3>2. o # i
      BY <1>1, <2>3 DEF Early, Creation, Single
    <3>3. \A x : Tells(o, x)' <=> Tells(o, x)
      BY <1>11, <3>2
    <3> QED BY <1>12, <2>1, <3>1, <3>3 DEF Stage, Doing
  <2> QED BY <2>2, <2>3
<1>21. Single'
  BY <1>16 DEF Early, Creation, Single
<1>22. Mails'
  <2> SUFFICES ASSUME NEW m \in BagToSet(mail')
               PROVE  /\ mail'[m] = 1 /\ m.update /\ m.id \in DOMAIN rows /\ rows[m.id].action = "INIT"
                      /\ \A v \in Workers : Doing(v) => Own(v) # m.id
                      /\ \A x \in BagToSet(mail') : x.id = m.id => x = m
    BY <1>16 DEF Mails
  <2>1. Mails
    BY DEF Early, Creation
  <2>2. CASE m \in BagToSet(mail)
    BY <1>9, <1>14, <1>15, <2>1, <2>2 DEF Mails
  <2>3. CASE m \notin BagToSet(mail)
    <3>1. m = m0 /\ mail'[m0] = 1 /\ BagToSet(mail') = BagToSet(mail) \cup {m0}
      BY <1>15, <2>3
    <3>2. rows[j].action = "INIT" /\ \A v \in Workers : Doing(v) => Own(v) # j
      BY DEF Started
    <3> QED BY <1>9, <1>14, <3>1, <3>2
  <2> QED BY <2>2, <2>3
<1>23. Reports'
  <2> SUFFICES ASSUME NEW k \in DOMAIN points', NEW f \in DOMAIN points'[k] PROVE \E a \in DOMAIN rows : f = Up(a) /\ Served(a)'
    BY DEF Reports, Up
  <2>1. Served(i)
    BY <1>1, <1>2 DEF Stage
  <2>2. Reports
    BY DEF Early, Creation
  <2>3. (k \in DOMAIN points /\ f \in DOMAIN points[k]) \/ f = Up(i)
    BY ONLY <1>6, <1>10, k \in DOMAIN points', f \in DOMAIN points'[k]
  <2> QED BY <1>12, <2>1, <2>2, <2>3 DEF Reports
<1>24. Joins'
  <2> SUFFICES ASSUME NEW a \in DOMAIN rows, NEW b \in DOMAIN rows, <<Up(b), Up(a)>> \in stack.deps.edges, Started(b)'
               PROVE  Served(a) /\ (<<1, Up(b)>> \in DOMAIN points => Tells(a, Up(b))')
    BY <1>10, <1>12 DEF Joins, Up
  <2>1. CASE Started(b)
    BY <1>11, <2>1 DEF Early, Creation, Joins
  <2>2. CASE ~Started(b)
    <3>1. b = j /\ mail' # mail
      <4>1. PICK m \in BagToSet(mail') : m.id = b
        BY <1>16, <2>2 DEF Started
      <4>2. m \notin BagToSet(mail)
        BY <2>2, <4>1 DEF Started
      <4> QED BY <1>9, <1>15, <4>1, <4>2
    <3>2. Up(a) \in Predecessors(stack.deps, n)
      <4>1. Up(a) \in stack.deps.nodes
        BY <1>2, ChartedNodes
      <4> QED BY <3>1, <4>1 DEF Predecessors
    <3>3. Up(a) \in DOMAIN points'[<<1, n>>] /\ <<1, n>> \in DOMAIN points'
      BY <1>6, <1>10, <1>15, <3>1, <3>2
    <3>4. Tells(a, Up(b))'
      BY <3>1, <3>3 DEF Tells, Up
    <3>5. PICK c \in DOMAIN rows : Up(a) = Up(c) /\ Served(c)'
      BY <1>23, <3>3 DEF Reports, Up
    <3>6. a = c
      BY <3>5 DEF Up, Node
    <3> QED BY <1>12, <3>4, <3>5, <3>6
  <2> QED BY <2>1, <2>2
<1> QED BY <1>17, <1>18, <1>19, <1>20, <1>21, <1>22, <1>23, <1>24 DEF Creation

LEMMA NotifyNextCreates == ASSUME Early, NEW w \in Workers, NotifyNext(w) PROVE Creation'
<1>1. th[w].pc = "notify" /\ Doing(w) /\ UNCHANGED <<stack, rows, phys>>
  BY DEF NotifyNext, At, Doing, Active
<1>2. /\ ~Preparing /\ GraphKey(w) = Up(Own(w)) /\ th[w].stk.deps = stack.deps /\ th[w].stk.trav = 1 /\ Whole(th[w].stk)
      /\ th \in [Threads -> ThreadsUpTo(used, fresh)] /\ w \in Threads /\ th[w] \in ThreadsUpTo(used, fresh) /\ w # Creator
  BY <1>1, AtWork
<1>3. PICK n \in th[w].todo :
        IF Present(th[w].stk.trav, n)
        THEN /\ Notify(th[w].stk.trav, n, GraphKey(w), IF n.update THEN Own(w) ELSE None, Predecessors(th[w].stk.deps, n))
             /\ th' = [th EXCEPT ![w].todo = @ \ {n}]
        ELSE Goto(w, "reload") /\ UNCHANGED <<points, mail>>
  BY DEF NotifyNext
<1>4. CASE Present(1, n)
  <2>1. n.update = TRUE
    <3>1. PICK j \in DOMAIN rows : n = Up(j)
      BY <1>1, Unstarted
    <3> QED BY <3>1 DEF Up, Node
  <2>2. Notify(1, n, Up(Own(w)), Own(w), Predecessors(stack.deps, n)) /\ th' = [th EXCEPT ![w].todo = @ \ {n}]
    BY ONLY <1>2, <1>3, <1>4, <2>1
  <2> QED BY <1>1, <1>4, <2>2, ReportCreates
<1>5. CASE ~Present(1, n)
  <2> DEFINE t == [th[w] EXCEPT !.pc = "reload"]
  <2>1. th' = [th EXCEPT ![w] = t] /\ UNCHANGED <<points, mail>>
    BY ONLY <1>2, <1>3, <1>5 DEF Goto
  <2>2. t.pc = "reload" /\ t.stk = th[w].stk
    BY ONLY <1>2 DEF ThreadsUpTo
  <2> HIDE DEF t
  <2>3. th'[w] = t
    BY ONLY <1>2, <2>1
  <2>4. Copied(w)' /\ Ended(w)'
    BY <1>1, <1>2, <2>2, <2>3 DEF Copied, Whole, Ended
  <2> QED BY <1>1, <1>2, <2>1, <2>2, <2>4, AllKept, Withdraws DEF RowsSame, Inert
<1> QED BY <1>4, <1>5

(* The stack is complete when its roots are: of the rows that are not in   *)
(* service, as the template has no cycle, one is required by none of them. *)
LEMMA RootsSuffice ==
  ASSUME Early, ~Preparing, \A i \in DOMAIN rows : Up(i) \in Roots(stack.deps) => Served(i)
  PROVE  AllServed
<1> DEFINE S == {rows[i].name : i \in {k \in DOMAIN rows : ~Served(k)}}
<1> SUFFICES ASSUME S # {} PROVE FALSE
  BY DEF AllServed
<1>1. stack.tmpl \in DOMAIN Def /\ S \in SUBSET DOMAIN Def[stack.tmpl]
  BY Types DEF Early, Creation, Listed
<1>2. PICK n \in S : \A m \in S : n \notin Def[stack.tmpl][m].needs
  BY <1>1, AcyclicAssumption
<1>3. PICK i \in DOMAIN rows : ~Served(i) /\ n = rows[i].name
  OBVIOUS
<1>4. Up(i) \in stack.deps.nodes /\ Up(i) \notin Roots(stack.deps)
  BY <1>3, ChartedNodes
<1>5. PICK a \in stack.deps.nodes : <<a, Up(i)>> \in stack.deps.edges
  BY <1>4 DEF Roots, RequiredBy
<1>6. PICK j \in DOMAIN rows : a = Up(j)
  BY ChartedNodes
<1>7. Requires(j, i)
  BY <1>5, <1>6, ChartedNodes
<1>8. Served(j)
  BY <1>2, <1>3, <1>7 DEF Requires
<1>9. Started(j)
  BY <1>8 DEF Served, InService, Started
<1> QED BY <1>3, <1>5, <1>6, <1>9 DEF Early, Creation, Joins

LEMMA CheckStackCreates == ASSUME Early, NEW w \in Workers, CheckStack(w) PROVE Creation'
<1>1. th[w].pc = "notify" /\ Doing(w) /\ UNCHANGED <<stack, rows, phys, mail>>
  BY DEF CheckStack, At, Doing, Active
<1>2. /\ ~Preparing /\ GraphKey(w) = Up(Own(w)) /\ th[w].stk.deps = stack.deps /\ th[w].stk.trav = 1 /\ Whole(th[w].stk)
      /\ th \in [Threads -> ThreadsUpTo(used, fresh)] /\ w \in Threads /\ th[w] \in ThreadsUpTo(used, fresh) /\ w # Creator
  BY <1>1, AtWork
<1> PICK i \in DOMAIN rows : i = Own(w) /\ Served(i)
  BY <1>1, AtWork DEF Stage
<1> DEFINE input == Joined(1, StackNode, Up(i), None)
           t(label) == [th[w] EXCEPT !.pc = label]
<1>3. \/ Leave(w) /\ UNCHANGED points
      \/ Goto(w, "reload") /\ UNCHANGED points
      \/ /\ Present(1, StackNode) /\ points' = [points EXCEPT ![<<1, StackNode>>] = input]
         /\ IF Ready(Roots(stack.deps), input) THEN Goto(w, "complete") ELSE Leave(w)
  <2>1. LET in == Joined(th[w].stk.trav, StackNode, GraphKey(w), None)
        IN CASE GraphKey(w) \notin Roots(th[w].stk.deps) -> Leave(w) /\ UNCHANGED points
             [] GraphKey(w) \in Roots(th[w].stk.deps) /\ ~Present(th[w].stk.trav, StackNode) -> Goto(w, "reload") /\ UNCHANGED points
             [] OTHER -> /\ points' = [points EXCEPT ![<<th[w].stk.trav, StackNode>>] = in]
                         /\ IF Ready(Roots(th[w].stk.deps), in) THEN Goto(w, "complete") ELSE Leave(w)
    BY DEF CheckStack
  <2> HIDE DEF input
  <2>2. Joined(th[w].stk.trav, StackNode, GraphKey(w), None) = input
    BY <1>2 DEF input
  <2> QED BY ONLY <1>2, <2>1, <2>2
<1>4. ASSUME NEW label, Goto(w, label)
      PROVE  th' = [th EXCEPT ![w] = t(label)] /\ th'[w] = t(label) /\ t(label).pc = label /\ t(label).stk = th[w].stk
  BY ONLY <1>2, <1>4 DEF ThreadsUpTo, Goto
<1>5. ASSUME Leave(w)
      PROVE  th' = [th EXCEPT ![w] = Idle] /\ Idle.pc = "idle" /\ Copied(w)' /\ Ended(w)'
  <2>1. th' = [th EXCEPT ![w] = Idle] /\ Idle.pc = "idle"
    BY <1>5 DEF Leave, Idle
  <2>2. th'[w] = Idle
    BY <1>2, <2>1
  <2> QED BY <2>1, <2>2 DEF Copied, Ended
<1> HIDE DEF Idle, t
<1>6. CASE Leave(w) /\ UNCHANGED points
  BY <1>1, <1>2, <1>6, Quits
<1>7. CASE Goto(w, "reload") /\ UNCHANGED points
  <2>1. Copied(w)' /\ Ended(w)'
    BY <1>1, <1>2, <1>4, <1>7 DEF Copied, Whole, Ended
  <2> QED BY <1>1, <1>2, <1>4, <1>7, <2>1, AllKept, Withdraws DEF RowsSame, Inert
<1>8. CASE /\ Present(1, StackNode) /\ points' = [points EXCEPT ![<<1, StackNode>>] = input]
           /\ IF Ready(Roots(stack.deps), input) THEN Goto(w, "complete") ELSE Leave(w)
  <2>1. DOMAIN input = DOMAIN points[<<1, StackNode>>] \cup {Up(i)}
    BY DEF Joined, With
  <2> HIDE DEF input
  <2>2. /\ <<1, StackNode>> \in DOMAIN points /\ DOMAIN points' = DOMAIN points
        /\ points'[<<1, StackNode>>] = input
        /\ \A k \in DOMAIN points : k # <<1, StackNode>> => points'[k] = points[k]
    BY ONLY <1>8 DEF Present
  <2>3. PointsKept
    BY ONLY <2>2 DEF PointsKept
  <2>4. \A k : Served(k)' <=> Served(k)
    BY <1>1 DEF Served, InService
  <2>5. \A k \in DOMAIN points' : \A f \in DOMAIN points'[k] : \E a \in DOMAIN rows : f = Up(a) /\ Served(a)
    <3> SUFFICES ASSUME NEW k \in DOMAIN points', NEW f \in DOMAIN points'[k] PROVE \E a \in DOMAIN rows : f = Up(a) /\ Served(a)
      OBVIOUS
    <3>1. (k \in DOMAIN points /\ f \in DOMAIN points[k]) \/ f = Up(i)
      BY ONLY <2>1, <2>2, k \in DOMAIN points', f \in DOMAIN points'[k]
    <3> QED BY <3>1 DEF Early, Creation, Reports
  <2>6. Reports'
    BY <1>1, <2>4, <2>5 DEF Reports, Up
  <2>7. Alike /\ RowsSame /\ (stack'.status = "COMPLETE" => AllServed)
    BY <1>1 DEF Alike, RowsSame, Early, Creation, Copies, Whole, Endings
  <2>8. CASE Ready(Roots(stack.deps), input)
    <3>1. \A k \in DOMAIN rows : Up(k) \in Roots(stack.deps) => Served(k)
      <4> SUFFICES ASSUME NEW k \in DOMAIN rows, Up(k) \in Roots(stack.deps) PROVE Served(k)
        OBVIOUS
      <4>1. PICK a \in DOMAIN rows : Up(k) = Up(a) /\ Served(a)
        BY <2>2, <2>5, <2>8 DEF Ready
      <4>2. k = a
        BY <4>1 DEF Up, Node
      <4> QED BY <4>1, <4>2
    <3>2. AllServed
      BY <1>2, <3>1, RootsSuffice
    <3>3. AllServed'
      BY <1>1, <2>4, <3>2 DEF AllServed
    <3>4. Goto(w, "complete")
      BY <1>8, <2>8
    <3>5. Copied(w)'
      BY <1>1, <1>2, <1>4, <3>4 DEF Copied, Whole
    <3>6. Ended(w)'
      BY <3>3 DEF Ended
    <3> QED BY <1>1, <1>2, <1>4, <2>3, <2>6, <2>7, <3>4, <3>5, <3>6, Withdraws DEF Inert
  <2>9. CASE ~Ready(Roots(stack.deps), input)
    <3>1. Leave(w)
      BY <1>8, <2>9
    <3> QED BY <1>1, <1>2, <1>5, <2>3, <2>6, <2>7, <3>1, Withdraws DEF Inert
  <2> QED BY <2>8, <2>9
<1> QED BY <1>3, <1>6, <1>7, <1>8

LEMMA ReloadCreates == ASSUME Early, NEW w \in Workers, Reload(w) \/ Retrigger(w) PROVE Creation'
<1>1. th[w].pc \in {"reload", "retrigger"} /\ UNCHANGED <<stack, rows, phys>>
  BY DEF Reload, Retrigger, At
<1>2. /\ ~Preparing /\ Copied(w) /\ w \in Threads /\ w # Creator /\ th \in [Threads -> ThreadsUpTo(used, fresh)]
      /\ th[w] \in ThreadsUpTo(used, fresh) /\ Whole(stack)
  BY <1>1, Busy, Types, Crew, ThreadsAssumption DEF Early, Creation, Copies
<1>3. CASE Leave(w) /\ UNCHANGED <<points, mail>>
  BY <1>1, <1>2, <1>3, Quits
<1>4. CASE Reload(w) /\ stack.trav # th[w].stk.trav
  <2> DEFINE t == [th[w] EXCEPT !.pc = "retrigger", !.out = Own(w), !.stk = stack]
  <2>1. th' = [th EXCEPT ![w] = t] /\ UNCHANGED <<points, mail>> /\ th[w].pc = "reload"
    BY <1>4 DEF Reload, At
  <2>2. t.pc = "retrigger" /\ t.stk = stack
    BY ONLY <1>2 DEF ThreadsUpTo
  <2> HIDE DEF t
  <2>3. th'[w] = t
    BY ONLY <1>2, <2>1
  <2>4. stack.trav = 0
    <3>1. th[w].stk.trav = 1
      BY <1>2, <2>1 DEF Copied
    <3>2. stack.trav \in 0 .. 1
      BY Types DEF Early, StacksUpTo
    <3> QED BY <1>4, <3>1, <3>2
  <2>5. Copied(w)' /\ Ended(w)'
    BY <1>1, <1>2, <2>2, <2>3, <2>4 DEF Copied, Whole, Ended
  <2> QED BY <1>1, <1>2, <2>1, <2>2, <2>5, AllKept, Withdraws DEF RowsSame, Inert
<1>5. CASE Reload(w) /\ stack.trav = th[w].stk.trav
  BY <1>3, <1>5 DEF Reload
<1>6. CASE Retrigger(w)
  <2>1. th[w].stk.trav = 0
    BY <1>2, <1>6 DEF Retrigger, At, Copied
  <2>2. \A n : ~Present(0, n)
    <3> SUFFICES ASSUME NEW n, <<0, n>> \in DOMAIN points PROVE FALSE
      BY DEF Present
    <3>1. <<0, n>>[1] \in 1 .. fresh
      BY Types DEF Early
    <3> QED BY ONLY <3>1, fresh \in Nat
  <2> QED BY <1>3, <1>6, <2>1, <2>2 DEF Retrigger
<1> QED BY <1>1, <1>4, <1>5, <1>6

LEMMA CancelCreates == ASSUME Early, NEW w \in Workers, Cancel(w) PROVE Creation'
<1>1. UNCHANGED <<stack, rows, phys, points, mail>>
  BY DEF Cancel
<1>2. CASE th' = th
  BY <1>1, <1>2, Aside DEF Early, Creation, Places
<1>3. CASE th[w].pc \in {"lock", "begin", "work"} /\ th' = [th EXCEPT ![w].cancelled = TRUE]
  <2> DEFINE t == [th[w] EXCEPT !.cancelled = TRUE]
  <2>1. th' = [th EXCEPT ![w] = t] /\ Doing(w)
    BY <1>3 DEF Doing, Active
  <2>2. /\ th \in [Threads -> ThreadsUpTo(used, fresh)] /\ w \in Threads /\ th[w] \in ThreadsUpTo(used, fresh)
        /\ Stage(w) /\ Own(w) \in DOMAIN rows
    BY <2>1, AtWork
  <2>3. /\ t.pc = th[w].pc /\ t.msg = th[w].msg /\ t.stk = th[w].stk /\ t.rsrc = th[w].rsrc /\ t.out = th[w].out
        /\ t.todo = th[w].todo
    BY ONLY <2>2 DEF ThreadsUpTo
  <2> HIDE DEF t
  <2>4. th'[w] = t
    BY ONLY <2>1, <2>2
  <2>5. Kept
    BY <1>1, Unmoved DEF RowsSame
  <2>6. Own(w)' = Own(w) /\ Update(w)' = Update(w) /\ th'[w].pc \in {"lock", "begin", "work"}
    BY ONLY <1>3, <2>3, <2>4 DEF Own, Update
  <2>7. Stage(w)'
    BY ONLY <1>1, <2>1, <2>2, <2>3, <2>4, <2>6 DEF Stage
  <2> QED BY <1>1, <1>3, <2>1, <2>3, <2>5, <2>7, Carries DEF Active
<1> QED BY <1>2, <1>3 DEF Cancel

LEMMA TakeCreates == ASSUME Early, NEW w \in Workers, Take(w) PROVE Creation'
<1>1. th[w].pc = "idle" /\ UNCHANGED <<stack, rows, phys, points>>
  BY DEF Take, At
<1>2. PICK m \in BagToSet(mail) :
        /\ mail' = mail (-) SetToBag({m})
        /\ IF m.id \notin DOMAIN rows \/ {stack.tmpl, rows[m.id].tmpl} \cap dropped # {}
           THEN UNCHANGED th
           ELSE LET r == rows[m.id]
                    stale    == stack.trav # m.trav
                    unknown  == Node(m.id, m.update) \notin stack.deps.nodes /\ r.replaces # None
                    replaced == m.update /\ r.replacedBy # None /\ r.tmpl # stack.tmpl
                    Begun(label) == th' = [th EXCEPT ![w] = [Idle EXCEPT !.pc = label, !.msg = m,
                                                               !.stk = stack, !.rsrc = r]]
                IN CASE stale /\ unknown      -> Begun("disown")
                     [] ~stale /\ ~replaced   -> Begun("lock")
                     [] OTHER                 -> UNCHANGED th
  BY DEF Take
<1> DEFINE t == [Idle EXCEPT !.pc = "lock", !.msg = m, !.stk = stack, !.rsrc = rows[m.id]]
<1>3. /\ mail[m] = 1 /\ m.update /\ m.id \in DOMAIN rows /\ rows[m.id].action = "INIT"
      /\ \A v \in Workers : Doing(v) => Own(v) # m.id
      /\ \A x \in BagToSet(mail) : x.id = m.id => x = m
  BY DEF Early, Creation, Mails
<1>4. rows[m.id].replaces = None /\ rows[m.id].tmpl = stack.tmpl
  BY <1>3 DEF Early, Creation, Listed
<1>5. UNCHANGED th \/ (stack.trav = m.trav /\ th' = [th EXCEPT ![w] = t])
  BY ONLY <1>2, <1>3, <1>4
<1>6. ~Preparing /\ w \in Threads /\ w # Creator /\ th \in [Threads -> ThreadsUpTo(used, fresh)] /\ Whole(stack)
  BY Types, Crew, ThreadsAssumption DEF Early, Creation, Untouched, Copies
<1>7. \A x \in BagToSet(mail') : x \in BagToSet(mail) /\ x # m /\ mail'[x] = mail[x]
  <2>1. \A x \in BagToSet(mail) : mail[x] = 1
    BY DEF Early, Creation, Mails
  <2>2. m \in BagToSet(mail) /\ mail' = mail (-) SetToBag({m})
    BY <1>2
  <2> QED BY ONLY <2>1, <2>2 DEF BagToSet, SetToBag, (-)
<1>8. MailsKept
  BY ONLY <1>7 DEF MailsKept
<1>9. Kept /\ Alike /\ PointsKept /\ (stack'.status = "COMPLETE" => AllServed)
  BY <1>1, <1>6, Unmoved DEF RowsSame, Alike, PointsKept, Early, Creation, Endings
<1>10. Reports'
  BY <1>1, <1>9 DEF Early, Creation, Reports, Kept
<1>11. CASE UNCHANGED th
  <2>1. ~Doing(w)' /\ Moves(w) /\ Places' /\ Copied(w)' /\ Ended(w)'
    BY <1>1, <1>6, <1>11 DEF Doing, Active, Moves, Places, Early, Creation, Copied, Ended
  <2>2. Sole(w) /\ Stage(w)'
    BY <2>1 DEF Sole, Stage
  <2> QED BY <1>1, <1>6, <1>8, <1>9, <1>10, <2>1, <2>2, Onward
<1>12. CASE stack.trav = m.trav /\ th' = [th EXCEPT ![w] = t]
  <2>1. t.pc = "lock" /\ t.msg = m /\ t.stk = stack /\ t.rsrc = rows[m.id]
    BY DEF Idle
  <2> HIDE DEF t
  <2>2. th'[w] = t /\ Moves(w)
    BY <1>6, <1>12 DEF Moves
  <2>3. Places'
    <3>1. \A q \in Threads : q # w => th'[q] = th[q]
      BY <2>2 DEF Moves
    <3>2. (\A c \in Callers : c # w /\ c \in Threads) /\ Creator \in Threads /\ Workers \subseteq Threads
      BY ThreadsAssumption DEF Threads
    <3> QED BY <1>6, <2>1, <2>2, <3>1, <3>2 DEF Places, Early, Creation, Active
  <2>4. m.trav = 1
    <3>1. m.trav \in 1 .. 1
      BY Types DEF Early, MessagesUpTo
    <3> QED BY <3>1
  <2>5. Copied(w)' /\ Ended(w)'
    BY <1>1, <1>6, <1>12, <2>1, <2>2, <2>4 DEF Copied, Whole, Ended
  <2>6. Own(w)' = m.id /\ Update(w)' /\ Doing(w)'
    BY <1>3, <2>1, <2>2 DEF Own, Update, Doing, Active
  <2>7. Stage(w)'
    <3>1. /\ th'[w].pc = "lock" /\ th'[w].rsrc = rows'[m.id] /\ m.id \in DOMAIN rows' /\ rows'[m.id].action = "INIT"
          /\ rows'[m.id].tmpl = stack'.tmpl /\ rows'[m.id].replaces = None
      BY ONLY <1>1, <1>3, <1>4, <2>1, <2>2
    <3> QED BY ONLY <2>6, <3>1 DEF Stage
  <2>8. Sole(w)
    <3>1. Started(m.id)
      BY DEF Started
    <3> QED BY <1>3, <1>7, <2>6, <3>1 DEF Sole
  <2> QED BY <1>1, <1>6, <1>8, <1>9, <1>10, <2>2, <2>3, <2>5, <2>7, <2>8, Onward
<1> QED BY <1>5, <1>11, <1>12

(* The rest of what a check may do is not for the first traversal. *)
LEMMA NotYet ==
  ASSUME Early, NEW w \in Workers
  PROVE  /\ ~Disown(w) /\ ~Discard(w) /\ ~FinishUpdate(w) /\ ~FinishDelete(w)
         /\ ~Heir(w) /\ ~Replace(w) /\ ~Link(w)
<1>1. th[w].pc \notin {"disown", "discard", "heir", "replace", "link"}
  BY DEF Early, Creation, Places, Active
<1>2. th[w].pc = "work" => th[w].out = "create"
  BY DEF Early, Creation, Stages, Stage, Doing, Active
<1> QED BY <1>1, <1>2 DEF Disown, Discard, FinishUpdate, FinishDelete, Heir, Replace, Link, At

LEMMA NoRemoval == ASSUME Early, NEW p \in Threads PROVE ~Remove(p)
BY DEF Remove, At, Threads, Early, Creation, Places, Active

LEMMA StepCreates == ASSUME Early, [Next]_vars PROVE Creation'
<1>1. CASE UNCHANGED vars
  BY <1>1, Aside DEF vars, Early, Creation, Places
<1>2. ASSUME NEW c \in Callers, Request(c) \/ CallerStep(c) PROVE Creation'
  BY <1>2, RequestCreates, CallerCreates
<1>3. ASSUME NEW p \in Threads, EngineStep(p) PROVE Creation'
  BY <1>3, AimCreates, RowsCreates, StoreGraphCreates, LaunchCreates, SettleCreates, PurgeCreates, EndCreates,
     EraseCreates, NoRemoval DEF EngineStep
<1>4. ASSUME NEW w \in Workers, CheckStep(w) \/ Cancel(w) PROVE Creation'
  <2>1. w \in Threads
    BY DEF Threads
  <2> QED BY <1>4, <2>1, TakeCreates, NotYet, ReloadCreates, LockCreates, BeginCreates, FinishCreates, UnlockCreates,
             NotifyNextCreates, CheckStackCreates, SettleCreates, CancelCreates DEF CheckStep
<1> QED BY <1>1, <1>2, <1>3, <1>4 DEF Next

(* What the first traversal makes is known to the rows: a row in INIT      *)
(* stands for nothing, and who works on a row knows what it stands for.    *)
Known ==
  /\ NothingLeaks
  /\ \A i \in DOMAIN rows : rows[i].action = "INIT" => rows[i].real = None
  /\ \A w \in Workers : At(w, "work") => rows[Own(w)].real = th[w].rsrc.real

(* At work as before. *)
Working(w) == th'[w].pc = "work" => th[w].pc = "work" /\ th'[w].msg = th[w].msg /\ th'[w].rsrc = th[w].rsrc

LEMMA Departs ==
  ASSUME TInv, NEW p \in Threads, NEW t, th' = [th EXCEPT ![p] = t], t.pc # "work"
  PROVE  \A w \in Workers : Working(w)
<1>1. Workers \subseteq Threads /\ th \in [Threads -> ThreadsUpTo(used, fresh)]
  BY Crew
<1> QED BY <1>1 DEF Working

LEMMA GoesAway ==
  ASSUME TInv, NEW p \in Threads, NEW label, label # "work", Goto(p, label) \/ Leave(p)
  PROVE  \A w \in Workers : Working(w)
<1>1. th[p] \in ThreadsUpTo(used, fresh)
  BY Crew
<1>2. CASE Goto(p, label)
  <2> DEFINE t == [th[p] EXCEPT !.pc = label]
  <2>1. th' = [th EXCEPT ![p] = t] /\ t.pc = label
    BY <1>1, <1>2 DEF Goto, ThreadsUpTo
  <2> HIDE DEF t
  <2> QED BY <2>1, Departs
<1>3. CASE Leave(p)
  <2>1. th' = [th EXCEPT ![p] = Idle] /\ Idle.pc = "idle"
    BY <1>3 DEF Leave, Idle
  <2> HIDE DEF Idle
  <2> QED BY <2>1, Departs
<1> QED BY <1>2, <1>3

(* A thread has a label, whatever else a step changes of it. *)
LEMMA Labelled == ASSUME TInv, NEW p \in Threads PROVE {"pc", "out", "stk", "rsrc", "todo", "msg", "to", "cancelled"} \subseteq DOMAIN th[p]
<1>1. th[p] \in ThreadsUpTo(used, fresh)
  BY Crew
<1> QED BY <1>1 DEF ThreadsUpTo

(* Most steps of the creation neither make anything nor write a row. *)
LEMMA KnownStays ==
  ASSUME Early, Known, phys' = phys, DOMAIN rows' = DOMAIN rows,
         \A i \in DOMAIN rows : rows'[i].real = rows[i].real /\ rows'[i].action = rows[i].action,
         \A w \in Workers : Working(w)
  PROVE  Known'
<1>1. NothingLeaks'
  BY DEF Known, NothingLeaks
<1>2. ASSUME NEW w \in Workers, th'[w].pc = "work" PROVE rows'[Own(w)'].real = th'[w].rsrc.real
  <2>1. th'[w].msg = th[w].msg /\ th'[w].rsrc = th[w].rsrc /\ Doing(w) /\ At(w, "work")
    BY <1>2 DEF Working, Doing, Active, At
  <2>2. Own(w) \in DOMAIN rows /\ Own(w)' = Own(w)
    BY <2>1, AtWork DEF Own
  <2> QED BY <2>1, <2>2 DEF Known
<1> QED BY <1>1, <1>2 DEF Known, At

LEMMA CallersKnow == ASSUME Early, NEW c \in Callers, Request(c) \/ CallerStep(c) PROVE \A w \in Workers : Working(w)
<1>1. \A w \in Workers : th'[w] = th[w]
  <2>1. c \notin Workers
    BY ThreadsAssumption
  <2>2. UNCHANGED th \/ \E t : th' = [th EXCEPT ![c] = t]
    <3>1. CASE Request(c)
      <4>1. UNCHANGED th \/ Accept(c, wish[c])
        BY <3>1 DEF Request
      <4> QED BY <4>1 DEF Accept
    <3>2. CASE CallerStep(c)
      BY <3>2, ZenonT(40) DEF CallerStep, Stop, FailStopped, Order, Wait, Goto
    <3> QED BY <3>1, <3>2
  <2>3. Workers \subseteq Threads /\ th \in [Threads -> ThreadsUpTo(used, fresh)]
    BY Crew DEF Early
  <2> QED BY <2>1, <2>2, <2>3
<1> QED BY <1>1 DEF Working

LEMMA CrewKnows ==
  ASSUME Early, NEW p \in Threads, Rollback(p) \/ Converge(p) \/ Drop(p) \/ StoreGraph(p) \/ Launch(p) \/ End(p) \/ Erase(p)
                                   \/ Purge(p) \/ Complete(p)
  PROVE  \A w \in Workers : Working(w)
<1> USE DEF Early
<1>1. CASE StoreGraph(p) \/ Launch(p) \/ End(p) \/ Erase(p) \/ Purge(p)
  BY <1>1, GoesAway DEF StoreGraph, Launch, End, Erase, Purge
<1>2. CASE Converge(p) \/ Drop(p)
  <2>1. Leave(p)
    BY <1>2 DEF Converge, Drop, At, Threads, Creation, Places, Active
  <2> QED BY <2>1, GoesAway
<1>3. CASE Rollback(p)
  <2>1. CASE Leave(p)
    BY <2>1, GoesAway
  <2>2. CASE ~Leave(p)
    <3>1. \E y : th' = [th EXCEPT ![p].pc = "converge", ![p].stk.prev = None, ![p].to = y]
      BY <1>3, <2>2 DEF Rollback
    <3>2. PICK y : th' = [th EXCEPT ![p].pc = "converge", ![p].stk.prev = None, ![p].to = y]
      BY <3>1
    <3> DEFINE t == [th[p] EXCEPT !.pc = "converge", !.stk.prev = None, !.to = y]
    <3>3. th' = [th EXCEPT ![p] = t]
      <4>1. th \in [Threads -> ThreadsUpTo(used, fresh)] /\ {"pc", "stk", "to"} \subseteq DOMAIN th[p]
        BY Labelled, Crew
      <4> QED BY ONLY <3>2, <4>1
    <3>4. t.pc = "converge"
      BY Labelled
    <3> HIDE DEF t
    <3> QED BY <3>3, <3>4, Departs
  <2> QED BY <2>1, <2>2
<1>4. CASE Complete(p)
  <2>1. SetState(p, "COMPLETE", "purge", "idle")
    BY <1>4 DEF Complete
  <2> DEFINE t == [th[p] EXCEPT !.stk.status = "COMPLETE", !.pc = "purge"]
  <2>2. t.pc = "purge"
    BY Labelled
  <2>3. th' = [th EXCEPT ![p] = t] \/ Leave(p)
    BY <2>1 DEF SetState, Leave
  <2> HIDE DEF t
  <2> QED BY <2>2, <2>3, Departs, GoesAway
<1> QED BY <1>1, <1>2, <1>3, <1>4

LEMMA WorkersKnow ==
  ASSUME Early, NEW w \in Workers,
         Take(w) \/ Retrigger(w) \/ Lock(w) \/ FinishCreate(w) \/ Break(w) \/ Unlock(w)
           \/ NotifyNext(w) \/ CheckStack(w) \/ Reload(w) \/ Fail(w) \/ Cancel(w)
  PROVE  \A v \in Workers : Working(v)
<1> USE DEF Early
<1>1. w \in Threads /\ {"pc", "out", "stk", "rsrc", "todo", "msg", "to", "cancelled"} \subseteq DOMAIN th[w]
  BY Labelled, Crew
<1>10. CASE Leave(w)
  <2>1. "reload" # "work" /\ TInv
    OBVIOUS
  <2> QED BY ONLY <1>1, <1>10, <2>1, GoesAway
<1>2. CASE Take(w)
  <2>1. \/ UNCHANGED th
        \/ \E label \in {"lock", "disown"} : \E m, r : th' = [th EXCEPT ![w] = [Idle EXCEPT !.pc = label, !.msg = m, !.stk = stack, !.rsrc = r]]
    BY <1>2 DEF Take
  <2>2. \A label, m, r : [Idle EXCEPT !.pc = label, !.msg = m, !.stk = stack, !.rsrc = r].pc = label
    BY DEF Idle
  <2>3. CASE UNCHANGED th
    BY <2>3 DEF Working
  <2>4. CASE ~UNCHANGED th
    <3>1. PICK label \in {"lock", "disown"} : \E m, r : th' = [th EXCEPT ![w] = [Idle EXCEPT !.pc = label, !.msg = m, !.stk = stack, !.rsrc = r]]
      BY <2>1, <2>4
    <3>2. PICK m, r : th' = [th EXCEPT ![w] = [Idle EXCEPT !.pc = label, !.msg = m, !.stk = stack, !.rsrc = r]]
      BY <3>1
    <3> DEFINE t == [Idle EXCEPT !.pc = label, !.msg = m, !.stk = stack, !.rsrc = r]
    <3>3. th' = [th EXCEPT ![w] = t] /\ t.pc # "work"
      BY <2>2, <3>2
    <3> HIDE DEF t
    <3> QED BY <1>1, <3>3, Departs
  <2> QED BY <2>3, <2>4
<1>3. CASE Retrigger(w) \/ NotifyNext(w) \/ CheckStack(w)
  <2>1. CASE Leave(w) \/ Goto(w, "reload") \/ Goto(w, "complete")
    <3>1. "reload" # "work" /\ "complete" # "work"
      OBVIOUS
    <3>2. TInv
      OBVIOUS
    <3> QED BY ONLY <1>1, <2>1, <3>1, <3>2, GoesAway
  <2>2. CASE NotifyNext(w) /\ \E n : th' = [th EXCEPT ![w].todo = @ \ {n}]
    <3>1. PICK n : th' = [th EXCEPT ![w] = [th[w] EXCEPT !.todo = @ \ {n}]]
      BY <2>2
    <3> DEFINE t == [th[w] EXCEPT !.todo = @ \ {n}]
    <3>2. t.pc # "work"
      BY <1>1, <2>2 DEF NotifyNext, At
    <3> QED BY <1>1, <3>1, <3>2, Departs
  <2>3. \/ Leave(w) \/ Goto(w, "reload") \/ Goto(w, "complete")
        \/ NotifyNext(w) /\ \E n : th' = [th EXCEPT ![w].todo = @ \ {n}]
    <3>1. CASE Retrigger(w)
      BY <3>1 DEF Retrigger
    <3>2. CASE NotifyNext(w)
      BY <3>2 DEF NotifyNext
    <3>3. CASE CheckStack(w)
      BY <3>3, ZenonT(40) DEF CheckStack
    <3> QED BY <1>3, <3>1, <3>2, <3>3
  <2> QED BY <2>1, <2>2, <2>3
<1>4. CASE Cancel(w)
  <2>1. UNCHANGED th \/ th' = [th EXCEPT ![w] = [th[w] EXCEPT !.cancelled = TRUE]]
    BY <1>4 DEF Cancel
  <2> QED BY <1>1, <2>1, Crew DEF Working
<1>5. CASE Reload(w)
  <2> DEFINE t == [th[w] EXCEPT !.pc = "retrigger", !.out = Own(w), !.stk = stack]
  <2>1. t.pc = "retrigger"
    BY <1>1
  <2>2. th' = [th EXCEPT ![w] = t] \/ Leave(w)
    BY <1>5 DEF Reload
  <2> HIDE DEF t
  <2> QED BY <1>1, <2>1, <2>2, Departs, GoesAway
<1>9. CASE Fail(w)
  <2>1. PICK next \in {"purge", "rollback"} : SetState(w, "FAILED", next, "reload")
    BY <1>9 DEF Fail
  <2> DEFINE t == [th[w] EXCEPT !.stk.status = "FAILED", !.pc = next]
             t2 == [th[w] EXCEPT !.pc = "reload"]
  <2>2. t.pc # "work" /\ t2.pc # "work" /\ Idle.pc # "work"
    BY <1>1 DEF Idle
  <2>3. th' = [th EXCEPT ![w] = t] \/ th' = [th EXCEPT ![w] = Idle] \/ th' = [th EXCEPT ![w] = t2]
    BY <2>1 DEF SetState
  <2> HIDE DEF t, t2, Idle
  <2>4. \A x : x.pc # "work" /\ th' = [th EXCEPT ![w] = x] => \A v \in Workers : Working(v)
    BY <1>1, Departs
  <2> QED BY <2>2, <2>3, <2>4
<1>6. CASE Lock(w)
  <2>1. CASE Leave(w)
    BY <2>1, <1>10
  <2>2. CASE ~Leave(w)
    <3> DEFINE t == [th[w] EXCEPT !.pc = "begin", !.out = "create"]
    <3>1. th' = [th EXCEPT ![w] = t]
      BY <1>6, <2>2, LockTakes
    <3>2. t.pc = "begin"
      BY <1>1
    <3> HIDE DEF t
    <3> QED BY <1>1, <3>1, <3>2, Departs
  <2> QED BY <2>1, <2>2
<1>7. CASE FinishCreate(w) \/ Break(w)
  <2>1. CASE Leave(w)
    BY <2>1, <1>10
  <2>2. CASE ~Leave(w)
    <3>1. \E out, r : th' = [th EXCEPT ![w].pc = "unlock", ![w].out = out, ![w].rsrc = r]
      <4>1. CASE FinishCreate(w)
        BY <2>2, <4>1 DEF FinishCreate, Ends
      <4>2. CASE Break(w)
        BY <2>2, <4>2 DEF Break
      <4> QED BY <1>7, <4>1, <4>2
    <3>2. PICK out, r : th' = [th EXCEPT ![w].pc = "unlock", ![w].out = out, ![w].rsrc = r]
      BY <3>1
    <3> DEFINE t == [th[w] EXCEPT !.pc = "unlock", !.out = out, !.rsrc = r]
    <3>3. th' = [th EXCEPT ![w] = t]
      BY <3>2
    <3>4. t.pc = "unlock"
      BY <1>1
    <3> HIDE DEF t
    <3> QED BY <1>1, <3>3, <3>4, Departs
  <2> QED BY <2>1, <2>2
<1>8. CASE Unlock(w)
  <2> DEFINE t == [th[w] EXCEPT !.pc = "notify", !.todo = RequiredBy(th[w].stk.deps, GraphKey(w))]
  <2>1. Leave(w) \/ Goto(w, "replace") \/ Goto(w, "fail") \/ th' = [th EXCEPT ![w] = t]
    BY <1>8 DEF Unlock
  <2>2. t.pc = "notify"
    BY <1>1
  <2> HIDE DEF t
  <2>3. "replace" # "work" /\ "fail" # "work" /\ TInv
    OBVIOUS
  <2> QED BY ONLY <1>1, <2>1, <2>2, <2>3, Departs, GoesAway
<1> QED BY <1>2, <1>3, <1>4, <1>5, <1>6, <1>7, <1>8, <1>9

LEMMA RowsKnow == ASSUME Early, Known, NEW p \in Threads, Rows(p) PROVE Known'
<1>1. p = Creator /\ DOMAIN rows = {} /\ phys' = phys
  BY OnlyCreator DEF Rows, At, Early, Creation, Untouched
<1>2. DOMAIN phys = {}
  BY <1>1 DEF Known, NothingLeaks
<1>3. CASE Leave(p) /\ UNCHANGED <<rows, used>>
  BY <1>1, <1>3, GoesAway, KnownStays DEF Early
<1>4. CASE ~(Leave(p) /\ UNCHANGED <<rows, used>>)
  <2>1. \A i \in DOMAIN rows' : Made(p, i)
    BY <1>1, <1>4, RowsEffect DEF Early, Rewritten
  <2>2. \A i \in DOMAIN rows' : rows'[i].real = None
    BY <2>1 DEF Made, NewRow
  <2>3. \A w \in Workers : th'[w].pc # "work"
    <3>1. \A w \in Workers : th[w].pc = "idle" /\ w # p
      BY <1>1, OnlyCreator, ThreadsAssumption DEF Rows, At, Early, Creation, Untouched, Preparing
    <3>2. \E t : th' = [th EXCEPT ![p] = t]
      <4>1. PICK g \in GraphsUpTo(used') : th' = [th EXCEPT ![p].pc = "graph", ![p].seen = None, ![p].stk.deps = g]
        BY <1>4, RowsEffect DEF Early
      <4>2. th' = [th EXCEPT ![p] = [th[p] EXCEPT !.pc = "graph", !.seen = None, !.stk.deps = g]]
        BY ONLY <4>1
      <4> QED BY <4>2
    <3>3. Workers \subseteq Threads /\ th \in [Threads -> ThreadsUpTo(used, fresh)]
      BY Crew DEF Early
    <3> QED BY <3>1, <3>2, <3>3
  <2> QED BY <1>1, <1>2, <2>2, <2>3 DEF Known, NothingLeaks, At
<1> QED BY <1>3, <1>4

(* The row takes the id of what is made for it, and stood for nothing.     *)
LEMMA BeginKnows == ASSUME Early, Known, NEW w \in Workers, Begin(w) PROVE Known'
<1>1. th[w].pc = "begin" /\ Doing(w)
  BY DEF Begin, At, Doing, Active
<1>2. Here(w) /\ Stage(w) /\ Own(w) \in DOMAIN rows /\ th[w].rsrc \in RowsUpTo(used)
  BY <1>1, AtWork
<1>3. Creates(w) /\ rows[Own(w)].action = "INIT"
  BY <1>1, <1>2 DEF Stage, Creates
<1> DEFINE i == Own(w)
           r == [InProgress(w) EXCEPT !.real = used + 1]
           r2 == [r EXCEPT !.lock = rows[i].lock]
           t == [th[w] EXCEPT !.pc = "work", !.rsrc = r]
<1>4. /\ rows' = [rows EXCEPT ![i] = r2] /\ th' = [th EXCEPT ![w] = t]
      /\ phys' = With(phys, used + 1, [soft |-> Want(w).soft, hard |-> Want(w).hard])
  BY <1>2, <1>3 DEF Begin, Store
<1>5. r.real = used + 1 /\ r2.real = used + 1 /\ r2.action = "CREATE"
  <2>1. InProgress(w) = [Adopted(w, th[w].rsrc) EXCEPT !.action = "CREATE", !.status = "IN_PROGRESS"]
    <3>1. ~Changes(w) /\ ~Deletes(w)
      BY <1>3 DEF Changes, Deletes, Creates
    <3> QED BY <1>3, <3>1 DEF InProgress
  <2>2. {"real", "action", "lock", "status"} \subseteq DOMAIN Adopted(w, th[w].rsrc)
    BY <1>2 DEF Adopted, RowsUpTo
  <2> QED BY <2>1, <2>2
<1>6. t.pc = "work" /\ t.rsrc = r /\ t.msg = th[w].msg
  BY Labelled, Crew DEF Early
<1> HIDE DEF r, r2, t
<1>7. DOMAIN phys' = DOMAIN phys \cup {used + 1} /\ DOMAIN rows' = DOMAIN rows /\ rows'[i] = r2
      /\ \A j \in DOMAIN rows : j # i => rows'[j] = rows[j]
  BY <1>2, <1>4 DEF With
<1>8. None \notin DOMAIN phys
  BY NoneAssumption DEF Early, TInv, Fits
<1>9. NothingLeaks'
  <2> SUFFICES ASSUME NEW x \in DOMAIN phys' PROVE \E j \in DOMAIN rows' : rows'[j].real = x
    BY DEF NothingLeaks
  <2>1. CASE x = used + 1
    BY <1>2, <1>5, <1>7, <2>1
  <2>2. CASE x \in DOMAIN phys
    <3>1. PICK j \in DOMAIN rows : rows[j].real = x
      BY <2>2 DEF Known, NothingLeaks
    <3>2. j # i
      BY <1>2, <1>3, <1>8, <2>2, <3>1 DEF Known
    <3> QED BY <1>7, <3>1, <3>2
  <2> QED BY <1>7, <2>1, <2>2
<1>10. \A j \in DOMAIN rows' : rows'[j].action = "INIT" => rows'[j].real = None
  BY <1>5, <1>7 DEF Known
<1>11. ASSUME NEW v \in Workers, th'[v].pc = "work" PROVE rows'[Own(v)'].real = th'[v].rsrc.real
  <2>1. CASE v = w
    <3>1. th'[w] = t
      BY <1>4, Crew DEF Early
    <3> QED BY <1>5, <1>6, <1>7, <2>1, <3>1 DEF Own
  <2>2. CASE v # w
    <3>1. th'[v] = th[v]
      BY <1>4, <2>2, Crew DEF Early
    <3>2. Doing(v) /\ At(v, "work")
      BY <1>11, <3>1 DEF Doing, Active, At
    <3>3. Own(v) \in DOMAIN rows /\ Own(v)' = Own(v) /\ Own(v) # i
      BY <1>1, <2>2, <3>1, <3>2, AtWork DEF Own, Early, Creation, Single
    <3> QED BY <1>7, <3>1, <3>2, <3>3 DEF Known
  <2> QED BY <2>1, <2>2
<1> QED BY <1>9, <1>10, <1>11 DEF Known, At

(* A worker writes its row, and what the row stands for stays. *)
LEMMA CheckKnows ==
  ASSUME Early, Known, NEW w \in Workers, Lock(w) \/ FinishCreate(w) \/ Break(w) \/ Unlock(w)
  PROVE  Known'
<1>1. phys' = phys /\ \A v \in Workers : Working(v)
  BY WorkersKnow DEF Lock, FinishCreate, Break, Unlock
<1>2. Doing(w) /\ Here(w) /\ Own(w) \in DOMAIN rows /\ rows[Own(w)] \in RowsUpTo(used) /\ th[w].rsrc \in RowsUpTo(used) /\ Stage(w)
  <2>1. Doing(w)
    BY DEF Lock, FinishCreate, Break, Unlock, At, Doing, Active
  <2> QED BY <2>1, AtWork
<1>3. CASE UNCHANGED rows
  BY <1>1, <1>3, KnownStays
<1>4. ASSUME NEW r, rows' = [rows EXCEPT ![Own(w)] = r], r.real = rows[Own(w)].real, r.action = rows[Own(w)].action
      PROVE  Known'
  BY <1>1, <1>2, <1>4, KnownStays
<1>5. CASE Lock(w)
  <2> DEFINE r == [rows[Own(w)] EXCEPT !.lock = w]
  <2>1. rows' = rows \/ rows' = [rows EXCEPT ![Own(w)] = r]
    BY <1>5 DEF Lock
  <2>2. r.real = rows[Own(w)].real /\ r.action = rows[Own(w)].action
    BY <1>2 DEF RowsUpTo
  <2> HIDE DEF r
  <2> QED BY <1>3, <1>4, <2>1, <2>2
<1>6. CASE FinishCreate(w) \/ Break(w)
  <2>1. \E status \in {"COMPLETE", "FAILED"} : Store(Own(w), [th[w].rsrc EXCEPT !.status = status])
    BY <1>2, <1>6 DEF FinishCreate, Break, Ends, Done
  <2>2. PICK status \in {"COMPLETE", "FAILED"} : Store(Own(w), [th[w].rsrc EXCEPT !.status = status])
    BY <2>1
  <2> DEFINE r == [[th[w].rsrc EXCEPT !.status = status] EXCEPT !.lock = rows[Own(w)].lock]
  <2>3. rows' = [rows EXCEPT ![Own(w)] = r]
    BY <2>2 DEF Store
  <2>4. r.real = th[w].rsrc.real /\ r.action = th[w].rsrc.action
    BY <1>2 DEF RowsUpTo
  <2> HIDE DEF r
  <2>5. th[w].pc = "work" /\ At(w, "work")
    BY <1>6 DEF FinishCreate, Break, At
  <2>6. rows[Own(w)].real = th[w].rsrc.real /\ rows[Own(w)].action = "CREATE" /\ th[w].rsrc.action = "CREATE"
    BY <1>2, <2>5 DEF Known, Stage
  <2> QED BY <1>4, <2>3, <2>4, <2>6
<1>7. CASE Unlock(w)
  <2> DEFINE r == [rows[Own(w)] EXCEPT !.lock = None, !.tmpl = th[w].rsrc.tmpl, !.requires = th[w].rsrc.requires]
  <2>1. rows' = rows \/ rows' = [rows EXCEPT ![Own(w)] = r]
    <3>1. \/ rows' = [rows EXCEPT ![Own(w)].lock = None, ![Own(w)].tmpl = th[w].rsrc.tmpl,
                                  ![Own(w)].requires = th[w].rsrc.requires]
          \/ rows' = rows
      BY <1>7 DEF Unlock
    <3> QED BY ONLY <1>2, <3>1
  <2>2. r.real = rows[Own(w)].real /\ r.action = rows[Own(w)].action
    BY <1>2 DEF RowsUpTo
  <2> HIDE DEF r
  <2> QED BY <1>3, <1>4, <2>1, <2>2
<1> QED BY <1>5, <1>6, <1>7

LEMMA StepKnows == ASSUME Early, Known, [Next]_vars PROVE Known'
<1>1. CASE UNCHANGED vars
  BY <1>1, KnownStays DEF vars, Working
<1>2. ASSUME NEW c \in Callers, Request(c) \/ CallerStep(c) PROVE Known'
  <2>1. UNCHANGED <<rows, phys>>
    BY <1>2 DEF Request, CallerStep, Stop, FailStopped, Order, Wait
  <2> QED BY <1>2, <2>1, CallersKnow, KnownStays
<1>3. ASSUME NEW p \in Threads, EngineStep(p) PROVE Known'
  <2>1. CASE Rows(p)
    BY <2>1, RowsKnow
  <2>2. CASE Purge(p)
    <3>1. phys' = phys /\ rows' = RestrictValues(rows, LAMBDA r : ~Deleted(r))
      BY <2>2 DEF Purge
    <3>2. \A i \in DOMAIN rows : ~Deleted(rows[i])
      BY DEF Early, Creation, Listed, Deleted
    <3>3. DOMAIN rows' = DOMAIN rows /\ \A i \in DOMAIN rows : rows'[i] = rows[i]
      BY <3>1, <3>2 DEF RestrictValues, Restrict
    <3> QED BY <2>2, <3>1, <3>3, CrewKnows, KnownStays
  <2>3. CASE Rollback(p) \/ Converge(p) \/ Drop(p) \/ StoreGraph(p) \/ Launch(p) \/ End(p) \/ Erase(p) \/ Complete(p)
    <3>1. UNCHANGED <<rows, phys>>
      BY <2>3 DEF Rollback, Converge, Drop, StoreGraph, Launch, End, Erase, Complete
    <3> QED BY <2>3, <3>1, CrewKnows, KnownStays
  <2> QED BY <1>3, <2>1, <2>2, <2>3, NoRemoval DEF EngineStep
<1>4. ASSUME NEW w \in Workers, CheckStep(w) \/ Cancel(w) PROVE Known'
  <2>1. CASE Take(w) \/ Retrigger(w) \/ NotifyNext(w) \/ CheckStack(w) \/ Reload(w) \/ Fail(w) \/ Cancel(w)
    <3>1. UNCHANGED <<rows, phys>>
      BY <2>1 DEF Take, Retrigger, NotifyNext, CheckStack, Reload, Fail, Cancel
    <3> QED BY <2>1, <3>1, WorkersKnow, KnownStays
  <2> QED BY <1>4, <2>1, NotYet, BeginKnows, CheckKnows DEF CheckStep
<1> QED BY <1>1, <1>2, <1>3, <1>4 DEF Next

(* Traversal ids are drawn, and never given back. *)
LEMMA TraversalsRise == ASSUME [Next]_vars PROVE fresh' = fresh \/ fresh' = fresh + 1
<1>1. ASSUME NEW c, Request(c) \/ CallerStep(c) PROVE fresh' = fresh \/ fresh' = fresh + 1
  BY <1>1 DEF Request, CallerStep, Stop, FailStopped, Order, Wait
<1>2. ASSUME NEW p, EngineStep(p) PROVE fresh' = fresh \/ fresh' = fresh + 1
  <2>1. Converge(p) => fresh' = fresh \/ fresh' = fresh + 1
    BY DEF Converge
  <2>2. (Rollback(p) \/ Drop(p) \/ Rows(p) \/ StoreGraph(p) \/ Launch(p)) => fresh' = fresh
    BY DEF Rollback, Drop, Rows, StoreGraph, Launch
  <2>3. (Complete(p) \/ Purge(p) \/ End(p) \/ Erase(p) \/ Remove(p)) => fresh' = fresh
    BY DEF Complete, Purge, End, Erase, Remove
  <2> QED BY <1>2, <2>1, <2>2, <2>3 DEF EngineStep
<1>3. ASSUME NEW w, CheckStep(w) \/ Cancel(w) PROVE fresh' = fresh
  <2>1. (Take(w) \/ Disown(w) \/ Retrigger(w) \/ Lock(w) \/ Discard(w) \/ Begin(w)) => fresh' = fresh
    BY DEF Take, Disown, Retrigger, Lock, Discard, Begin
  <2>2. (FinishCreate(w) \/ FinishUpdate(w) \/ FinishDelete(w) \/ Break(w) \/ Heir(w) \/ Unlock(w)) => fresh' = fresh
    BY DEF FinishCreate, FinishUpdate, FinishDelete, Break, Heir, Unlock
  <2>3. (Replace(w) \/ Link(w) \/ NotifyNext(w) \/ CheckStack(w) \/ Reload(w) \/ Fail(w) \/ Cancel(w)) => fresh' = fresh
    BY DEF Replace, Link, NotifyNext, CheckStack, Reload, Fail, Cancel
  <2> QED BY <1>3, <2>1, <2>2, <2>3 DEF CheckStep
<1>4. CASE UNCHANGED vars
  BY <1>4 DEF vars
<1>5. CASE Next
  BY <1>1, <1>2, <1>3, <1>5 DEF Next
<1> QED BY <1>4, <1>5

Counted == fresh \in Nat /\ fresh >= 1

LEMMA TraversalsCount == Spec => []Counted
<1>1. Init => Counted
  BY DEF Init, Counted
<1>2. Counted /\ [Next]_vars => Counted'
  <2> SUFFICES ASSUME fresh \in Nat, fresh >= 1, [Next]_vars PROVE fresh' \in Nat /\ fresh' >= 1
    BY DEF Counted
  <2>1. fresh' = fresh \/ fresh' = fresh + 1
    BY TraversalsRise
  <2> QED BY ONLY <2>1, fresh \in Nat, fresh >= 1
<1> QED BY <1>1, <1>2, PTL DEF Spec

LEMMA Created == Spec => [](FirstTraversal => Creation)
<1>1. /\ TInv /\ TInv' /\ Counted
      /\ (FirstTraversal => Creation) /\ [Next]_vars
      => (FirstTraversal => Creation)'
  <2> SUFFICES ASSUME TInv, TInv', fresh \in Nat, fresh >= 1, FirstTraversal => Creation, [Next]_vars, fresh' = 1
               PROVE  Creation'
    BY DEF FirstTraversal, Counted
  <2>1. fresh = 1
    <3>1. fresh' = fresh \/ fresh' = fresh + 1
      BY TraversalsRise
    <3> QED BY ONLY <3>1, fresh \in Nat, fresh >= 1, fresh' = 1
  <2> QED BY <2>1, StepCreates DEF Early, FirstTraversal
<1> QED BY <1>1, InitCreates, TraversalsCount, Fitting, PTL DEF Spec

LEMMA CompleteFirst == TInv /\ fresh = 1 /\ Creation => CompleteMeansInService
<1> SUFFICES ASSUME TInv, Creation, stack.status = "COMPLETE", NEW n \in DOMAIN Def[stack.tmpl]
             PROVE  \E i \in DOMAIN rows : InService(i, n, stack.tmpl)
  BY DEF CompleteMeansInService
<1>1. AllServed /\ ~Preparing
  BY DEF Creation, Endings, Untouched
<1>2. PICK i \in DOMAIN rows : rows[i].name = n
  BY <1>1 DEF Creation, Charted, Preparing
<1> QED BY <1>1, <1>2 DEF AllServed, Served

(* Of the first traversal of a stack, whatever templates (without cycles), *)
(* workers and failures, and whatever other requests are under way: a      *)
(* stack that mark_complete says is COMPLETE has each resource of its      *)
(* template in service: check_stack_complete is right that the roots       *)
(* suffice.                                                                *)
THEOREM FirstTraversalCompletes == Spec => [](FirstTraversal => CompleteMeansInService)
<1>1. TInv /\ (FirstTraversal => Creation) => (FirstTraversal => CompleteMeansInService)
  BY CompleteFirst DEF FirstTraversal
<1> QED BY <1>1, Created, Fitting, PTL

(* ... and, as long as no other traversal begins, check_resource starts to *)
(* make a resource only when those it needs are in service: for the node   *)
(* to have a message, each of them has left its report at its sync point.  *)
THEOREM FirstTraversalInOrder == Spec /\ []FirstTraversal => RequirementsFirst
<1> DEFINE Ordered == \A w \in Workers :
             (At(w, "begin") /\ th'[w].pc = "work" /\ Update(w) /\ Current(w)) =>
               \A m \in Want(w).needs : \E i \in DOMAIN rows : InService(i, m, stack.tmpl)
<1>1. TInv /\ TInv' /\ FirstTraversal /\ FirstTraversal' /\ (FirstTraversal => Creation) => Ordered
  <2> SUFFICES ASSUME Early, NEW w \in Workers, th[w].pc = "begin", NEW m \in Want(w).needs
               PROVE  \E i \in DOMAIN rows : InService(i, m, stack.tmpl)
    BY DEF Early, FirstTraversal, At
  <2>1. Doing(w)
    BY DEF Doing, Active
  <2>2. /\ ~Preparing /\ Stage(w) /\ Own(w) \in DOMAIN rows /\ th[w].stk.tmpl = stack.tmpl
        /\ rows[Own(w)].name \in DOMAIN Def[stack.tmpl] /\ stack.tmpl \in DOMAIN Def
    BY <2>1, AtWork, Types DEF Early
  <2>3. Want(w) = Def[stack.tmpl][rows[Own(w)].name]
    BY <2>1, <2>2 DEF Want, Stage
  <2>4. m \in DOMAIN Def[stack.tmpl]
    BY <2>2, <2>3
  <2>5. PICK j \in DOMAIN rows : rows[j].name = m
    BY <2>2, <2>4 DEF Early, Creation, Charted, Preparing
  <2>6. <<Up(Own(w)), Up(j)>> \in stack.deps.edges
    BY <2>2, <2>3, <2>5, ChartedNodes DEF Requires
  <2>7. Started(Own(w))
    BY <2>1 DEF Started
  <2>8. Served(j)
    BY <2>2, <2>6, <2>7 DEF Early, Creation, Joins
  <2> QED BY <2>5, <2>8 DEF Served
<1>2. Spec /\ []FirstTraversal => [][Ordered]_vars
  BY <1>1, Created, Fitting, PTL
<1> QED BY <1>2 DEF RequirementsFirst

(* ... and what the first traversal makes is known to the rows, whatever   *)
(* fails or is cancelled half way and whoever else asks for what: a worker *)
(* writes a row from a copy it loaded before it had the lock, but never    *)
(* over the id of what another made for the row (load_resource, _acquire,  *)
(* store in Resource).  It needs no window shut.                           *)
THEOREM FirstTraversalKeepsTrack == Spec => [](FirstTraversal => NothingLeaks)
<1>1. Init => Known
  BY DEF Init, Known, NothingLeaks, At, Idle, Threads
<1>2. /\ TInv /\ TInv' /\ Counted /\ (FirstTraversal => Creation)
      /\ (FirstTraversal => Known) /\ [Next]_vars
      => (FirstTraversal => Known)'
  <2> SUFFICES ASSUME TInv, TInv', fresh \in Nat, fresh >= 1, FirstTraversal => Creation,
                      FirstTraversal => Known, [Next]_vars, fresh' = 1
               PROVE  Known'
    BY DEF FirstTraversal, Counted
  <2>1. fresh = 1
    <3>1. fresh' = fresh \/ fresh' = fresh + 1
      BY TraversalsRise
    <3> QED BY ONLY <3>1, fresh \in Nat, fresh >= 1, fresh' = 1
  <2> QED BY <2>1, StepKnows DEF Early, FirstTraversal
<1>3. (FirstTraversal => Known) => (FirstTraversal => NothingLeaks)
  BY DEF Known
<1> QED BY <1>1, <1>2, <1>3, Created, TraversalsCount, Fitting, PTL DEF Spec
=============================================================================
