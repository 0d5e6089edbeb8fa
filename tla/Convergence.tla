------------------------------ MODULE Convergence ------------------------------
(***************************************************************************)
(* A stack of the heat convergence engine, from the request that changes   *)
(* it to the worker that ends the traversal.  The engine thread of a       *)
(* request stores the new template under a new traversal id, makes the     *)
(* resource rows the template lacks, stores the graph, makes a sync point  *)
(* for each node and sends a message for each leaf; any worker takes any   *)
(* message, checks the resource under the lock of its row and notifies the *)
(* nodes that require it; the one that completes the roots marks the stack *)
(* COMPLETE.  A later request takes the stack over by changing the         *)
(* traversal id, and nothing stops the workers of the former one.          *)
(*                                                                         *)
(* One step is at most one write of a row that others write too.  A call   *)
(* of sync() is one step, which module SyncPoint shows it to be.           *)
(***************************************************************************)
EXTENDS Naturals, FiniteSets, Bags, Functions, FiniteSetsExt

CONSTANTS
  Workers,     \* threads that take check_resource messages, each in its engine
  Creator,     \* the thread of create_stack
  Callers,     \* the threads of later requests
  Plans,       \* what they may ask for: a template, "delete", "rollback" or None
  Empty,       \* the template with no resource
  Def,         \* Def[t][n]: needs, and the properties soft and hard, of n in t
  Breaks,      \* what may fail: "create", "update" or "delete", of n, on the way to t
  RollbackOn,  \* not disable_rollback
  Quick,       \* the labels of a thread that goes on before any other does
  Prompt,      \* cancelled workers stop before the wait for them ends
  None

ASSUME TemplatesAssumption ==
  /\ Empty \in DOMAIN Def /\ DOMAIN Def[Empty] = {}
  /\ \A p \in Plans : p[Creator] \in DOMAIN Def
  /\ \A p \in Plans : \A c \in Callers : p[c] \in DOMAIN Def \cup {"delete", "rollback", None}
  /\ \A t \in DOMAIN Def : IsFiniteSet(DOMAIN Def[t])
  /\ \A t \in DOMAIN Def : \A n \in DOMAIN Def[t] : Def[t][n].needs \subseteq DOMAIN Def[t] \ {n}

(* No template has a cycle: of any of its resources, some is required by  *)
(* none of them.  (validate and _update_or_store_resources go through the  *)
(* dependencies in order: toposort raises CircularDependencyException.)    *)
ASSUME AcyclicAssumption ==
  \A t \in DOMAIN Def : \A S \in SUBSET DOMAIN Def[t] :
    S # {} => \E n \in S : \A m \in S : n \notin Def[t][m].needs

(* Each request has a thread of its own, and so has each message.          *)
ASSUME ThreadsAssumption == Workers \cap Callers = {} /\ Creator \notin Workers \cup Callers

Threads == Workers \cup Callers \cup {Creator}

(* No row, traversal or thread is called None. *)
ASSUME NoneAssumption == None \notin Nat /\ None \notin Threads

VARIABLES
  stack,   \* the row of the stack
  dropped, \* the raw templates deleted
  rows,    \* table resource, by id
  phys,    \* the physical resources: settings by physical id
  points,  \* table sync_point: input_data by traversal and node
  mail,    \* the check_resource messages under way
  th,      \* what each thread is doing and the copies it works on
  wish,    \* what each caller has yet to ask for
  orders,  \* the engines a cancel_check_resource is under way to
  used,    \* rows and physical resources made so far
  fresh    \* traversal ids drawn so far

vars == <<stack, dropped, rows, phys, points, mail, th, wish, orders, used, fresh>>

(* The function f, but v for x. *)
With(f, x, v) == [y \in DOMAIN f \cup {x} |-> IF y = x THEN v ELSE f[y]]

-----------------------------------------------------------------------------
(* Graphs.  A node is a resource id with is_update; an edge leads from a   *)
(* node to one it requires.  The stack itself has id 0.                    *)

Node(id, update) == [id |-> id, update |-> update]
StackNode == Node(0, TRUE)

Predecessors(g, n) == {m \in g.nodes : <<n, m>> \in g.edges}
RequiredBy(g, n)   == {m \in g.nodes : <<m, n>> \in g.edges}
(* Seeded fault: a node with one predecessor starts at once. *)
LeavesEager(g) == {n \in g.nodes : Cardinality(Predecessors(g, n)) <= 1}

Leaves(g) == {n \in g.nodes : Predecessors(g, n) = {}}
Roots(g)  == {n \in g.nodes : RequiredBy(g, n) = {}}

Pairs(A, R(_, _)) == {e \in A \X A : R(e[1], e[2])}

(* The edges of the template between the rows chosen for it; and for the   *)
(* rows found before, each resource deleted before the ones it required, a *)
(* replacement before what it replaces, and each after its own update.     *)
GraphOf(t, cur, found) ==
  LET ups   == {Node(cur[n], TRUE) : n \in DOMAIN cur}
      downs == {Node(i, FALSE) : i \in DOMAIN found}
      Needs(a, b)   == \E n \in DOMAIN cur : \E m \in Def[t][n].needs : a.id = cur[n] /\ b.id = cur[m]
      Outlives(a, b) == a.id \in found[b.id].requires \/ a.id = found[b.id].replaces
  IN [nodes |-> ups \cup downs,
      edges |-> Pairs(ups, Needs) \cup Pairs(downs, Outlives)
                \cup {<<Node(i, FALSE), Node(i, TRUE)>> : i \in DOMAIN found \cap Range(cur)}]

-----------------------------------------------------------------------------
(* Threads.  Their fields: the message; the copies of the stack and of the *)
(* resource row they loaded; how the check ended; the nodes left to        *)
(* notify; the template and action to converge to; the rows by name an     *)
(* update read when it was authorised; the traversal superseded.           *)

Idle == [pc |-> "idle", msg |-> None, stk |-> None, rsrc |-> None, out |-> None, todo |-> {},
         to |-> None, seen |-> None, old |-> None, cancelled |-> FALSE]

At(p, label)   == th[p].pc = label
Goto(p, label) == th' = [th EXCEPT ![p].pc = label]
Leave(p)       == th' = [th EXCEPT ![p] = Idle]

Own(w)  == th[w].msg.id
Here(w) == Own(w) \in DOMAIN rows

(* select_and_update(exp_trvsl) has nothing to write once another          *)
(* traversal has begun, and raises when the stack is gone.                 *)
Current(p) == ~stack.gone /\ stack.trav = th[p].stk.trav

-----------------------------------------------------------------------------
(* Messages and sync points. *)

Message(trav, node, data) == [id |-> node.id, update |-> node.update, trav |-> trav, data |-> data]

Post(ms) == mail' = mail (+) SetToBag(ms)

Present(trav, node) == <<trav, node>> \in DOMAIN points

Joined(trav, node, from, data) == With(points[<<trav, node>>], from, data)

(* Seeded fault: one predecessor is enough. *)
ReadyAny(preds, input) == preds \cap DOMAIN input # {}

Ready(preds, input) == preds \subseteq DOMAIN input

(* Seeded fault: reports without data are passed on. *)
NotifyEmpty(trav, node, from, data, preds) ==
  LET input == Joined(trav, node, from, data) IN
  /\ points' = [points EXCEPT ![<<trav, node>>] = input]
  /\ IF Ready(preds, input) THEN Post({Message(trav, node, Range(input))}) ELSE UNCHANGED mail

(* propagate_check_resource: leave data under from at the sync point of    *)
(* node; the call that finds all of preds there posts the node's message.  *)
Notify(trav, node, from, data, preds) ==
  LET input == Joined(trav, node, from, data) IN
  /\ points' = [points EXCEPT ![<<trav, node>>] = input]
  /\ IF Ready(preds, input)
     THEN Post({Message(trav, node, Range(input) \ {None})})
     ELSE UNCHANGED mail

DropPoints(trav) == points' = RestrictDomain(points, LAMBDA k : k[1] # trav)

-----------------------------------------------------------------------------
(* Resource rows. *)

NewRow(n, t, action, replaces, requires) ==
  [name |-> n, tmpl |-> t, action |-> action, status |-> "COMPLETE", requires |-> requires,
   replaces |-> replaces, replacedBy |-> None, real |-> None, lock |-> None]

Deleted(r) == r.action = "DELETE" /\ r.status = "COMPLETE"

(* store(): every column but engine_id, from the copy. *)
Store(id, r) == rows' = [rows EXCEPT ![id] = [r EXCEPT !.lock = rows[id].lock]]

(* db_resource_get: one row for each name. *)
ByName ==
  [n \in {rows[i].name : i \in DOMAIN rows} |->
     LET i == Max({j \in DOMAIN rows : rows[j].name = n}) IN [id |-> i, row |-> rows[i]]]

-----------------------------------------------------------------------------
(* create_stack has stored the stack and goes on in its own thread.        *)
Init ==
  /\ \E plan \in Plans :
       /\ wish = Restrict(plan, Callers)
       /\ stack = [trav |-> 1, action |-> "CREATE", status |-> "IN_PROGRESS", tmpl |-> plan[Creator],
                   prev |-> None, deps |-> [nodes |-> {}, edges |-> {}], gone |-> FALSE]
  /\ dropped = {}
  /\ rows = <<>>
  /\ phys = <<>>
  /\ points = <<>>
  /\ mail = EmptyBag
  /\ th = [p \in Threads |-> IF p = Creator THEN [Idle EXCEPT !.pc = "rows", !.stk = stack] ELSE Idle]
  /\ orders = {}
  /\ used = 0
  /\ fresh = 1

-----------------------------------------------------------------------------
(* Requests. *)

(* The checks that raise before a thread is started. *)
Refused(what) ==
  \/ stack.gone
  \/ what \in DOMAIN Def /\ stack.action = "DELETE"
  \/ what = "rollback" /\ ~(stack.status = "IN_PROGRESS" /\ stack.action = "UPDATE")
  \/ what = "delete" /\ stack.action = "DELETE" /\ stack.status = "COMPLETE"

(* update_stack, stack_cancel_update and delete_stack load the stack. *)
Accept(c, what) ==
  LET start == [Idle EXCEPT !.stk = stack] IN
  th' = [th EXCEPT ![c] =
    CASE what = "rollback" -> [start EXCEPT !.pc = "rollback"]
      [] what = "delete" -> [start EXCEPT !.pc = IF stack.status = "IN_PROGRESS" THEN "stop" ELSE "order",
                                          !.to = [tmpl |-> Empty, action |-> "DELETE"]]
      [] OTHER -> [start EXCEPT !.pc = "converge", !.seen = ByName, !.to = [tmpl |-> what, action |-> "UPDATE"]]]

Request(c) ==
  /\ wish[c] # None
  /\ wish' = [wish EXCEPT ![c] = None]
  /\ IF Refused(wish[c]) THEN UNCHANGED th ELSE Accept(c, wish[c])
  /\ UNCHANGED <<stack, dropped, rows, phys, points, mail, orders, used, fresh>>

(* _stop_traversal changes the traversal id; it keeps its own new id in    *)
(* memory whether or not the row took it.  (On a stack that is gone it     *)
(* raises; here the request goes on and finds that it is not current.)     *)
Stop(c) ==
  /\ At(c, "stop")
  /\ fresh' = fresh + 1
  /\ stack' = IF Current(c) THEN [stack EXCEPT !.trav = fresh + 1] ELSE stack
  /\ th' = [th EXCEPT ![c].stk.trav = fresh + 1, ![c].old = th[c].stk.trav,
                      ![c].pc = IF Current(c) THEN "fail_stopped" ELSE "order"]
  /\ UNCHANGED <<dropped, rows, phys, points, mail, wish, orders, used>>

(* ... then marks the stack FAILED and drops the sync points. *)
FailStopped(c) ==
  /\ At(c, "fail_stopped")
  /\ th' = [th EXCEPT ![c].pc = "order", ![c].stk.status = "FAILED"]
  /\ IF Current(c)
     THEN stack' = [stack EXCEPT !.action = th[c].stk.action, !.status = "FAILED"] /\ DropPoints(th[c].old)
     ELSE UNCHANGED <<stack, points>>
  /\ UNCHANGED <<dropped, rows, phys, mail, wish, orders, used, fresh>>

(* _cancel_workers: an order to each engine that locks a row. *)
Order(c) ==
  /\ At(c, "order")
  /\ orders' = orders \cup ({rows[i].lock : i \in DOMAIN rows} \ {None})
  /\ Goto(c, "wait")
  /\ UNCHANGED <<stack, dropped, rows, phys, points, mail, wish, used, fresh>>

(* _wait_for_cancellation: until no row is locked, or 15 seconds. *)
Wait(c) ==
  /\ At(c, "wait")
  /\ Prompt => orders = {} /\ \A i \in DOMAIN rows : rows[i].lock = None
  /\ Goto(c, "converge")
  /\ UNCHANGED <<stack, dropped, rows, phys, points, mail, wish, orders, used, fresh>>

(* cancel_check_resource puts THREAD_CANCEL in the queue of the check that *)
(* runs when it arrives, if one does.                                      *)
Cancel(w) ==
  /\ w \in orders
  /\ orders' = orders \ {w}
  /\ th' = IF th[w].pc \in {"lock", "begin", "work"} THEN [th EXCEPT ![w].cancelled = TRUE] ELSE th
  /\ UNCHANGED <<stack, dropped, rows, phys, points, mail, wish, used, fresh>>

(* rollback(): to the empty template if there is no previous one, else     *)
(* store the whole copy with no previous template and take that one.       *)
Rollback(p) ==
  /\ At(p, "rollback")
  /\ LET s == th[p].stk
         Toward(t) == th' = [th EXCEPT ![p].pc = "converge", ![p].stk.prev = None,
                                       ![p].to = [tmpl |-> t, action |-> "ROLLBACK"]]
     IN \/ s.prev = None /\ Toward(Empty) /\ UNCHANGED stack
        \/ /\ s.prev # None /\ s.prev \notin dropped /\ Current(p)
           /\ stack' = [s EXCEPT !.prev = None]
           /\ Toward(s.prev)
        \/ /\ s.prev # None /\ (s.prev \in dropped \/ ~Current(p))
           /\ Leave(p) /\ UNCHANGED stack
  /\ UNCHANGED <<dropped, rows, phys, points, mail, wish, orders, used, fresh>>

-----------------------------------------------------------------------------
(* converge_stack and _converge_create_or_update. *)

(* Take the stack over, if its traversal is still the one loaded. *)
Converge(p) ==
  /\ At(p, "converge")
  /\ LET s  == th[p].stk
         to == th[p].to
         s2 == [s EXCEPT !.trav = fresh + 1, !.action = to.action, !.status = "IN_PROGRESS",
                         !.tmpl = to.tmpl, !.prev = s.tmpl]
     IN IF Current(p) /\ to.tmpl \notin dropped
        THEN /\ stack' = s2
             /\ fresh' = fresh + 1
             /\ th' = [th EXCEPT ![p].stk = s2, ![p].pc = "drop", ![p].old = s.trav, ![p].to = None]
        ELSE Leave(p) /\ UNCHANGED <<stack, fresh>>
  /\ UNCHANGED <<dropped, rows, phys, points, mail, wish, orders, used>>

Drop(p) ==
  /\ At(p, "drop")
  /\ DropPoints(th[p].old)
  /\ th' = [th EXCEPT ![p].pc = "rows", ![p].old = None]
  /\ UNCHANGED <<stack, dropped, rows, phys, mail, wish, orders, used, fresh>>

(* _get_best_existing_rsrc_db: a row of this template, else one of the     *)
(* previous template, else any.                                            *)
Best(n, s, found) ==
  LET named == {i \in DOMAIN found : found[i].name = n}
      Of(t) == {i \in named : found[i].tmpl = t}
  IN CASE Of(s.tmpl) # {} -> Of(s.tmpl)
       [] Of(s.tmpl) = {} /\ Of(s.prev) # {} -> Of(s.prev)
       [] OTHER -> named

(* _update_or_store_resources, and the graph in memory.  A name with no    *)
(* active row takes the row its Resource object was loaded from, written   *)
(* back from that copy, or a new one.                                      *)
Rows(p) ==
  /\ At(p, "rows")
  /\ LET s      == th[p].stk
         seen   == IF th[p].seen = None THEN ByName ELSE th[p].seen
         found  == RestrictValues(rows, LAMBDA r : ~Deleted(r))
         names  == DOMAIN Def[s.tmpl]
         kept   == {n \in names : Best(n, s, found) # {}}
         again  == {n \in names \ kept : n \in DOMAIN seen}
         made   == names \ (kept \cup again)
         ids    == CHOOSE f \in [made -> used + 1 .. used + Cardinality(made)] : IsInjective(f)
         action == IF s.action = "ROLLBACK" THEN "ROLLBACK" ELSE "INIT"
         Copy(n) == [seen[n].row EXCEPT !.tmpl = s.tmpl, !.lock = rows[seen[n].id].lock]
         Fill(n) == NewRow(n, s.tmpl, action, None, {})
     IN IF \E n \in again : seen[n].id \notin DOMAIN rows
        THEN Leave(p) /\ UNCHANGED <<rows, used>>
        ELSE \E best \in [kept -> DOMAIN found] :
               /\ \A n \in kept : best[n] \in Best(n, s, found)
               /\ LET cur == [n \in names |-> CASE n \in kept -> best[n]
                                                [] n \in again -> seen[n].id
                                                [] OTHER -> ids[n]]
                      New(i) == CHOOSE n \in again \cup made : cur[n] = i
                      written == {cur[n] : n \in again \cup made}
                  IN /\ rows' = [i \in DOMAIN rows \cup written |->
                                   IF i \notin written THEN rows[i]
                                   ELSE IF New(i) \in again THEN Copy(New(i)) ELSE Fill(New(i))]
                     /\ th' = [th EXCEPT ![p].pc = "graph", ![p].seen = None,
                                         ![p].stk.deps = GraphOf(s.tmpl, cur, found)]
               /\ used' = used + Cardinality(made)
  /\ UNCHANGED <<stack, dropped, phys, points, mail, wish, orders, fresh>>

StoreGraph(p) ==
  /\ At(p, "graph")
  /\ IF Current(p)
     THEN stack' = th[p].stk /\ Goto(p, "launch")
     ELSE Leave(p) /\ UNCHANGED stack
  /\ UNCHANGED <<dropped, rows, phys, points, mail, wish, orders, used, fresh>>

(* A sync point for each node and for the stack, a message for each leaf.  *)
Launch(p) ==
  /\ At(p, "launch")
  /\ LET s == th[p].stk IN
     /\ LET made == {<<s.trav, n>> : n \in s.deps.nodes \cup {StackNode}} IN
        points' = [k \in DOMAIN points \cup made |-> IF k \in made THEN <<>> ELSE points[k]]
     /\ Post({Message(s.trav, n, {}) : n \in Leaves(s.deps)})
     /\ IF s.deps.nodes = {} THEN Goto(p, "complete") ELSE Leave(p)
  /\ UNCHANGED <<stack, dropped, rows, phys, wish, orders, used, fresh>>

-----------------------------------------------------------------------------
(* mark_complete, purge_db and _handle_failure. *)

(* state_set: only the state is written. *)
SetState(p, status, next, otherwise) ==
  IF Current(p)
  THEN /\ stack' = [stack EXCEPT !.action = th[p].stk.action, !.status = status]
       /\ th' = [th EXCEPT ![p].stk.status = status, ![p].pc = next]
  ELSE /\ th' = [th EXCEPT ![p] = IF otherwise = "idle" \/ stack.gone THEN Idle
                                  ELSE [@ EXCEPT !.pc = otherwise]]
       /\ UNCHANGED stack

Complete(p) ==
  /\ At(p, "complete")
  /\ SetState(p, "COMPLETE", "purge", "idle")
  /\ UNCHANGED <<dropped, rows, phys, points, mail, wish, orders, used, fresh>>

Fail(w) ==
  /\ At(w, "fail")
  /\ LET next == IF RollbackOn /\ th[w].stk.action \in {"CREATE", "UPDATE"} THEN "rollback" ELSE "purge"
     IN SetState(w, "FAILED", next, "reload")
  /\ UNCHANGED <<dropped, rows, phys, points, mail, wish, orders, used, fresh>>

(* purge_db: the rows of deleted resources, of whatever traversal ... *)
Purge(p) ==
  /\ At(p, "purge")
  /\ rows' = RestrictValues(rows, LAMBDA r : ~Deleted(r))
  /\ Goto(p, "end")
  /\ UNCHANGED <<stack, dropped, phys, points, mail, wish, orders, used, fresh>>

(* ... then the whole copy of the stack, whose previous template is let go ... *)
End(p) ==
  /\ At(p, "end")
  /\ LET s == th[p].stk
         failed == s.status = "FAILED"
     IN IF Current(p)
        THEN /\ stack' = [s EXCEPT !.trav = IF failed THEN 0 ELSE @, !.prev = IF failed THEN @ ELSE None]
             /\ Goto(p, "erase")
        ELSE Leave(p) /\ UNCHANGED stack
  /\ UNCHANGED <<dropped, rows, phys, points, mail, wish, orders, used, fresh>>

(* ... that template and the sync points of the traversal ... *)
Erase(p) ==
  /\ At(p, "erase")
  /\ LET s == th[p].stk IN
     /\ dropped' = IF s.status = "FAILED" THEN dropped ELSE dropped \cup ({s.prev} \ {None, Empty})
     /\ DropPoints(s.trav)
     /\ IF s.action = "DELETE" /\ s.status = "COMPLETE" THEN Goto(p, "remove") ELSE Leave(p)
  /\ UNCHANGED <<stack, rows, phys, mail, wish, orders, used, fresh>>

(* ... and for a DELETE the stack with every row left, of whatever         *)
(* traversal.  If the trust it was given cannot be deleted, the stack      *)
(* stays, FAILED, and _delete_credentials stores the whole copy once more. *)
Remove(p) ==
  /\ At(p, "remove")
  /\ Leave(p)
  /\ \/ stack' = [stack EXCEPT !.gone = TRUE] /\ rows' = <<>>
     \/ /\ stack' = IF stack.gone THEN stack ELSE [th[p].stk EXCEPT !.prev = None, !.status = "FAILED"]
        /\ UNCHANGED rows
  /\ UNCHANGED <<dropped, phys, points, mail, wish, orders, used, fresh>>

-----------------------------------------------------------------------------
(* Workers: check_resource. *)

(* load_resource, and what is decided from the copies alone: nothing if a  *)
(* row or template is missing; for a traversal no longer current, nothing  *)
(* unless the row is a replacement the graph does not know; nothing for an *)
(* update of a resource already replaced under another template.           *)
Take(w) ==
  /\ At(w, "idle")
  /\ \E m \in BagToSet(mail) :
       /\ mail' = mail (-) SetToBag({m})
       /\ IF m.id \notin DOMAIN rows \/ {stack.tmpl, rows[m.id].tmpl} \cap dropped # {}
          THEN UNCHANGED th
          ELSE LET r == rows[m.id]
                   stale    == stack.trav # m.trav
                   unknown  == Node(m.id, m.update) \notin stack.deps.nodes /\ r.replaces # None
                   replaced == m.update /\ r.replacedBy # None /\ r.tmpl # stack.tmpl
                   Begun(label) == th' = [th EXCEPT ![w] = [Idle EXCEPT !.pc = label, !.msg = m,
                                                              !.stk = stack, !.rsrc = r]]
               IN CASE stale /\ unknown      -> Begun("disown")
                    [] ~stale /\ ~replaced   -> Begun("lock")
                    [] OTHER                 -> UNCHANGED th
  /\ UNCHANGED <<stack, dropped, rows, phys, points, wish, orders, used, fresh>>

(* _retrigger_replaced marks the replacement for purge_db ... *)
Disown(w) ==
  /\ At(w, "disown")
  /\ IF Here(w)
     THEN /\ rows' = [rows EXCEPT ![Own(w)].action = "DELETE"]
          /\ th' = [th EXCEPT ![w].pc = "retrigger", ![w].out = th[w].rsrc.replaces]
     ELSE Leave(w) /\ UNCHANGED rows
  /\ UNCHANGED <<stack, dropped, phys, points, mail, wish, orders, used, fresh>>

(* ... and retrigger_check_resource notifies, as itself, the node of the   *)
(* latest traversal that waits for the resource: its update if the graph   *)
(* has one, its cleanup if not, whichever the message was for.             *)
RetriggerKey(id, g) == Node(id, Node(id, TRUE) \in g.nodes)

Retrigger(w) ==
  /\ At(w, "retrigger")
  /\ LET s == th[w].stk
         n == RetriggerKey(th[w].out, s.deps)
     IN IF Present(s.trav, n)
        THEN Notify(s.trav, n, n, None, Predecessors(s.deps, n))
        ELSE UNCHANGED <<points, mail>>
  /\ Leave(w)
  /\ UNCHANGED <<stack, dropped, rows, phys, wish, orders, used, fresh>>

(* What the check of a resource is about to do, by its copy of the row.    *)
Want(w) == Def[th[w].stk.tmpl][th[w].rsrc.name]
Have(w) == Def[th[w].rsrc.tmpl][th[w].rsrc.name]

Update(w)   == th[w].msg.update
Creates(w)  == Update(w) /\ th[w].rsrc.action = "INIT"
Replaces(w) == Update(w) /\ ~Creates(w) /\ (th[w].rsrc.status = "FAILED" \/ Deleted(th[w].rsrc))
Changes(w)  == Update(w) /\ ~Creates(w) /\ ~Replaces(w)
               /\ (Want(w).soft # Have(w).soft \/ Want(w).hard # Have(w).hard)
Keeps(w)    == Update(w) /\ ~Creates(w) /\ ~Replaces(w) /\ ~Changes(w)
Spared(w)   == ~Update(w) /\ th[w].rsrc.tmpl = th[w].stk.tmpl
(* Seeded fault: a creation that has begun counts as none. *)
DiscardsStarted(w) ==
  /\ ~Update(w) /\ ~Spared(w)
  /\ th[w].rsrc.action \in {"INIT", "CREATE"} /\ th[w].rsrc.status # "COMPLETE"

Discards(w) == ~Update(w) /\ ~Spared(w) /\ th[w].rsrc.action = "INIT"
Absent(w)   == ~Update(w) /\ ~Spared(w) /\ Deleted(th[w].rsrc)
Deletes(w)  == ~Update(w) /\ ~Spared(w) /\ ~Discards(w) /\ ~Absent(w)

(* update_tmpl_id_and_requires: in memory, written when the lock goes.     *)
Adopted(w, r) == [r EXCEPT !.tmpl = th[w].stk.tmpl, !.requires = th[w].msg.data]

InProgress(w) ==
  LET r == th[w].rsrc IN
  CASE Creates(w) -> [Adopted(w, r) EXCEPT !.action = "CREATE", !.status = "IN_PROGRESS"]
    [] Changes(w) -> [r EXCEPT !.action = "UPDATE", !.status = "IN_PROGRESS"]
    [] Deletes(w) -> [r EXCEPT !.action = "DELETE", !.status = "IN_PROGRESS"]

(* _acquire, and what is decided from the copies alone: nothing to do, a   *)
(* replacement, or work.  A row that is gone or locked ends the check.     *)
Lock(w) ==
  /\ At(w, "lock")
  /\ IF Here(w) /\ rows[Own(w)].lock = None
     THEN /\ rows' = [rows EXCEPT ![Own(w)].lock = w]
          /\ LET Turn(label, out) == th' = [th EXCEPT ![w].pc = label, ![w].out = out] IN
             CASE Keeps(w) -> th' = [th EXCEPT ![w].pc = "unlock", ![w].out = "done",
                                               ![w].rsrc = Adopted(w, @)]
               [] Spared(w)   -> Turn("unlock", "done")
               [] Replaces(w) -> Turn("unlock", "replace")
               [] Discards(w) -> Turn("discard", "done")
               [] Absent(w)   -> Turn("heir", "done")
               [] Creates(w)  -> Turn("begin", "create")
               [] Changes(w)  -> Turn("begin", "update")
               [] Deletes(w)  -> Turn("begin", "delete")
     ELSE Leave(w) /\ UNCHANGED rows
  /\ UNCHANGED <<stack, dropped, phys, points, mail, wish, orders, used, fresh>>

(* A row in state INIT that is not of this template has nothing behind it. *)
Discard(w) ==
  /\ At(w, "discard")
  /\ rows' = Restrict(rows, DOMAIN rows \ {Own(w)})
  /\ Goto(w, "unlock")
  /\ UNCHANGED <<stack, dropped, phys, points, mail, wish, orders, used, fresh>>

(* state_set(IN_PROGRESS) and the plug-in's first call; a creation writes  *)
(* the id of what it made in the row.  The write of a row that is gone     *)
(* raises.                                                                 *)
Begin(w) ==
  /\ At(w, "begin")
  /\ IF ~Here(w)
     THEN Leave(w) /\ UNCHANGED <<rows, phys, used>>
     ELSE LET r == IF Creates(w) THEN [InProgress(w) EXCEPT !.real = used + 1] ELSE InProgress(w) IN
          /\ Store(Own(w), r)
          /\ th' = [th EXCEPT ![w].pc = "work", ![w].rsrc = r]
          /\ IF Creates(w)
             THEN /\ used' = used + 1
                  /\ phys' = With(phys, used + 1, [soft |-> Want(w).soft, hard |-> Want(w).hard])
             ELSE UNCHANGED <<used, phys>>
  /\ UNCHANGED <<stack, dropped, points, mail, wish, orders, fresh>>

(* state_set at the end of the action, which raises on a row that is gone. *)
Ends(w, r, label, out) ==
  IF Here(w)
  THEN Store(Own(w), r) /\ th' = [th EXCEPT ![w].pc = label, ![w].out = out, ![w].rsrc = r]
  ELSE Leave(w) /\ UNCHANGED rows

Done(w) == [th[w].rsrc EXCEPT !.status = "COMPLETE"]

FinishCreate(w) ==
  /\ At(w, "work") /\ th[w].out = "create"
  /\ Ends(w, Done(w), "unlock", "done")
  /\ UNCHANGED <<stack, dropped, phys, points, mail, wish, orders, used, fresh>>

(* handle_update either changes the properties in place or, for a property *)
(* that cannot be, raises UpdateReplace.                                   *)
FinishUpdate(w) ==
  /\ At(w, "work") /\ th[w].out = "update"
  /\ IF Want(w).hard = Have(w).hard
     THEN /\ IF Here(w)
             THEN /\ Store(Own(w), Done(w))
                  /\ th' = [th EXCEPT ![w].pc = "unlock", ![w].out = "done", ![w].rsrc = Adopted(w, Done(w))]
             ELSE Leave(w) /\ UNCHANGED rows
          /\ phys' = [i \in DOMAIN phys |->
                        IF i = th[w].rsrc.real THEN [phys[i] EXCEPT !.soft = Want(w).soft] ELSE phys[i]]
     ELSE Ends(w, Done(w), "unlock", "replace") /\ UNCHANGED phys
  /\ UNCHANGED <<stack, dropped, points, mail, wish, orders, used, fresh>>

FinishDelete(w) ==
  /\ At(w, "work") /\ th[w].out = "delete"
  /\ Ends(w, Done(w), "heir", "done")
  /\ phys' = Restrict(phys, DOMAIN phys \ {th[w].rsrc.real})
  /\ UNCHANGED <<stack, dropped, points, mail, wish, orders, used, fresh>>

(* The plug-in fails, or the poll for THREAD_CANCEL raises in it.  An      *)
(* update that failed has the new template nevertheless.                   *)
Break(w) ==
  /\ At(w, "work")
  /\ LET r == [th[w].rsrc EXCEPT !.status = "FAILED"]
         r2 == IF th[w].out = "update" THEN Adopted(w, r) ELSE r
         Stopped(out) ==
           IF Here(w)
           THEN Store(Own(w), r) /\ th' = [th EXCEPT ![w].pc = "unlock", ![w].out = out, ![w].rsrc = r2]
           ELSE Leave(w) /\ UNCHANGED rows
     IN \/ <<th[w].out, th[w].rsrc.name, th[w].stk.tmpl>> \in Breaks /\ Stopped("failed")
        \/ th[w].cancelled /\ Stopped("cancelled")
  /\ UNCHANGED <<stack, dropped, phys, points, mail, wish, orders, used, fresh>>

(* _update_replacement_data: the replacement of a deleted resource, if it  *)
(* has this template and no lock, no longer replaces anything.             *)
Heir(w) ==
  /\ At(w, "heir")
  /\ Goto(w, "unlock")
  /\ LET h == th[w].rsrc.replacedBy IN
     IF h \in DOMAIN rows /\ rows[h].tmpl = th[w].stk.tmpl /\ rows[h].lock = None
     THEN rows' = [rows EXCEPT ![h].replaces = None]
     ELSE UNCHANGED rows
  /\ UNCHANGED <<stack, dropped, phys, points, mail, wish, orders, used, fresh>>

(* make_replacement makes the row of the replacement ... *)
Replace(w) ==
  /\ At(w, "replace")
  /\ LET r == th[w].rsrc IN
     rows' = With(rows, used + 1, NewRow(r.name, th[w].stk.tmpl, "INIT", Own(w), r.requires))
  /\ used' = used + 1
  /\ th' = [th EXCEPT ![w].pc = "link", ![w].out = used + 1]
  /\ UNCHANGED <<stack, dropped, phys, points, mail, wish, orders, fresh>>

(* ... and points the old row at it; then the message of the replacement.  *)
Link(w) ==
  /\ At(w, "link")
  /\ IF Here(w)
     THEN /\ rows' = [rows EXCEPT ![Own(w)].status = "COMPLETE", ![Own(w)].replacedBy = th[w].out]
          /\ Post({[th[w].msg EXCEPT !.id = th[w].out]})
     ELSE UNCHANGED <<rows, mail>>
  /\ Leave(w)
  /\ UNCHANGED <<stack, dropped, phys, points, wish, orders, used, fresh>>

(* _initiate_propagate_resource: a replacement stands for what it replaces *)
(* in a graph that does not know it.  A key not in the graph raises.       *)
GraphKey(w) ==
  LET own == Node(Own(w), th[w].msg.update) IN
  IF own \notin th[w].stk.deps.nodes /\ th[w].rsrc.replaces # None
  THEN Node(th[w].rsrc.replaces, th[w].msg.update) ELSE own

(* _release, and where the outcome leads. *)
Unlock(w) ==
  /\ At(w, "unlock")
  /\ rows' = IF Here(w) /\ rows[Own(w)].lock = w
             THEN [rows EXCEPT ![Own(w)].lock = None, ![Own(w)].tmpl = th[w].rsrc.tmpl,
                               ![Own(w)].requires = th[w].rsrc.requires]
             ELSE rows
  /\ LET g == th[w].stk.deps IN
     CASE th[w].out = "replace" -> Goto(w, "replace")
       [] th[w].out = "failed"  -> Goto(w, "fail")
       [] th[w].out = "done" /\ GraphKey(w) \in g.nodes ->
            th' = [th EXCEPT ![w].pc = "notify", ![w].todo = RequiredBy(g, GraphKey(w))]
       [] OTHER -> Leave(w)
  /\ UNCHANGED <<stack, dropped, phys, points, mail, wish, orders, used, fresh>>

NotifyNext(w) ==
  /\ At(w, "notify")
  /\ LET s == th[w].stk IN
     \E n \in th[w].todo :
       IF Present(s.trav, n)
       THEN /\ Notify(s.trav, n, GraphKey(w), IF n.update THEN Own(w) ELSE None, Predecessors(s.deps, n))
            /\ th' = [th EXCEPT ![w].todo = @ \ {n}]
       ELSE Goto(w, "reload") /\ UNCHANGED <<points, mail>>
  /\ UNCHANGED <<stack, dropped, rows, phys, wish, orders, used, fresh>>

(* check_stack_complete *)
CheckStack(w) ==
  /\ At(w, "notify") /\ th[w].todo = {}
  /\ LET s == th[w].stk
         from == GraphKey(w)
         input == Joined(s.trav, StackNode, from, None)
     IN CASE from \notin Roots(s.deps) -> Leave(w) /\ UNCHANGED points
          [] from \in Roots(s.deps) /\ ~Present(s.trav, StackNode) -> Goto(w, "reload") /\ UNCHANGED points
          [] OTHER -> /\ points' = [points EXCEPT ![<<s.trav, StackNode>>] = input]
                      /\ IF Ready(Roots(s.deps), input) THEN Goto(w, "complete") ELSE Leave(w)
  /\ UNCHANGED <<stack, dropped, rows, phys, mail, wish, orders, used, fresh>>

(* Seeded fault: the worker of a former traversal tells nobody. *)
ReloadSilent(w) ==
  /\ At(w, "reload")
  /\ Leave(w)
  /\ UNCHANGED <<stack, dropped, rows, phys, points, mail, wish, orders, used, fresh>>

(* A sync point is missing or the stack has moved on: another traversal,   *)
(* if there is one, may be waiting for this resource.                      *)
Reload(w) ==
  /\ At(w, "reload")
  /\ IF stack.trav = th[w].stk.trav
     THEN Leave(w)
     ELSE th' = [th EXCEPT ![w].pc = "retrigger", ![w].out = Own(w), ![w].stk = stack]
  /\ UNCHANGED <<stack, dropped, rows, phys, points, mail, wish, orders, used, fresh>>

-----------------------------------------------------------------------------
CallerStep(c) == Stop(c) \/ FailStopped(c) \/ Order(c) \/ Wait(c)

EngineStep(p) ==
  \/ Rollback(p) \/ Converge(p) \/ Drop(p) \/ Rows(p) \/ StoreGraph(p) \/ Launch(p)
  \/ Complete(p) \/ Purge(p) \/ End(p) \/ Erase(p) \/ Remove(p)

CheckStep(w) ==
  \/ Take(w) \/ Disown(w) \/ Retrigger(w) \/ Lock(w) \/ Discard(w) \/ Begin(w)
  \/ FinishCreate(w) \/ FinishUpdate(w) \/ FinishDelete(w) \/ Break(w) \/ Heir(w) \/ Unlock(w)
  \/ Replace(w) \/ Link(w) \/ NotifyNext(w) \/ CheckStack(w) \/ Reload(w) \/ Fail(w)

(* A thread at a label of Quick goes on before any other thread does, so   *)
(* that what it read is still so when it writes.                           *)
Free(p) == \A q \in Threads \ {p} : th[q].pc \notin Quick

Next ==
  \/ \E c \in Callers : Free(c) /\ (Request(c) \/ CallerStep(c))
  \/ \E p \in Threads : Free(p) /\ EngineStep(p)
  \/ \E w \in Workers : Free(w) /\ (CheckStep(w) \/ Cancel(w))

Spec == Init /\ [][Next]_vars

(* Requests come or not; a thread that has something to do does it, and a  *)
(* call for cancellation arrives.                                          *)
FairSpec ==
  /\ Spec
  /\ \A c \in Callers : WF_vars(Free(c) /\ CallerStep(c))
  /\ \A p \in Threads : WF_vars(Free(p) /\ EngineStep(p))
  /\ \A w \in Workers : WF_vars(Free(w) /\ CheckStep(w)) /\ WF_vars(Free(w) /\ Cancel(w))

-----------------------------------------------------------------------------
Actions  == {"INIT", "CREATE", "UPDATE", "DELETE", "ROLLBACK"}
Statuses == {"IN_PROGRESS", "COMPLETE", "FAILED"}
Names    == UNION {DOMAIN Def[t] : t \in DOMAIN Def}
Ids      == 1 .. used
Maybe(S) == S \cup {None}

RowOK(r) ==
  /\ r.name \in Names /\ r.tmpl \in DOMAIN Def /\ r.action \in Actions /\ r.status \in Statuses
  /\ r.requires \subseteq Ids /\ {r.replaces, r.replacedBy, r.real} \subseteq Maybe(Ids)
  /\ r.lock \in Maybe(Workers)

NodeOK(n) == n.id \in Ids \cup {0} /\ n.update \in BOOLEAN

StackOK(s) ==
  /\ s.trav \in 0 .. fresh /\ s.action \in Actions /\ s.status \in Statuses
  /\ s.tmpl \in DOMAIN Def /\ s.prev \in Maybe(DOMAIN Def)
  /\ \A n \in s.deps.nodes : NodeOK(n)
  /\ s.deps.edges \subseteq s.deps.nodes \X s.deps.nodes

(* Type invariant.  The graph of a stack has no edge to a node it lacks,   *)
(* sync points hold rows under nodes, and messages name rows: StoreGraph,  *)
(* Notify and Link make them from private copies.                          *)
TypeOK ==
  /\ StackOK(stack) /\ dropped \subseteq DOMAIN Def
  /\ DOMAIN rows \subseteq Ids /\ \A i \in DOMAIN rows : RowOK(rows[i])
  /\ DOMAIN phys \subseteq Ids
  /\ \A k \in DOMAIN points : /\ k[1] \in 1 .. fresh /\ NodeOK(k[2])
                              /\ \A n \in DOMAIN points[k] : NodeOK(n) /\ points[k][n] \in Maybe(Ids)
  /\ \A m \in BagToSet(mail) : m.id \in Ids /\ m.update \in BOOLEAN /\ m.trav \in 1 .. fresh /\ m.data \subseteq Ids
  /\ \A p \in Threads : /\ th[p].stk # None => StackOK(th[p].stk)
                        /\ th[p].rsrc # None => RowOK(th[p].rsrc)
                        /\ \A n \in th[p].todo : NodeOK(n)
  /\ orders \subseteq Workers

-----------------------------------------------------------------------------
Settings(d) == [soft |-> d.soft, hard |-> d.hard]

InService(i, n, t) ==
  /\ rows[i].name = n /\ rows[i].tmpl = t
  /\ rows[i].action \in {"CREATE", "UPDATE"} /\ rows[i].status = "COMPLETE"
  /\ rows[i].real \in DOMAIN phys
  /\ phys[rows[i].real] = Settings(Def[t][n])

(* While its traversal is current, a worker creates or changes a resource  *)
(* only when each resource it needs is in service as the template of the   *)
(* stack has it, whatever a former traversal left half done; provided that *)
(* no worker loads the stack between the two stores of converge_stack, of  *)
(* the traversal id and of the graph (labels drop, rows and graph shut),   *)
(* and that one request comes after the first: of two, an update can write *)
(* back, from a copy, the row of what the other has deleted.               *)
RequirementsFirst ==
  [][\A w \in Workers :
       (At(w, "begin") /\ th'[w].pc = "work" /\ Update(w) /\ Current(w)) =>
         \A m \in Want(w).needs : \E i \in DOMAIN rows : InService(i, m, stack.tmpl)]_vars

(* While its traversal is current, a worker deletes a resource only when   *)
(* nothing exists any more that its row's dependants stand for: clean-up   *)
(* goes from the consumers to what they consume.                           *)
ConsumersFirst ==
  [][\A w \in Workers :
       (At(w, "begin") /\ th'[w].pc = "work" /\ ~Update(w) /\ Current(w)) =>
         \A i \in DOMAIN rows : Own(w) \in rows[i].requires => rows[i].real \notin DOMAIN phys]_vars

(* What mark_complete says of a COMPLETE stack: it is in service, each     *)
(* resource of its template with the settings of the template, though it   *)
(* may still be cleaned up and other requests be under way.                *)
CompleteMeansInService ==
  stack.status = "COMPLETE" =>
    \A n \in DOMAIN Def[stack.tmpl] : \E i \in DOMAIN rows : InService(i, n, stack.tmpl)

(* Every physical resource is known to some row: rows are dropped by       *)
(* clean-up, purge_db and the end of a DELETE, none with something behind  *)
(* it, and no row forgets what it stands for.                              *)
NothingLeaks ==
  \A x \in DOMAIN phys : \E i \in DOMAIN rows : rows[i].real = x

(* A stack that is worked on is some time COMPLETE, FAILED or gone,        *)
(* although messages that meet a lock or a former traversal are dropped:   *)
(* whoever holds the lock retriggers.  For one request after the first: a  *)
(* delete overtaken by an update cancels the workers of that update.       *)
Finishes == stack.status = "IN_PROGRESS" ~> stack.status # "IN_PROGRESS"
=============================================================================
