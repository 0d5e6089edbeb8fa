------------------------ MODULE DependencyTaskGroupProof ------------------------
(***************************************************************************)
(* Proofs about DependencyTaskGroup: for any tasks and any graph among     *)
(* them, a task starts after what it requires and never after an error,    *)
(* and the group tells the truth about how its tasks ended.                *)
(***************************************************************************)
EXTENDS DependencyTaskGroup, TLAPS, SequenceTheorems

USE PlansAssumption, PeriodAssumption, ThrownAssumption

Returned(k) == runner[k].co = "returned"

(* A task that has started, or never will. *)
Past(k) == Started(k) \/ runner[k].done

(* A task that has failed, was cancelled, or is to be. *)
Doomed(k) ==
  \/ runner[k].co \in {"raised", "closed"}
  \/ runner[k].timer # "none"
  \/ runner[k].done /\ ~Returned(k)

(* What a task waits for has returned or stands in the graph at both ends. *)
Edge(k, d) == d \in DOMAIN graph /\ d \in graph[k].require /\ k \in graph[d].satisfy
Waiting == \A k \in DOMAIN graph : ~Past(k) => \A d \in Requires(k) : Returned(d) \/ Edge(k, d)
Outside == \A k \in Tasks \ DOMAIN graph : Past(k)
DoomSpreads == \A k \in Tasks : Doomed(k) => \A j \in RequiredBy(k) : Past(j)
ErrorsHalt == raised # <<>> /\ ~aggregate => \A k \in Tasks : Past(k)

Ordered == InOrder /\ Waiting /\ Outside /\ DoomSpreads /\ ErrorsHalt

(* How tasks have ended, and what for. *)
Coroutines == \A k \in Tasks : (Returned(k) => runner[k].done) /\ (runner[k].done => runner[k].co # "live")
AllEnded == Over => \A k \in Tasks : runner[k].done
Accounted == Range(raised) \ {Thrown} = {k \in Tasks : runner[k].co = "raised"}
Graces == \A k \in Tasks : runner[k].timer # "none" => raised # <<>> /\ ~aggregate
Edges == \A d \in DOMAIN graph : graph[d].satisfy \subseteq RequiredBy(d)
Blamed(k) == \E d \in Range(raised) : k \in Below(d)
Reasons == pc # "aborted" => \A k \in Tasks : runner[k].done /\ ~Returned(k) =>
  raised # <<>> /\ (aggregate /\ runner[k].co # "raised" => Blamed(k))

Truthful == Coroutines /\ AllEnded /\ Accounted /\ Graces /\ Edges /\ Reasons

(* The inductive invariant. *)
IInv == TypeOK /\ Ordered /\ Truthful

-----------------------------------------------------------------------------
(* Sequences, the graph and the runner. *)

LEMMA AppendRange == ASSUME NEW S, NEW s \in Seq(S), NEW x \in S
  PROVE /\ Range(Append(s, x)) = Range(s) \cup {x}
        /\ Append(s, x) # <<>> /\ Append(s, x) \in Seq(S)
<1>1. Range(Append(s, x)) \subseteq Range(s) \cup {x}
  BY DEF Range
<1>2. x \in Range(Append(s, x))
  <2>1. Append(s, x)[Len(s) + 1] = x /\ Len(s) + 1 \in DOMAIN Append(s, x)
    OBVIOUS
  <2> QED BY <2>1 DEF Range
<1>3. ASSUME NEW y \in Range(s) PROVE y \in Range(Append(s, x))
  <2>1. PICK i \in DOMAIN s : s[i] = y
    BY DEF Range
  <2>2. i \in DOMAIN Append(s, x) /\ Append(s, x)[i] = y
    BY <2>1
  <2> QED BY <2>2 DEF Range
<1> QED BY <1>1, <1>2, <1>3

LEMMA RunnerFields == ASSUME NEW r \in Runner
  PROVE /\ r.co \in {"none", "live", "returned", "raised", "closed"}
        /\ r.done \in BOOLEAN /\ r.timer \in {"none", "set", "over"} /\ r.period \in 1..MaxPeriod
BY DEF Runner

(* What lies downstream of a task is closed under the edges of the graph. *)
LEMMA DownstreamClosed ==
  ASSUME NEW g, NEW k \in Tasks, \A d \in DOMAIN g : g[d].satisfy \subseteq Tasks
  PROVE  /\ k \in Downstream(g, k) /\ Downstream(g, k) \subseteq Tasks
         /\ Closed(g, Downstream(g, k))
BY DEF Downstream, Closed

(* A graph that has lost edges reaches no more. *)
LEMMA DownstreamShrinks ==
  ASSUME TypeOK, Edges, NEW k \in Tasks PROVE Downstream(graph, k) \subseteq Below(k)
<1> DEFINE full == [d \in Tasks |-> [satisfy |-> RequiredBy(d)]]
<1>1. ASSUME NEW S \in SUBSET Tasks, Closed(full, S) PROVE Closed(graph, S)
  <2> SUFFICES ASSUME NEW d \in S \cap DOMAIN graph PROVE graph[d].satisfy \subseteq S
    BY DEF Closed
  <2>1. full[d].satisfy \subseteq S
    BY <1>1 DEF Closed
  <2> QED BY <2>1 DEF Edges
<1> QED BY <1>1 DEF Below, Downstream

LEMMA InitIInv == Init => IInv
<1> SUFFICES ASSUME Init PROVE IInv
  OBVIOUS
<1>1. \A k \in Tasks : runner[k] = NewRunner
  BY DEF Init
<1>2. TypeOK
  BY DEF Init, TypeOK, Node, Runner, NewRunner, Requires, RequiredBy
<1>3. Ordered
  <2>1. InOrder /\ Outside
    BY <1>1 DEF Init, InOrder, Started, NewRunner, Outside
  <2>2. Waiting
    BY DEF Init, Waiting, Edge, Requires, RequiredBy
  <2>3. DoomSpreads
    BY <1>1 DEF NewRunner, DoomSpreads, Doomed
  <2> QED BY <2>1, <2>2, <2>3 DEF Init, Ordered, ErrorsHalt
<1>4. Truthful
  <2>1. Coroutines /\ Graces /\ Reasons
    BY <1>1 DEF NewRunner, Coroutines, Returned, Graces, Reasons
  <2>2. Accounted
    BY <1>1 DEF NewRunner, Accounted, Init, Range
  <2> QED BY <2>1, <2>2 DEF Init, Truthful, AllEnded, Over, Edges
<1> QED BY <1>2, <1>3, <1>4 DEF IInv

-----------------------------------------------------------------------------
(* Errors and cancellation. *)

(* When all tasks are past, nothing waits any more. *)
LEMMA HaltOrdered ==
  ASSUME IInv, UNCHANGED plan, \A k \in Tasks : Past(k)',
         \A k \in Tasks : Returned(k) => Returned(k)',
         \A k \in Tasks : Started(k)' => Started(k) \/ \A d \in Requires(k) : Returned(d),
         DOMAIN graph' \subseteq Tasks
  PROVE  Ordered'
<1>1. InOrder'
  BY DEF IInv, Ordered, InOrder, Requires, Returned
<1>2. Waiting' /\ Outside' /\ ErrorsHalt'
  BY DEF Waiting, Outside, ErrorsHalt
<1>3. DoomSpreads'
  BY DEF DoomSpreads, RequiredBy
<1> QED BY <1>1, <1>2, <1>3 DEF Ordered

(* What cancel() leaves alone, and what it sees to. *)
LEMMA CancelAllEffect ==
  ASSUME NEW rs \in [Tasks -> Runner], NEW graced \in SUBSET Tasks, NEW new, new = CancelAll(rs, graced)
  PROVE  /\ new \in [Tasks -> Runner]
         /\ \A k \in Tasks :
              /\ rs[k].done => new[k] = rs[k]
              /\ rs[k].co # "live" => new[k].co = rs[k].co
              /\ rs[k].co = "live" => new[k].co \in {"live", "closed"}
              /\ rs[k].co = "none" \/ k \notin graced => new[k].done
              /\ ~rs[k].done => (new[k].done => new[k].co # "live")
              /\ new[k].timer # rs[k].timer => k \in graced
<1>1. \A k \in Tasks : new[k] = Cancel(rs[k], k \in graced)
  BY DEF CancelAll
<1>2. ASSUME NEW k \in Tasks
      PROVE  LET c == Cancel(rs[k], k \in graced) IN
             /\ c \in Runner
             /\ rs[k].done => c = rs[k]
             /\ rs[k].co # "live" => c.co = rs[k].co
             /\ rs[k].co = "live" => c.co \in {"live", "closed"}
             /\ rs[k].co = "none" \/ ~(k \in graced) => c.done
             /\ ~rs[k].done => (c.done => c.co # "live")
             /\ c.timer # rs[k].timer => (k \in graced)
  <2>1. rs[k] \in Runner
    OBVIOUS
  <2> QED BY <2>1 DEF Cancel, Runner
<1>3. new = [k \in Tasks |-> Cancel(rs[k], k \in graced)]
  BY DEF CancelAll
<1> QED BY <1>1, <1>2, <1>3

(* What the runners are when task x has raised, or, x being no task, a driver has thrown. *)
RaisedBy(x, rs) ==
  /\ rs \in [Tasks -> Runner]
  /\ x \in Tasks => rs[x].co = "raised" /\ (\A d \in Requires(x) : Returned(d))
                    /\ runner[x].co \in {"none", "live"} /\ rs[x].timer = runner[x].timer
  /\ \A k \in Tasks \ {x} : rs[k] = runner[k]

LEMMA FailHalts ==
  ASSUME IInv, NEW x \in Tasks \cup {Thrown}, NEW rs, RaisedBy(x, rs), ~aggregate, Fail(x, rs)
  PROVE  IInv'
<1>1. PICK graced \in SUBSET Tasks : runner' = CancelAll(rs, graced)
  BY DEF Fail
<1>2. /\ raised' = Append(raised, x) /\ graph' = graph /\ plan' = plan /\ aggregate' = aggregate
      /\ Again(runner')
  BY DEF Fail, fixed
<1>3. rs \in [Tasks -> Runner] /\ \A k \in Tasks \ {x} : rs[k] = runner[k]
  BY DEF RaisedBy
<1> DEFINE Old(k, r) ==
      /\ r.done => runner'[k] = r
      /\ r.co # "live" => runner'[k].co = r.co
      /\ r.co = "live" => runner'[k].co \in {"live", "closed"}
      /\ r.co = "none" => runner'[k].done
      /\ ~r.done => (runner'[k].done => runner'[k].co # "live")
<1>4. runner' \in [Tasks -> Runner] /\ \A k \in Tasks : Old(k, rs[k])
  BY <1>1, <1>3, CancelAllEffect
<1>5. \A k \in Tasks \ {x} : Old(k, runner[k])
  BY <1>3, <1>4
<1>6. x \in Tasks => /\ rs[x].co = "raised" /\ Old(x, rs[x]) /\ runner[x].co \in {"none", "live"}
                      /\ \A d \in Requires(x) : Returned(d)
  BY <1>4 DEF RaisedBy
<1> HIDE DEF Old
<1>7. TypeOK'
  <2>1. raised' \in Seq(Tasks \cup {Thrown})
    BY <1>2, AppendRange DEF IInv, TypeOK
  <2> QED BY <1>2, <1>4, <2>1 DEF IInv, TypeOK, Again
<1>8. raised' # <<>> /\ Range(raised') = Range(raised) \cup {x}
  BY <1>2, AppendRange DEF IInv, TypeOK
<1>9. \A k \in Tasks : Past(k)'
  BY <1>4, <1>5, <1>6 DEF Old, Past, Started, IInv, TypeOK, Runner
<1>10. \A k \in Tasks : Returned(k) => Returned(k)'
  BY <1>5, <1>6 DEF Old, Returned
<1>11. \A k \in Tasks : Started(k)' => Started(k) \/ \A d \in Requires(k) : Returned(d)
  BY <1>5, <1>6 DEF Old, Started
<1>12. Ordered'
  BY <1>2, <1>7, <1>9, <1>10, <1>11, HaltOrdered DEF TypeOK
<1>13. Truthful'
  <2>1. ASSUME NEW k \in Tasks
        PROVE  (Returned(k)' => runner'[k].done) /\ (runner'[k].done => runner'[k].co # "live")
    <3>1. CASE k = x
      BY <3>1, <1>6 DEF Old, Returned
    <3>2. CASE k # x
      <4>1. Old(k, runner[k]) /\ runner[k] \in Runner
        BY <3>2, <1>5 DEF IInv, TypeOK
      <4>2. (runner[k].co = "returned" => runner[k].done) /\ (runner[k].done => runner[k].co # "live")
        BY DEF IInv, Truthful, Coroutines, Returned
      <4> QED BY <4>1, <4>2 DEF Old, Returned
    <3> QED BY <3>1, <3>2
  <2>2. Coroutines'
    BY <2>1 DEF Coroutines
  <2>3. AllEnded'
    BY <1>2 DEF Again, AllEnded, Over
  <2>4. Accounted'
    <3>1. \A k \in Tasks : runner'[k].co = "raised" <=> k = x \/ runner[k].co = "raised"
      BY <1>5, <1>6 DEF Old
    <3> QED BY <3>1, <1>8 DEF IInv, Truthful, Accounted
  <2>5. Graces' /\ Reasons'
    BY <1>2, <1>8 DEF Graces, Reasons
  <2>6. Edges'
    BY <1>2 DEF IInv, Truthful, Edges, RequiredBy
  <2> QED BY <2>2, <2>3, <2>4, <2>5, <2>6 DEF Truthful
<1> QED BY <1>7, <1>12, <1>13 DEF IInv

LEMMA AbortInv == ASSUME IInv, Abort PROVE IInv'
<1>1. /\ pc' = "aborted" /\ left' = {} /\ graph' = graph /\ raised' = raised
      /\ plan' = plan /\ aggregate' = aggregate /\ runner' = CancelAll(runner, {})
  BY DEF Abort, fixed
<1>2. /\ runner' \in [Tasks -> Runner]
      /\ \A k \in Tasks :
           /\ runner[k].done => runner'[k] = runner[k]
           /\ runner[k].co # "live" => runner'[k].co = runner[k].co
           /\ runner[k].co = "live" => runner'[k].co \in {"live", "closed"}
           /\ runner'[k].done
           /\ ~runner[k].done => runner'[k].co # "live"
           /\ runner'[k].timer = runner[k].timer
  <2>1. runner \in [Tasks -> Runner] /\ {} \in SUBSET Tasks
    BY DEF IInv, TypeOK
  <2> QED BY <1>1, <2>1, CancelAllEffect
<1>3. TypeOK'
  BY <1>1, <1>2 DEF IInv, TypeOK
<1>4. Ordered'
  <2>1. \A k \in Tasks : Past(k)'
    BY <1>2 DEF Past
  <2>2. \A k \in Tasks : (Returned(k) => Returned(k)') /\ (Started(k)' => Started(k))
    BY <1>2 DEF Returned, Started
  <2> QED BY <1>1, <1>3, <2>1, <2>2, HaltOrdered DEF TypeOK
<1>5. Truthful'
  <2>1. Coroutines' /\ AllEnded'
    BY <1>2 DEF Coroutines, AllEnded, IInv, Truthful
  <2>2. Accounted'
    <3>1. \A k \in Tasks : runner'[k].co = "raised" <=> runner[k].co = "raised"
      BY <1>2
    <3> QED BY <3>1, <1>1 DEF IInv, Truthful, Accounted
  <2>3. Graces' /\ Edges' /\ Reasons'
    BY <1>1, <1>2 DEF IInv, Truthful, Graces, Edges, RequiredBy, Reasons
  <2> QED BY <2>1, <2>2, <2>3 DEF Truthful
<1> QED BY <1>3, <1>4, <1>5 DEF IInv

(* In a group that aggregates, a failure takes along what is downstream of it. *)
LEMMA FailPrunes ==
  ASSUME IInv, NEW x \in Tasks, NEW rs, RaisedBy(x, rs), aggregate, pc # "aborted", Fail(x, rs)
  PROVE  IInv'
<1> DEFINE D == Downstream(graph, x)
<1>1. /\ runner' = [d \in Tasks |-> IF d \in D THEN Cancel(rs[d], FALSE) ELSE rs[d]]
      /\ graph' = Pruned(graph, x)
      /\ raised' = Append(raised, x) /\ plan' = plan /\ aggregate' = aggregate
      /\ Again(runner')
  BY DEF Fail, fixed
<1>2. /\ x \in D /\ D \subseteq Tasks
      /\ \A d \in D \cap DOMAIN graph : graph[d].satisfy \subseteq D
  BY DownstreamClosed DEF IInv, TypeOK, Node, Closed
<1>3. D \subseteq Below(x)
  BY DownstreamShrinks DEF IInv, Truthful
<1>4. /\ DOMAIN graph' = (DOMAIN graph \cup D) \ {x}
      /\ \A d \in DOMAIN graph' :
           /\ d \in D => graph'[d] = NewNode
           /\ d \notin D => /\ d \in DOMAIN graph /\ graph'[d].satisfy = graph[d].satisfy
                          /\ graph'[d].require = graph[d].require \ D
                          /\ graph'[d] \in Node
  BY <1>1 DEF Pruned, IInv, TypeOK, Node
<1> HIDE DEF D
<1>5. /\ rs \in [Tasks -> Runner] /\ \A k \in Tasks \ {x} : rs[k] = runner[k]
      /\ rs[x].co = "raised" /\ runner[x].co \in {"none", "live"} /\ rs[x].timer = runner[x].timer
      /\ \A d \in Requires(x) : Returned(d)
  BY DEF RaisedBy
<1>6. \A k \in Tasks : runner[k] \in Runner
  BY DEF IInv, TypeOK
<1>7. ASSUME NEW k \in D
      PROVE  /\ runner'[k] \in Runner /\ runner'[k].done /\ runner'[k].timer = rs[k].timer
             /\ rs[k].done => runner'[k] = rs[k]
             /\ rs[k].co # "live" => runner'[k].co = rs[k].co
             /\ rs[k].co = "live" => runner'[k].co \in {"live", "closed"}
             /\ ~rs[k].done => runner'[k].co # "live"
  <2>1. runner'[k] = Cancel(rs[k], FALSE) /\ rs[k] \in Runner
    BY <1>1, <1>2, <1>5, <1>7
  <2> QED BY <2>1 DEF Cancel, Runner
<1>8. \A k \in Tasks \ D : runner'[k] = runner[k]
  BY <1>1, <1>2, <1>5
<1>9. \A k \in Tasks : runner'[k].timer = runner[k].timer
  BY <1>2, <1>5, <1>7, <1>8
<1>10. raised' # <<>> /\ Range(raised') = Range(raised) \cup {x} /\ raised' \in Seq(Tasks \cup {Thrown})
  BY <1>1, AppendRange DEF IInv, TypeOK
<1>11. TypeOK'
  <2>1. runner' \in [Tasks -> Runner]
    BY <1>1, <1>6, <1>7, <1>8
  <2>2. \A d \in DOMAIN graph' : d \in Tasks /\ graph'[d] \in Node
    BY <1>2, <1>4 DEF IInv, TypeOK, NewNode, Node
  <2> QED BY <1>1, <1>10, <2>1, <2>2 DEF IInv, TypeOK, Again
<1>12. \A k \in Tasks : Past(k) => Past(k)'
  BY <1>7, <1>8 DEF Past, Started
<1>13. \A k \in Tasks : Returned(k) => Returned(k)' /\ runner'[k] = runner[k]
  BY <1>2, <1>5, <1>7, <1>8 DEF Returned, IInv, Truthful, Coroutines
<1>14. Ordered'
  <2>1. InOrder'
    <3>1. \A k \in Tasks : Started(k)' => k = x \/ Started(k)
      BY <1>2, <1>5, <1>7, <1>8 DEF Started
    <3> QED BY <1>1, <1>5, <1>13, <3>1 DEF IInv, Ordered, InOrder, Requires, Returned
  <2>2. ASSUME NEW k \in Tasks, k \notin D, ~Past(k), NEW d \in Requires(k), k \in DOMAIN graph
        PROVE  Returned(d) \/ (d \notin D /\ Edge(k, d))
    BY <1>2, <2>2 DEF IInv, Ordered, Waiting, Edge
  <2>3. Waiting'
    <3> SUFFICES ASSUME NEW k \in DOMAIN graph', ~Past(k)', NEW d \in Requires(k)
                 PROVE  Returned(d)' \/ Edge(k, d)'
      BY <1>1 DEF Waiting, Requires
    <3>1. k \in Tasks /\ k \notin D /\ k \in DOMAIN graph /\ ~Past(k) /\ d \in Tasks
      BY <1>2, <1>4, <1>7, <1>12 DEF IInv, TypeOK, Past, Requires
    <3>2. CASE Returned(d)
      BY <1>13, <3>1, <3>2
    <3>3. CASE d \notin D /\ Edge(k, d)
      <4>1. d \in DOMAIN graph'
        BY <1>2, <1>4, <3>3 DEF Edge
      <4> QED BY <1>4, <3>1, <3>3, <4>1 DEF Edge
    <3> QED BY <2>2, <3>1, <3>2, <3>3
  <2>4. Outside'
    <3> SUFFICES ASSUME NEW k \in Tasks \ DOMAIN graph' PROVE Past(k)'
      BY DEF Outside
    <3>1. CASE k = x
      BY <1>2, <1>7, <3>1 DEF Past
    <3>2. CASE k # x
      BY <1>4, <1>12, <3>2 DEF IInv, Ordered, Outside
    <3> QED BY <3>1, <3>2
  <2>5. DoomSpreads'
    <3> SUFFICES ASSUME NEW m \in Tasks, Doomed(m)', NEW j \in RequiredBy(m) PROVE Past(j)'
      BY <1>1 DEF DoomSpreads, RequiredBy
    <3>1. j \in Tasks /\ m \in Requires(j)
      BY DEF RequiredBy, Requires
    <3>2. CASE Past(j)
      BY <1>12, <3>1, <3>2
    <3>3. CASE ~Past(j) /\ m \notin D
      <4>1. Doomed(m)
        BY <1>8, <3>3 DEF Doomed, Returned
      <4> QED BY <3>3, <4>1 DEF IInv, Ordered, DoomSpreads
    <3>4. CASE ~Past(j) /\ m \in D
      <4>1. j \in DOMAIN graph
        BY <3>1, <3>4 DEF IInv, Ordered, Outside
      <4>2. CASE Returned(m)
        <5>1. runner'[m].co = "returned" /\ runner'[m].timer = "none"
          BY <1>13, <4>2 DEF IInv, Truthful, Graces, Returned
        <5> QED BY <5>1 DEF Doomed, Returned
      <4>3. CASE ~Returned(m)
        <5>1. j \in D
          BY <1>2, <3>1, <3>4, <4>1, <4>3 DEF IInv, Ordered, Waiting, Edge
        <5> QED BY <1>7, <5>1 DEF Past
      <4> QED BY <4>2, <4>3
    <3> QED BY <3>2, <3>3, <3>4
  <2> QED BY <1>1, <2>1, <2>3, <2>4, <2>5 DEF Ordered, ErrorsHalt
<1>15. Truthful'
  <2>1. Coroutines'
    <3> SUFFICES ASSUME NEW k \in Tasks
                 PROVE  (Returned(k)' => runner'[k].done) /\ (runner'[k].done => runner'[k].co # "live")
      BY DEF Coroutines
    <3>1. (Returned(k) => runner[k].done) /\ (runner[k].done => runner[k].co # "live")
      BY DEF IInv, Truthful, Coroutines
    <3>2. CASE k \notin D
      BY <1>8, <3>1, <3>2 DEF Returned
    <3>3. CASE k \in D
      BY <1>5, <1>7, <3>1, <3>3 DEF Returned
    <3> QED BY <3>2, <3>3
  <2>2. AllEnded'
    BY <1>1 DEF Again, AllEnded, Over
  <2>3. Accounted'
    <3>1. \A k \in Tasks : runner'[k].co = "raised" <=> k = x \/ runner[k].co = "raised"
      BY <1>2, <1>5, <1>7, <1>8
    <3> QED BY <3>1, <1>10 DEF IInv, Truthful, Accounted
  <2>4. Graces'
    BY <1>1, <1>9 DEF IInv, Truthful, Graces
  <2>5. Edges'
    BY <1>1, <1>4 DEF IInv, Truthful, Edges, RequiredBy, NewNode
  <2>6. Reasons'
    <3> SUFFICES ASSUME NEW k \in Tasks, runner'[k].done, ~Returned(k)', runner'[k].co # "raised"
                 PROVE  Blamed(k)'
      BY <1>10 DEF Reasons
    <3>1. \A d \in Tasks : Below(d)' = Below(d)
      BY <1>1 DEF Below, RequiredBy, Downstream, Closed
    <3>2. CASE k \in D
      <4>1. x \in Range(raised') /\ k \in Below(x)'
        BY <1>3, <1>10, <3>1, <3>2
      <4> QED BY <4>1 DEF Blamed
    <3>3. CASE k \notin D
      <4>1. PICK d \in Range(raised) : k \in Below(d)
        BY <1>8, <3>3 DEF IInv, Truthful, Reasons, Returned, Blamed
      <4>2. Below(d)' = Below(d)
        BY <1>1 DEF Below, RequiredBy, Downstream, Closed
      <4> QED BY <1>10, <4>1, <4>2 DEF Blamed
    <3> QED BY <3>2, <3>3
  <2> QED BY <2>1, <2>2, <2>3, <2>4, <2>5, <2>6 DEF Truthful
<1> QED BY <1>11, <1>14, <1>15 DEF IInv

LEMMA FailInv ==
  ASSUME IInv, pc # "aborted", NEW x \in Tasks, NEW rs, RaisedBy(x, rs), Fail(x, rs)
  PROVE  IInv'
BY FailHalts, FailPrunes DEF IInv, TypeOK

-----------------------------------------------------------------------------
(* The steps of a pass. *)

(* Only where the group stands has changed. *)
LEMMA PassInv ==
  ASSUME IInv, UNCHANGED <<fixed, graph, runner, raised>>, left' \subseteq Tasks,
         \/ Over /\ pc' = pc
         \/ ~Over /\ pc' \in {"starting", "yielded", "stepping"}
         \/ ~Over /\ pc' = "ended" /\ \A k \in Tasks : runner[k].done
  PROVE  IInv'
<1>1. TypeOK'
  BY DEF fixed, IInv, TypeOK
<1>2. Ordered'
  <2>1. InOrder' /\ Waiting' /\ Outside' /\ DoomSpreads'
    BY DEF fixed, IInv, Ordered, InOrder, Waiting, Outside, DoomSpreads, Edge, Past, Started, Doomed,
           Returned, Requires, RequiredBy
  <2> QED BY <2>1 DEF fixed, IInv, Ordered, ErrorsHalt, Past, Started
<1>3. Truthful'
  <2>1. Coroutines' /\ Accounted' /\ Graces' /\ Edges'
    BY DEF fixed, IInv, Truthful, Coroutines, Returned, Accounted, Graces, Edges, RequiredBy
  <2>2. AllEnded'
    BY DEF IInv, Truthful, AllEnded, Over
  <2>3. \A d : Below(d)' = Below(d)
    BY DEF fixed, Below, RequiredBy, Downstream, Closed
  <2>4. Reasons'
    BY <2>3 DEF fixed, Over, IInv, Truthful, Reasons, Returned, Blamed
  <2> QED BY <2>1, <2>2, <2>4 DEF Truthful
<1> QED BY <1>1, <1>2, <1>3 DEF IInv

(* A task that is not over yields, or waits for its period or for its grace to end. *)
LEMMA StaysInv ==
  ASSUME IInv, ~Over, NEW k \in Tasks, NEW r \in Runner, UNCHANGED <<fixed, pc, graph, raised>>,
         left' \subseteq Tasks, runner' = [runner EXCEPT ![k] = r],
         ~runner[k].done, ~r.done, r.co # "none",
         r.co = runner[k].co \/ (r.co = "live" /\ runner[k].co \in {"none", "live"}),
         r.timer = runner[k].timer \/ (r.timer # "none" /\ runner[k].timer # "none"),
         \A d \in Requires(k) : Returned(d)
  PROVE  IInv'
<1>1. /\ runner'[k] = r /\ \A m \in Tasks \ {k} : runner'[m] = runner[m]
      /\ runner' \in [Tasks -> Runner]
      /\ plan' = plan /\ aggregate' = aggregate /\ graph' = graph /\ raised' = raised /\ pc' = pc
  BY DEF IInv, TypeOK, fixed
<1>2. TypeOK'
  BY <1>1 DEF IInv, TypeOK
<1>3. \A m \in Tasks : Returned(m)' <=> Returned(m)
  BY <1>1 DEF Returned, IInv, Truthful, Coroutines
<1>4. \A m \in Tasks : Past(m) => Past(m)'
  BY <1>1 DEF Past, Started
<1>5. Ordered'
  <2>1. InOrder'
    BY <1>1, <1>3 DEF IInv, Ordered, InOrder, Started, Requires, Returned
  <2>2. Waiting'
    <3> SUFFICES ASSUME NEW j \in DOMAIN graph, ~Past(j)', NEW d \in Requires(j)
                 PROVE  Returned(d)' \/ Edge(j, d)'
      BY <1>1 DEF Waiting, Requires
    <3>1. j \in Tasks /\ d \in Tasks
      BY DEF IInv, TypeOK, Requires
    <3> QED BY <1>1, <1>3, <1>4, <3>1 DEF IInv, Ordered, Waiting, Edge
  <2>3. Outside'
    BY <1>1, <1>4 DEF IInv, Ordered, Outside
  <2>4. DoomSpreads'
    <3>1. \A m \in Tasks : Doomed(m)' => Doomed(m)
      BY <1>1 DEF Doomed, Returned
    <3> QED BY <1>1, <1>4, <3>1 DEF IInv, Ordered, DoomSpreads, RequiredBy
  <2>5. ErrorsHalt'
    BY <1>1, <1>4 DEF IInv, Ordered, ErrorsHalt
  <2> QED BY <2>1, <2>2, <2>3, <2>4, <2>5 DEF Ordered
<1>6. Truthful'
  <2>1. Coroutines' /\ Graces'
    BY <1>1 DEF IInv, Truthful, Coroutines, Returned, Graces
  <2>2. AllEnded'
    BY <1>1 DEF AllEnded, Over
  <2>3. Accounted'
    <3>1. \A m \in Tasks : runner'[m].co = "raised" <=> runner[m].co = "raised"
      BY <1>1
    <3> QED BY <1>1, <3>1 DEF IInv, Truthful, Accounted
  <2>4. Edges'
    BY <1>1 DEF IInv, Truthful, Edges, RequiredBy
  <2>5. Reasons'
    <3>1. \A d : Below(d)' = Below(d)
      BY <1>1 DEF Below, RequiredBy, Downstream, Closed
    <3> QED BY <1>1, <3>1 DEF IInv, Truthful, Reasons, Returned, Blamed
  <2> QED BY <2>1, <2>2, <2>3, <2>4, <2>5 DEF Truthful
<1> QED BY <1>2, <1>5, <1>6 DEF IInv

(* A task that is over leaves the graph. *)
LEMMA LeavesInv ==
  ASSUME IInv, ~Over, NEW k \in DOMAIN graph, NEW r \in Runner, Leaves(k, r),
         r.done, r.co \notin {"none", "live"}, r.timer = runner[k].timer,
         Returned(k) => r.co = "returned",
         r.co = "returned" \/ Doomed(k),
         r.co = "raised" <=> runner[k].co = "raised",
         r.co # "returned" => raised # <<>> /\ (aggregate /\ r.co # "raised" => Blamed(k)),
         \A d \in Requires(k) : Returned(d)
  PROVE  IInv'
<1>1. /\ k \in Tasks
      /\ runner'[k] = r /\ \A m \in Tasks \ {k} : runner'[m] = runner[m]
      /\ runner' \in [Tasks -> Runner]
      /\ plan' = plan /\ aggregate' = aggregate /\ raised' = raised /\ pc' = pc /\ left' = left \ {k}
      /\ graph' = Without(graph, k)
  BY DEF IInv, TypeOK, fixed, Leaves, Visited
<1>2. /\ DOMAIN graph' = (DOMAIN graph \cup graph[k].satisfy) \ {k}
      /\ \A d \in DOMAIN graph' :
           /\ graph'[d] \in Node
           /\ d \notin DOMAIN graph => graph'[d] = NewNode
           /\ d \in DOMAIN graph => /\ graph'[d].satisfy = graph[d].satisfy
                                   /\ graph[d].require \ {k} \subseteq graph'[d].require
  <2>1. \A d \in DOMAIN graph : graph[d] \in Node
    BY DEF IInv, TypeOK
  <2> QED BY <1>1, <2>1 DEF Without, NewNode, Node
<1>3. TypeOK'
  <2>1. \A d \in DOMAIN graph' : d \in Tasks /\ graph'[d] \in Node
    BY <1>2 DEF IInv, TypeOK, Node
  <2> QED BY <1>1, <2>1 DEF IInv, TypeOK
<1>4. \A m \in Tasks : Returned(m) => Returned(m)'
  BY <1>1 DEF Returned
<1>5. \A m \in Tasks : Past(m) => Past(m)'
  BY <1>1 DEF Past, Started
<1>6. Past(k)' /\ (~Returned(k)' => \A j \in RequiredBy(k) : Past(j))
  BY <1>1 DEF Past, Returned, IInv, Ordered, DoomSpreads
<1>7. Ordered'
  <2>1. InOrder'
    BY <1>1, <1>4 DEF IInv, Ordered, InOrder, Started, Requires, Returned
  <2>2. Waiting'
    <3> SUFFICES ASSUME NEW j \in DOMAIN graph', ~Past(j)', NEW d \in Requires(j)
                 PROVE  Returned(d)' \/ Edge(j, d)'
      BY <1>1 DEF Waiting, Requires
    <3>1. j \in Tasks /\ j # k /\ ~Past(j) /\ d \in Tasks
      BY <1>2, <1>3, <1>5 DEF TypeOK, Requires
    <3>2. j \in DOMAIN graph
      BY <3>1 DEF IInv, Ordered, Outside
    <3>3. CASE Returned(d)
      BY <1>4, <3>1, <3>3
    <3>4. CASE d = k
      <4>1. j \in RequiredBy(k)
        BY <3>1, <3>4 DEF Requires, RequiredBy
      <4> QED BY <1>6, <3>1, <3>4, <4>1
    <3>5. CASE d # k /\ ~Returned(d)
      <4>1. Edge(j, d)
        BY <3>1, <3>2, <3>5 DEF IInv, Ordered, Waiting
      <4> QED BY <1>2, <3>1, <3>2, <3>5, <4>1 DEF Edge
    <3> QED BY <3>3, <3>4, <3>5
  <2>3. Outside'
    BY <1>2, <1>5, <1>6 DEF IInv, Ordered, Outside
  <2>4. DoomSpreads'
    <3> SUFFICES ASSUME NEW m \in Tasks, Doomed(m)', NEW j \in RequiredBy(m) PROVE Past(j)
      BY <1>1, <1>5 DEF DoomSpreads, RequiredBy
    <3>1. CASE m # k
      BY <1>1, <3>1 DEF Doomed, Returned, IInv, Ordered, DoomSpreads
    <3>2. CASE m = k
      <4>1. Doomed(k)
        BY <1>1, <3>2 DEF Doomed, Returned
      <4> QED BY <3>2, <4>1 DEF IInv, Ordered, DoomSpreads
    <3> QED BY <3>1, <3>2
  <2>5. ErrorsHalt'
    BY <1>1, <1>5 DEF IInv, Ordered, ErrorsHalt
  <2> QED BY <2>1, <2>2, <2>3, <2>4, <2>5 DEF Ordered
<1>8. Truthful'
  <2>1. Coroutines' /\ Graces'
    BY <1>1 DEF IInv, Truthful, Coroutines, Returned, Graces
  <2>2. AllEnded'
    BY <1>1 DEF AllEnded, Over
  <2>3. Accounted'
    <3>1. \A m \in Tasks : runner'[m].co = "raised" <=> runner[m].co = "raised"
      BY <1>1
    <3> QED BY <1>1, <3>1 DEF IInv, Truthful, Accounted
  <2>4. Edges'
    BY <1>1, <1>2 DEF IInv, Truthful, Edges, RequiredBy, NewNode
  <2>5. Reasons'
    <3>1. \A d : Below(d)' = Below(d)
      BY <1>1 DEF Below, RequiredBy, Downstream, Closed
    <3>2. \A m \in Tasks : Blamed(m) <=> Blamed(m)'
      BY <1>1, <3>1 DEF Blamed
    <3> QED BY <1>1, <3>2 DEF IInv, Truthful, Reasons, Returned
  <2> QED BY <2>1, <2>2, <2>3, <2>4, <2>5 DEF Truthful
<1> QED BY <1>3, <1>7, <1>8 DEF IInv

LEMMA StartInv == ASSUME IInv, NEW k \in Tasks, Start(k) PROVE IInv'
<1>1. /\ ~Over /\ pc # "aborted" /\ k \in DOMAIN graph /\ ~runner[k].done /\ runner[k].co = "none"
      /\ runner[k] \in Runner
  BY DEF Start, Ready, Over, Started, IInv, TypeOK
<1>2. \A d \in Requires(k) : Returned(d)
  BY <1>1 DEF Start, Ready, IInv, Ordered, Waiting, Edge, Past, Started
<1>3. ASSUME NEW r \in Yields(runner[k]), runner' = [runner EXCEPT ![k] = r],
             UNCHANGED graph, Visited(k)
      PROVE  IInv'
  <2>1. r \in Runner /\ r.co = "live" /\ ~r.done /\ r.timer = runner[k].timer
    BY <1>1 DEF Yields, Runner
  <2>2. UNCHANGED <<fixed, pc, graph, raised>> /\ left' \subseteq Tasks
    BY <1>3 DEF Visited, IInv, TypeOK
  <2> QED BY <1>1, <1>2, <1>3, <2>1, <2>2, StaysInv
<1>4. ASSUME runner' = [runner EXCEPT ![k] = Returns(@)], graph' = Without(graph, k), Visited(k)
      PROVE  IInv'
  <2>1. /\ Returns(runner[k]) \in Runner /\ Returns(runner[k]).co = "returned"
        /\ Returns(runner[k]).done /\ Returns(runner[k]).timer = runner[k].timer
    BY <1>1 DEF Returns, Runner
  <2>2. Leaves(k, Returns(runner[k]))
    BY <1>4 DEF Leaves
  <2> QED BY <1>1, <1>2, <2>1, <2>2, LeavesInv
<1>5. ASSUME Fail(k, [runner EXCEPT ![k] = Raises(@)]) PROVE IInv'
  <2> DEFINE rs == [runner EXCEPT ![k] = Raises(@)]
  <2>1. Raises(runner[k]) \in Runner /\ Raises(runner[k]).co = "raised"
        /\ Raises(runner[k]).timer = runner[k].timer
    BY <1>1 DEF Raises, Runner
  <2>2. RaisedBy(k, rs)
    BY <1>1, <1>2, <2>1 DEF RaisedBy, IInv, TypeOK
  <2> QED BY <1>1, <1>5, <2>2, FailInv
<1> QED BY <1>3, <1>4, <1>5, AbortInv DEF Start

LEMMA StepInv == ASSUME IInv, NEW k \in Tasks, Step(k) PROVE IInv'
<1>1. /\ ~Over /\ pc # "aborted" /\ k \in DOMAIN graph /\ runner[k].co # "none"
      /\ runner[k] \in Runner /\ left \subseteq Tasks
  BY DEF Step, Running, Over, Started, IInv, TypeOK
<1>2. \A d \in Requires(k) : Returned(d)
  BY <1>1 DEF IInv, Ordered, InOrder, Started, Returned
<1>3. /\ Returned(k) => runner[k].done
      /\ runner[k].done => runner[k].co # "live"
      /\ runner[k].done /\ ~Returned(k) =>
           raised # <<>> /\ (aggregate /\ runner[k].co # "raised" => Blamed(k))
      /\ runner[k].timer # "none" => raised # <<>> /\ ~aggregate
      /\ runner[k].co = "raised" => raised # <<>>
  <2>1. runner[k].co = "raised" => k \in Range(raised)
    BY DEF IInv, Truthful, Accounted
  <2>2. Range(<<>>) = {}
    BY DEF Range
  <2> QED BY <1>1, <2>1, <2>2 DEF IInv, Truthful, Coroutines, Reasons, Graces
<1>4. CASE StepDone(k)
  <2>1. runner[k].done /\ Leaves(k, runner[k])
    BY <1>4 DEF StepDone
  <2>2. runner[k].co = "returned" \/ Doomed(k)
    BY <2>1 DEF Doomed, Returned
  <2> QED BY <1>1, <1>2, <1>3, <2>1, <2>2, LeavesInv DEF Returned
<1>5. CASE StepWaits(k)
  <2> DEFINE r == [runner[k] EXCEPT !.period = @ - 1]
  <2>1. ~runner[k].done /\ Stays(k, r) /\ runner[k].period > 1
    BY <1>5 DEF StepWaits
  <2>2. r \in Runner /\ r.co = runner[k].co /\ r.done = runner[k].done /\ r.timer = runner[k].timer
    BY <1>1, <2>1 DEF Runner
  <2>3. UNCHANGED <<fixed, pc, graph, raised>> /\ left' \subseteq Tasks /\ runner' = [runner EXCEPT ![k] = r]
    BY <1>1, <2>1 DEF Stays, Visited
  <2> HIDE DEF r
  <2> QED BY <1>1, <1>2, <2>1, <2>2, <2>3, StaysInv
<1>6. ASSUME NEW r \in Runner, ~runner[k].done, runner[k].co # "returned",
             r.co = "raised", runner[k].co = "live", r.timer = runner[k].timer, Failed(k, r)
      PROVE  IInv'
  <2>1. RaisedBy(k, [runner EXCEPT ![k] = r])
    BY <1>1, <1>2, <1>6 DEF RaisedBy, IInv, TypeOK
  <2> QED BY <1>1, <1>6, <2>1, FailInv DEF Failed
<1>7. CASE StepTimesOut(k)
  <2>1. ~runner[k].done /\ runner[k].timer = "over" /\ raised # <<>> /\ ~aggregate /\ ~Returned(k)
    BY <1>3, <1>7 DEF StepTimesOut, Steps
  <2>2. CASE Leaves(k, Cancel(runner[k], FALSE))
    <3> DEFINE r == Cancel(runner[k], FALSE)
    <3>1. /\ r \in Runner /\ r.done /\ r.timer = runner[k].timer
          /\ runner[k].co # "live" => r.co = runner[k].co
          /\ runner[k].co = "live" => r.co = "closed"
      BY <1>1, <2>1 DEF Cancel, Runner
    <3>2. Doomed(k)
      BY <2>1 DEF Doomed
    <3>3. r.co \notin {"none", "live"} /\ (r.co = "raised" <=> runner[k].co = "raised")
      BY <1>1, <3>1
    <3> HIDE DEF r
    <3> QED BY <1>1, <1>2, <2>1, <2>2, <3>1, <3>2, <3>3, LeavesInv DEF r
  <2>3. CASE runner[k].co = "live" /\ Failed(k, [Raises(runner[k]) EXCEPT !.done = TRUE])
    <3> DEFINE r == [Raises(runner[k]) EXCEPT !.done = TRUE]
    <3>1. r \in Runner /\ r.co = "raised" /\ r.timer = runner[k].timer
      BY <1>1 DEF Raises, Runner
    <3> HIDE DEF r
    <3> QED BY <1>6, <2>1, <2>3, <3>1 DEF r
  <2> QED BY <1>7, <2>2, <2>3 DEF StepTimesOut
<1>8. CASE StepAdvances(k)
  <2>1. ~runner[k].done
    BY <1>8 DEF StepAdvances, Steps
  <2>2. CASE runner[k].co = "raised" /\ Leaves(k, [runner[k] EXCEPT !.done = TRUE])
    <3> DEFINE r == [runner[k] EXCEPT !.done = TRUE]
    <3>1. r \in Runner /\ r.co = "raised" /\ r.done /\ r.timer = runner[k].timer
      BY <1>1, <2>2 DEF Runner
    <3>2. Doomed(k) /\ ~Returned(k)
      BY <2>2 DEF Doomed, Returned
    <3> HIDE DEF r
    <3> QED BY <1>1, <1>2, <1>3, <2>2, <3>1, <3>2, LeavesInv DEF r
  <2>3. ASSUME runner[k].co = "live", NEW r \in Yields(runner[k]), Stays(k, r) PROVE IInv'
    <3>1. r \in Runner /\ r.co = "live" /\ ~r.done /\ r.timer = runner[k].timer
      BY <1>1, <2>1 DEF Yields, Runner
    <3>2. UNCHANGED <<fixed, pc, graph, raised>> /\ left' \subseteq Tasks /\ runner' = [runner EXCEPT ![k] = r]
      BY <1>1, <2>3 DEF Stays, Visited
    <3> QED BY <1>1, <1>2, <2>1, <2>3, <3>1, <3>2, StaysInv
  <2>4. CASE runner[k].co = "live" /\ Leaves(k, Returns(runner[k]))
    <3>1. /\ Returns(runner[k]) \in Runner /\ Returns(runner[k]).co = "returned"
          /\ Returns(runner[k]).done /\ Returns(runner[k]).timer = runner[k].timer
      BY <1>1 DEF Returns, Runner
    <3> QED BY <1>1, <1>2, <2>4, <3>1, LeavesInv
  <2>5. CASE runner[k].co = "live" /\ Failed(k, Raises(runner[k]))
    <3>1. Raises(runner[k]) \in Runner /\ Raises(runner[k]).co = "raised"
          /\ Raises(runner[k]).timer = runner[k].timer
      BY <1>1 DEF Raises, Runner
    <3> QED BY <1>6, <2>1, <2>5, <3>1
  <2> QED BY <1>8, <2>2, <2>3, <2>4, <2>5, AbortInv DEF StepAdvances
<1> QED BY <1>4, <1>5, <1>7, <1>8 DEF Step

LEMMA ExpireInv == ASSUME IInv, NEW k \in Tasks, Expire(k) PROVE IInv'
<1> DEFINE r == [runner[k] EXCEPT !.timer = "over"]
<1>1. /\ runner[k] \in Runner /\ runner[k].timer = "set" /\ ~runner[k].done
      /\ UNCHANGED <<fixed, pc, graph, raised>> /\ left' \subseteq Tasks
      /\ runner' = [runner EXCEPT ![k] = r]
  BY DEF Expire, IInv, TypeOK
<1>2. ~Over
  BY <1>1 DEF IInv, Truthful, AllEnded
<1>3. r \in Runner /\ r.co = runner[k].co /\ ~r.done /\ r.timer = "over"
  BY <1>1 DEF Runner
<1>4. Past(k)
  BY <1>1 DEF IInv, Truthful, Graces, Ordered, ErrorsHalt
<1>5. r.co # "none" /\ \A d \in Requires(k) : Returned(d)
  BY <1>1, <1>3, <1>4 DEF Past, Started, IInv, Ordered, InOrder, Returned
<1> HIDE DEF r
<1> QED BY <1>1, <1>2, <1>3, <1>5, StaysInv

LEMMA Inductive == Spec => []IInv
<1>1. IInv /\ [Next]_vars => IInv'
  <2> SUFFICES ASSUME IInv, [Next]_vars PROVE IInv'
    OBVIOUS
  <2>1. ASSUME NEW k \in Tasks, PassOver(k) PROVE IInv'
    BY <2>1, PassInv DEF PassOver, Visited, Over, IInv, TypeOK
  <2>2. CASE EndLoop
    <3>1. UNCHANGED <<fixed, graph, runner, raised>> /\ left' \subseteq Tasks /\ ~Over
      BY <2>2 DEF EndLoop, Again, Over, IInv, TypeOK
    <3>2. pc' \in {"starting", "yielded"} \/ (pc' = "ended" /\ \A k \in Tasks : runner[k].done)
      BY <2>2 DEF EndLoop, Again
    <3> QED BY <3>1, <3>2, PassInv
  <2>3. CASE Resume
    BY <2>3, PassInv DEF Resume, Over
  <2>4. CASE Throw
    <3>1. RaisedBy(Thrown, runner)
      BY DEF RaisedBy, IInv, TypeOK
    <3> QED BY <2>4, <3>1, FailHalts DEF Throw
  <2>5. CASE AbortGroup
    BY <2>5, AbortInv DEF AbortGroup
  <2>6. CASE UNCHANGED vars
    <3>1. UNCHANGED <<fixed, graph, runner, raised>> /\ left' \subseteq Tasks /\ pc' = pc
      BY <2>6 DEF vars, fixed, IInv, TypeOK
    <3> QED BY <3>1, PassInv DEF Over, IInv, TypeOK
  <2> QED BY <2>1, <2>2, <2>3, <2>4, <2>5, <2>6, StartInv, StepInv, ExpireInv DEF Next, Pass, Finished
<1> QED BY InitIInv, <1>1, PTL DEF Spec

(* A group's graph, runners and errors keep their shape, however often nodes leave  *)
(* the graph and come back (Graph.__delitem__, _cancel_recursively).                *)
THEOREM TypeCorrect == Spec => []TypeOK
<1>1. IInv => TypeOK
  BY DEF IInv
<1> QED BY <1>1, Inductive, PTL

(* For any tasks and plan, a task starts only after all it requires have returned   *)
(* (DependencyTaskGroup._ready).                                                    *)
THEOREM StartsInOrder == Spec => []InOrder
<1>1. IInv => InOrder
  BY DEF IInv, Ordered
<1> QED BY <1>1, Inductive, PTL

(* For any tasks and plan, a group that is over leaves no coroutine suspended, and  *)
(* unless it was aborted it raises if and only if one of its tasks did or its       *)
(* driver threw; one that aggregates has cancelled only what is downstream of a     *)
(* failure (DependencyTaskGroup.__call__).                                          *)
THEOREM OutcomeIsTrue == Spec => []TruthfulOutcome
<1>1. IInv => TruthfulOutcome
  <2> SUFFICES ASSUME IInv PROVE TruthfulOutcome
    OBVIOUS
  <2>1. Over => \A k \in Tasks : runner[k].done /\ runner[k].co # "live"
    BY DEF IInv, Truthful, AllEnded, Coroutines
  <2>2. ASSUME pc = "ended", Outcome = {} PROVE \A k \in Tasks : runner[k].co = "returned"
    <3>1. raised = <<>>
      <4>1. ASSUME raised # <<>> PROVE FALSE
        <5>1. 1 \in DOMAIN raised /\ raised[1] \in Range(raised)
          BY <4>1 DEF IInv, TypeOK, Range
        <5> QED BY <2>2, <4>1, <5>1 DEF Outcome
      <4> QED BY <4>1
    <3> QED BY <2>1, <2>2, <3>1 DEF Over, IInv, Truthful, Reasons, Returned
  <2>3. ASSUME pc = "ended", aggregate, NEW k \in Tasks, runner[k].co \in {"none", "closed"}
        PROVE  \E d \in Outcome : k \in Below(d)
    <3>1. raised # <<>> /\ Blamed(k)
      BY <2>1, <2>3 DEF Over, IInv, Truthful, Reasons, Returned
    <3> QED BY <2>3, <3>1 DEF Outcome, Blamed
  <2> QED BY <2>1, <2>2, <2>3 DEF TruthfulOutcome, IInv, Truthful, Accounted
<1> QED BY <1>1, Inductive, PTL

(* Unless it aggregates, a group starts nothing after an error, whatever becomes    *)
(* ready while others use up their grace (DependencyTaskGroup.cancel_all).          *)
THEOREM NoStartAfterAnError == Spec => NothingStartsAfterAnError
<1>1. IInv /\ [Next]_vars =>
        [raised # <<>> /\ ~aggregate => \A k \in Tasks : Started(k)' => Started(k)]_vars
  <2> SUFFICES ASSUME IInv, Next, raised # <<>>, ~aggregate, NEW k \in Tasks, ~Started(k)
               PROVE  ~Started(k)'
    BY DEF vars, Started
  <2>1. /\ \A j \in Tasks : ~Ready(j)
        /\ runner[k].done /\ runner \in [Tasks -> Runner]
    BY DEF Ready, IInv, TypeOK, Ordered, ErrorsHalt, Past
  <2> SUFFICES runner'[k] = runner[k]
    BY DEF Started
  <2>2. ASSUME NEW rs \in [Tasks -> Runner], rs[k] = runner[k], NEW graced \in SUBSET Tasks,
               runner' = CancelAll(rs, graced)
        PROVE  runner'[k] = runner[k]
    BY <2>1, <2>2 DEF CancelAll, Cancel
  <2>3. ASSUME NEW x, NEW rs \in [Tasks -> Runner], rs[k] = runner[k], Fail(x, rs)
        PROVE  runner'[k] = runner[k]
    BY <2>2, <2>3 DEF Fail
  <2>4. Abort => runner'[k] = runner[k]
    BY <2>1, <2>2 DEF Abort
  <2>5. ASSUME NEW j \in Tasks, Step(j) PROVE runner'[k] = runner[k]
    <3>1. j # k /\ runner[j] \in Runner
      BY <2>1, <2>5 DEF Step, Running
    <3>2. ASSUME NEW r, Leaves(j, r) \/ Stays(j, r) PROVE runner'[k] = runner[k]
      BY <2>1, <3>1, <3>2 DEF Leaves, Stays
    <3>3. ASSUME NEW r \in Runner, Failed(j, r) PROVE runner'[k] = runner[k]
      <4>1. [runner EXCEPT ![j] = r] \in [Tasks -> Runner] /\ [runner EXCEPT ![j] = r][k] = runner[k]
        BY <2>1, <3>1
      <4> QED BY <2>3, <3>3, <4>1 DEF Failed
    <3>4. Raises(runner[j]) \in Runner /\ [Raises(runner[j]) EXCEPT !.done = TRUE] \in Runner
      BY <3>1 DEF Raises, Runner
    <3> QED BY <2>4, <2>5, <3>2, <3>3, <3>4 DEF Step, StepDone, StepWaits, StepTimesOut, StepAdvances
  <2>6. CASE Throw
    BY <2>1, <2>3, <2>6 DEF Throw
  <2>7. ASSUME NEW j \in Tasks, Expire(j) PROVE runner'[k] = runner[k]
    BY <2>1, <2>7 DEF Expire
  <2>8. ASSUME NEW j \in Tasks, Start(j) \/ PassOver(j) PROVE runner'[k] = runner[k]
    BY <2>1, <2>8 DEF Start, PassOver
  <2> QED BY <2>4, <2>5, <2>6, <2>7, <2>8
          DEF Next, Pass, EndLoop, Resume, AbortGroup, Finished, vars
<1> QED BY <1>1, Inductive, PTL DEF Spec, NothingStartsAfterAnError
=============================================================================
