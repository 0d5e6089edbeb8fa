-------------------------- MODULE DependencyTaskGroup --------------------------
(***************************************************************************)
(* The cooperative scheduler of heat's legacy engine: a group of tasks     *)
(* with an order among them (DependencyTaskGroup), each a coroutine in a   *)
(* TaskRunner.  The group is a coroutine too: in each pass it starts the   *)
(* tasks that are ready, yields, and steps those that run.  A task that    *)
(* raises cancels all the others, at once or after a period of grace, or   *)
(* in a group that aggregates exceptions only those downstream of it.      *)
(* While the group has yielded its driver may throw an exception into it,  *)
(* or abort it (a Timeout, or the group's own cancellation).               *)
(***************************************************************************)
EXTENDS Naturals, Sequences, FiniteSets, SequencesExt

CONSTANTS Tasks,
          Plans,     \* the sets of pairs <<requirer, required>> a group is made from
          MaxPeriod, \* bound: the largest period a task yields
          Thrown     \* an exception of the driver

ASSUME PlansAssumption == IsFiniteSet(Tasks) /\ \A p \in Plans : p \subseteq Tasks \X Tasks
ASSUME PeriodAssumption == MaxPeriod \in Nat \ {0}
ASSUME ThrownAssumption == Thrown \notin Tasks

VARIABLES plan,      \* the dependencies of this group
          aggregate, \* aggregate_exceptions
          pc,        \* where __call__ is
          left,      \* keys its current loop has not visited yet
          graph,     \* _graph: a node for each key in it
          runner,    \* _runners
          raised     \* raised_exceptions, by the task that raised or Thrown

vars == <<plan, aggregate, pc, left, graph, runner, raised>>
fixed == <<plan, aggregate>>

Node == [require : SUBSET Tasks, satisfy : SUBSET Tasks]
NewNode == [require |-> {}, satisfy |-> {}]

(* A coroutine exists and is suspended, has returned, has raised or was closed;  *)
(* timer is the TimedCancel, set or over.                                        *)
Runner == [co : {"none", "live", "returned", "raised", "closed"},
           done : BOOLEAN, timer : {"none", "set", "over"}, period : 1..MaxPeriod]
NewRunner == [co |-> "none", done |-> FALSE, timer |-> "none", period |-> 1]

Started(k) == runner[k].co # "none"

-----------------------------------------------------------------------------
(* Graph, a defaultdict. *)

Requires(k) == {d \in Tasks : <<k, d>> \in plan}
RequiredBy(k) == {d \in Tasks : <<d, k>> \in plan}

(* __delitem__: the key is taken from what its dependants require; a dependant that *)
(* is in the graph no longer comes back as a new node.                              *)
Without(g, k) ==
  [d \in (DOMAIN g \cup g[k].satisfy) \ {k} |->
     IF d \notin DOMAIN g THEN NewNode
     ELSE IF d \in g[k].satisfy THEN [g[d] EXCEPT !.require = @ \ {k}] ELSE g[d]]

(* Seeded fault: only the task that failed is cancelled and deleted. *)
OnlyIt(g, k) == {k}

(* What _cancel_recursively reaches from k: the least set that has k and whatever   *)
(* stands in satisfy of its members.                                                *)
Closed(g, S) == \A d \in S \cap DOMAIN g : g[d].satisfy \subseteq S
Downstream(g, k) ==
  {d \in Tasks : \A S \in SUBSET Tasks : k \in S /\ Closed(g, S) => d \in S}

(* The graph it leaves: the nodes it deletes below k come back new when those they  *)
(* require are deleted after them.                                                  *)
Pruned(g, k) ==
  [d \in (DOMAIN g \cup Downstream(g, k)) \ {k} |->
     IF d \in Downstream(g, k) THEN NewNode
     ELSE [g[d] EXCEPT !.require = @ \ Downstream(g, k)]]

-----------------------------------------------------------------------------
(* TaskRunner. *)

(* Seeded faults: the coroutine is not closed; the grace has no end. *)
CancelMarks(r, grace) ==
  IF r.done THEN r
  ELSE IF r.co # "none" /\ grace
    THEN [r EXCEPT !.timer = IF @ = "none" THEN "set" ELSE @]
  ELSE [r EXCEPT !.done = TRUE]
CancelPatiently(r, grace) ==
  IF r.done \/ (r.co # "none" /\ grace) THEN r
  ELSE [r EXCEPT !.done = TRUE, !.co = IF @ = "live" THEN "closed" ELSE @]

(* cancel(): a task that runs and has grace gets a TimedCancel, the others are done *)
(* and their coroutines closed.                                                     *)
Cancel(r, grace) ==
  IF r.done THEN r
  ELSE IF r.co # "none" /\ grace
    THEN [r EXCEPT !.timer = IF @ = "none" THEN "set" ELSE @]
  ELSE [r EXCEPT !.done = TRUE, !.co = IF @ = "live" THEN "closed" ELSE @]

(* Seeded fault: only tasks that were started are cancelled. *)
CancelStarted(rs, graced) ==
  [k \in Tasks |-> IF rs[k].co = "none" THEN rs[k] ELSE Cancel(rs[k], k \in graced)]

CancelAll(rs, graced) == [k \in Tasks |-> Cancel(rs[k], k \in graced)]

(* Seeded fault: the period is taken as it is yielded. *)
YieldsAnything(r) == {[r EXCEPT !.co = "live", !.period = p] : p \in 0..MaxPeriod}

(* What a step makes of the coroutine: it yields its period, returns, or raises. *)
Yields(r) == {[r EXCEPT !.co = "live", !.period = p] : p \in 1..MaxPeriod}
Returns(r) == [r EXCEPT !.co = "returned", !.done = TRUE]
Raises(r) == [r EXCEPT !.co = "raised"]

-----------------------------------------------------------------------------
(* DependencyTaskGroup.__call__ *)

Init ==
  /\ plan \in Plans
  /\ aggregate \in BOOLEAN
  /\ pc = "starting"
  /\ left = Tasks
  /\ graph = [k \in Tasks |-> [require |-> Requires(k), satisfy |-> RequiredBy(k)]]
  /\ runner = [k \in Tasks |-> NewRunner]
  /\ raised = <<>>

(* The while loop goes on while a task is not done. *)
Again(rs) ==
  IF \A k \in Tasks : rs[k].done
  THEN pc' = "ended" /\ left' = {}
  ELSE pc' = "starting" /\ left' = Tasks

(* The except clause for Exception, raised by task k or thrown in (its k is then     *)
(* whatever the last loop left; no driver throws into a group that aggregates).      *)
Fail(x, rs) ==
  /\ raised' = Append(raised, x)
  /\ \/ /\ aggregate
        /\ runner' = [d \in Tasks |-> IF d \in Downstream(graph, x) THEN Cancel(rs[d], FALSE)
                                      ELSE rs[d]]
        /\ graph' = Pruned(graph, x)
     \/ /\ ~aggregate
        /\ \E graced \in SUBSET {k \in Tasks : rs[k].co # "none"} :
             runner' = CancelAll(rs, graced)
        /\ UNCHANGED graph
  /\ Again(runner')
  /\ UNCHANGED fixed

(* The clause for everything else. *)
Abort ==
  /\ pc' = "aborted"
  /\ left' = {}
  /\ runner' = CancelAll(runner, {})
  /\ UNCHANGED <<fixed, graph, raised>>

(* k is taken from the loop. *)
Visited(k) == pc' = pc /\ left' = left \ {k} /\ UNCHANGED <<fixed, raised>>

(* _ready() *)
Ready(k) ==
  /\ k \in DOMAIN graph
  /\ graph[k].require = {}
  /\ ~runner[k].done
  /\ ~Started(k)

Start(k) ==
  /\ pc = "starting"
  /\ k \in left
  /\ Ready(k)
  /\ \/ /\ \E r \in Yields(runner[k]) : runner' = [runner EXCEPT ![k] = r]
        /\ UNCHANGED graph
        /\ Visited(k)
     \/ /\ runner' = [runner EXCEPT ![k] = Returns(@)]
        /\ graph' = Without(graph, k)
        /\ Visited(k)
     \/ Fail(k, [runner EXCEPT ![k] = Raises(@)])
     \/ Abort

(* _running() *)
Running(k) == k \in DOMAIN graph /\ Started(k)

PassOver(k) ==
  /\ k \in left
  /\ \/ pc = "starting" /\ ~Ready(k)
     \/ pc = "stepping" /\ ~Running(k)
  /\ Visited(k)
  /\ UNCHANGED <<graph, runner>>

(* step(): a task that is done leaves the graph; so does one that raised and was     *)
(* given grace, for its coroutine has nothing left.  The period comes before the     *)
(* timer.  Closing a coroutine may make it raise.                                    *)
Leaves(k, r) ==
  /\ runner' = [runner EXCEPT ![k] = r]
  /\ graph' = Without(graph, k)
  /\ Visited(k)
Stays(k, r) ==
  /\ runner' = [runner EXCEPT ![k] = r]
  /\ UNCHANGED graph
  /\ Visited(k)
Failed(k, r) == Fail(k, [runner EXCEPT ![k] = r])

StepDone(k) == runner[k].done /\ Leaves(k, runner[k])
StepWaits(k) ==
  /\ ~runner[k].done /\ runner[k].period > 1
  /\ Stays(k, [runner[k] EXCEPT !.period = @ - 1])
Steps(k) == ~runner[k].done /\ runner[k].period = 1
StepTimesOut(k) ==
  /\ Steps(k) /\ runner[k].timer = "over"
  /\ \/ Leaves(k, Cancel(runner[k], FALSE))
     \/ runner[k].co = "live" /\ Failed(k, [Raises(runner[k]) EXCEPT !.done = TRUE])
StepAdvances(k) ==
  /\ Steps(k) /\ runner[k].timer # "over"
  /\ \/ runner[k].co = "raised" /\ Leaves(k, [runner[k] EXCEPT !.done = TRUE])
     \/ /\ runner[k].co = "live"
        /\ \/ \E r \in Yields(runner[k]) : Stays(k, r)
           \/ Leaves(k, Returns(runner[k]))
           \/ Failed(k, Raises(runner[k]))
           \/ Abort

Step(k) ==
  /\ pc = "stepping" /\ k \in left /\ Running(k)
  /\ StepDone(k) \/ StepWaits(k) \/ StepTimesOut(k) \/ StepAdvances(k)

(* A loop is over. *)
EndLoop ==
  /\ left = {}
  /\ \/ pc = "starting" /\ DOMAIN graph # {} /\ pc' = "yielded" /\ UNCHANGED left
     \/ pc = "starting" /\ DOMAIN graph = {} /\ Again(runner)
     \/ pc = "stepping" /\ Again(runner)
  /\ UNCHANGED <<fixed, graph, runner, raised>>

(* The driver resumes the group, throws into it (bound: once) or aborts it. *)
Resume ==
  /\ pc = "yielded"
  /\ pc' = "stepping" /\ left' = Tasks
  /\ UNCHANGED <<fixed, graph, runner, raised>>

Throw ==
  /\ pc = "yielded"
  /\ ~aggregate
  /\ Thrown \notin Range(raised)
  /\ Fail(Thrown, runner)

AbortGroup == pc = "yielded" /\ Abort

(* What the group raises once all its tasks are done: nothing, one exception, or all. *)
Outcome ==
  IF raised = <<>> THEN {}
  ELSE IF aggregate THEN Range(raised)
  ELSE IF Thrown \in Range(raised) THEN {Thrown}
  ELSE {raised[1]}

(* A period of grace is over. *)
Expire(k) ==
  /\ runner[k].timer = "set"
  /\ ~runner[k].done
  /\ runner' = [runner EXCEPT ![k].timer = "over"]
  /\ UNCHANGED <<fixed, pc, left, graph, raised>>

Over == pc \in {"ended", "aborted"}
Finished == Over /\ UNCHANGED vars

Pass == (\E k \in Tasks : Start(k) \/ PassOver(k) \/ Step(k)) \/ EndLoop \/ Resume

Next ==
  \/ Pass
  \/ Throw \/ AbortGroup
  \/ \E k \in Tasks : Expire(k)
  \/ Finished

Spec == Init /\ [][Next]_vars

(* The driver steps the group until it is over, and time passes. *)
Fairness == WF_vars(Pass) /\ \A k \in Tasks : WF_vars(Expire(k))

FairSpec == Spec /\ Fairness

-----------------------------------------------------------------------------
(* Properties. *)

(* The state keeps its shape. *)
TypeOK ==
  /\ plan \in Plans
  /\ aggregate \in BOOLEAN
  /\ pc \in {"starting", "yielded", "stepping", "ended", "aborted"}
  /\ left \subseteq Tasks
  /\ DOMAIN graph \subseteq Tasks /\ \A k \in DOMAIN graph : graph[k] \in Node
  /\ runner \in [Tasks -> Runner]
  /\ raised \in Seq(Tasks \cup {Thrown})

(* A task starts only after all that it requires have returned: not after one of    *)
(* them failed, was cancelled, or came back into the graph as a new node.           *)
InOrder ==
  \A k \in Tasks : Started(k) =>
    \A d \in Requires(k) : runner[d].co = "returned"

(* When a group is over no coroutine of it is left suspended.  When it was not      *)
(* aborted it has raised for each task that did and otherwise succeeded; one that   *)
(* aggregates has run everything that is not downstream of a failure.               *)
Below(k) == Downstream([d \in Tasks |-> [satisfy |-> RequiredBy(d)]], k)
TruthfulOutcome ==
  /\ Over => \A k \in Tasks : runner[k].done /\ runner[k].co # "live"
  /\ pc = "ended" =>
       /\ Range(raised) \ {Thrown} = {k \in Tasks : runner[k].co = "raised"}
       /\ Outcome = {} => \A k \in Tasks : runner[k].co = "returned"
       /\ aggregate => \A k \in Tasks :
            runner[k].co \in {"none", "closed"} => \E d \in Outcome : k \in Below(d)

(* Unless it aggregates, a group starts nothing once a task has failed, whatever    *)
(* becomes ready while those that run use up their grace.                           *)
NothingStartsAfterAnError ==
  [][raised # <<>> /\ ~aggregate =>
       \A k \in Tasks : Started(k)' => Started(k)]_vars

(* A task that fails ends the group, even when others would never end: their grace  *)
(* does.                                                                            *)
AnErrorEndsTheGroup == (raised # <<>> /\ ~aggregate) ~> Over
=============================================================================
