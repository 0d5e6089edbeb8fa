---------------------------------- MODULE Rpc ----------------------------------
(***************************************************************************)
(* Remote procedure calls of oslo.messaging over an AMQP broker.  A client *)
(* publishes a request into the queue of a topic and waits, with a         *)
(* deadline, on its reply queue.  The broker gives each request to one of  *)
(* the servers and keeps it until that server acknowledges it; when the    *)
(* connection or the server goes first, it puts the request back.  A       *)
(* server has one thread that polls (AMQPListener.poll) and one for each   *)
(* request; acknowledgements are handed to the polling thread              *)
(* (MessageOperationsHandler).  A request is acknowledged before it is     *)
(* dispatched.  A server may be stopped in order, when another thread      *)
(* takes the acknowledgements over, or die.                                *)
(***************************************************************************)
EXTENDS Naturals, Sequences, FiniteSets, SequencesExt

CONSTANTS Servers,     \* the servers of the topic
          Calls,       \* the requests one client sends
          Casts,       \* those that want no reply
          CacheSize,   \* DUP_MSG_CHECK_SIZE
          MaxTroubles, \* bound: connections lost, servers and clients that die,
                       \*   requests published twice, replies that find no queue
          None         \* no server

ASSUME CallsAssumption == Casts \subseteq Calls
ASSUME BoundsAssumption == CacheSize \in Nat \ {0} /\ MaxTroubles \in Nat
ASSUME NoneAssumption == None \notin Servers

VARIABLES call,     \* what the client knows of each request
          replyq,   \* the client's reply queue
          replies,  \* replies in it
          copies,   \* every copy of a request the broker ever made
          server,   \* the state of each server
          cache,    \* msg_id_cache of each listener
          obsolete, \* the servers whose _obsolete_reply_queues has the client's queue
          runs,     \* how often each request was dispatched
          troubles  \* what has gone wrong so far

client == <<call, replyq, replies>>
vars == <<client, copies, server, cache, obsolete, runs, troubles>>

(* A copy is queued at the broker, or at some server: read from the socket, its   *)
(* thread waiting for the acknowledgement, back from it, dispatching.             *)
(* It ends when its thread does, refused as a duplicate, acknowledged and lost    *)
(* with its server, or expired in the queue.  The broker holds it until the       *)
(* acknowledgement.                                                               *)
Handled == {"acking", "acked", "running"}
Ended == {"over", "refused", "lost", "expired"}
Copies == [call : Calls, at : {"queued", "incoming"} \cup Handled \cup Ended,
           server : Servers \cup {None}, held : BOOLEAN]
NewCopy(c) == [call |-> c, at |-> "queued", server |-> None, held |-> FALSE]
Requeue(copy) == NewCopy(copy.call)

(* The polling thread works; acknowledgements are served; the process exists. *)
Polling == {"up", "stopping"}
Serving == Polling \cup {"drained"}
Running == Serving \cup {"stranded"}

Init ==
  /\ call = [c \in Calls |-> "new"]
  /\ replyq = "up"
  /\ replies = {}
  /\ copies = <<>>
  /\ server = [s \in Servers |-> "up"]
  /\ cache = [s \in Servers |-> <<>>]
  /\ obsolete = {}
  /\ runs = [c \in Calls |-> 0]
  /\ troubles = 0

Trouble == troubles < MaxTroubles /\ troubles' = troubles + 1
NoTrouble == UNCHANGED troubles

-----------------------------------------------------------------------------
(* The client. *)

(* _send: listen() before the request is published.  A publication is repeated *)
(* when the connection fails, whether it had reached the broker or not.        *)
Send(c) ==
  /\ call[c] = "new"
  /\ replyq # "gone"
  /\ call' = [call EXCEPT ![c] = IF c \in Casts THEN "returned" ELSE "waiting"]
  /\ \/ copies' = Append(copies, NewCopy(c)) /\ NoTrouble
     \/ copies' = copies \o <<NewCopy(c), NewCopy(c)>> /\ Trouble
  /\ UNCHANGED <<replyq, replies, server, cache, obsolete, runs>>

(* The deadline; unlisten(). *)
Timeout(c) ==
  /\ call[c] = "waiting"
  /\ call' = [call EXCEPT ![c] = "timedout"]
  /\ UNCHANGED <<replyq, replies, copies, server, cache, obsolete, runs, troubles>>

(* ReplyWaiter.__call__ and wait(): a reply nobody waits for is dropped. *)
Deliver(c) ==
  /\ c \in replies
  /\ replyq = "up"
  /\ replies' = replies \ {c}
  /\ call' = [call EXCEPT ![c] = IF @ = "waiting" THEN "returned" ELSE @]
  /\ UNCHANGED <<replyq, copies, server, cache, obsolete, runs, troubles>>

(* The reply queue is lost, with what is in it; it comes back unless its client is dead. *)
LoseReplyQueue ==
  /\ Trouble
  /\ replyq = "up"
  /\ replyq' = "missing"
  /\ replies' = {}
  /\ UNCHANGED <<call, copies, server, cache, obsolete, runs>>

Redeclare ==
  /\ replyq = "missing"
  /\ replyq' = "up"
  /\ UNCHANGED <<call, replies, copies, server, cache, obsolete, runs, troubles>>

ClientDies ==
  /\ Trouble
  /\ replyq # "gone"
  /\ replyq' = "gone"
  /\ replies' = {}
  /\ call' = [c \in Calls |-> IF call[c] = "waiting" THEN "dead" ELSE call[c]]
  /\ UNCHANGED <<copies, server, cache, obsolete, runs>>

-----------------------------------------------------------------------------
(* The broker and the polling thread of a server. *)

(* AMQPListener.__call__: a copy of a request that was acknowledged here before *)
(* is rejected, and the broker forgets it.                                      *)
Duplicate(s, c) == c \in Range(cache[s])

Receive(i, s) ==
  /\ copies[i].at = "queued"
  /\ server[s] = "up"
  /\ copies' = [copies EXCEPT ![i] =
       IF Duplicate(s, @.call) THEN [@ EXCEPT !.at = "refused"]
       ELSE [@ EXCEPT !.at = "incoming", !.server = s, !.held = TRUE]]
  /\ UNCHANGED <<client, server, cache, obsolete, runs, troubles>>

(* A call is published with its timeout as expiration: the broker discards a copy  *)
(* that nobody took by then, a repeated or requeued one as well.  The broker and   *)
(* the client count on their own, so that either may be first.  A cast stays.      *)
Discard(i) ==
  /\ copies[i].at = "queued"
  /\ copies[i].call \notin Casts
  /\ copies' = [copies EXCEPT ![i].at = "expired"]
  /\ UNCHANGED <<client, server, cache, obsolete, runs, troubles>>

(* poll() returns it, and a thread of the executor starts with acknowledge(). *)
Submit(i) ==
  /\ copies[i].at = "incoming"
  /\ server[copies[i].server] \in Polling
  /\ copies' = [copies EXCEPT ![i].at = "acking"]
  /\ UNCHANGED <<client, server, cache, obsolete, runs, troubles>>

(* Seeded faults: the copy stays with the broker until its thread ends; nothing serves the *)
(* acknowledgements after stop().                                                   *)
AcknowledgeLate(i) ==
  /\ copies[i].at = "acking"
  /\ server[copies[i].server] \in Serving
  /\ copies' = [copies EXCEPT ![i].at = "acked"]
  /\ UNCHANGED <<client, server, cache, obsolete, runs, troubles>>

AcknowledgePolling(i) ==
  /\ copies[i].at = "acking"
  /\ server[copies[i].server] \in Polling
  /\ copies' = [copies EXCEPT ![i].at = "acked", ![i].held = FALSE]
  /\ UNCHANGED <<client, server, cache, obsolete, runs, troubles>>

(* process() sends it.  When the connection the copy came by is lost it may raise: *)
(* the thread that waits is only told that it is over, the polling thread starts   *)
(* again, but the one that took over after stop() ends.                            *)
Acknowledge(i) ==
  /\ copies[i].at = "acking"
  /\ LET s == copies[i].server IN
     /\ server[s] \in Serving
     /\ \/ UNCHANGED server
        \/ server[s] = "drained" /\ ~copies[i].held
           /\ server' = [server EXCEPT ![s] = "stranded"]
  /\ copies' = [copies EXCEPT ![i].at = "acked", ![i].held = FALSE]
  /\ UNCHANGED <<client, cache, obsolete, runs, troubles>>

HeldBy(s) == {i \in DOMAIN copies : copies[i].server = s /\ copies[i].held}

(* The connection of a server: what it had not acknowledged is put back. *)
Drop(s) ==
  /\ server[s] \in Running
  /\ Trouble
  /\ LET held == SetToSeq(HeldBy(s)) IN
     copies' = [i \in DOMAIN copies |->
                  IF i \in HeldBy(s) THEN [copies[i] EXCEPT !.held = FALSE] ELSE copies[i]]
               \o [n \in DOMAIN held |-> Requeue(copies[held[n]])]
  /\ UNCHANGED <<client, server, cache, obsolete, runs>>

-----------------------------------------------------------------------------
(* RPCServer._process_incoming, in the request's own thread. *)

(* Seeded fault: a list instead of a deque with a maximal length. *)
RememberAll(q, c) == IF c \in Range(q) THEN q ELSE Append(q, c)

(* Back from do(): msg_id_cache.add, and the dispatch begins. *)
Remember(q, c) ==
  IF c \in Range(q) THEN q
  ELSE Append(IF Len(q) = CacheSize THEN Tail(q) ELSE q, c)

Dispatch(i) ==
  /\ copies[i].at = "acked"
  /\ LET s == copies[i].server
         c == copies[i].call IN
     /\ cache' = [cache EXCEPT ![s] = Remember(@, c)]
     /\ runs' = [runs EXCEPT ![c] = @ + 1]
  /\ copies' = [copies EXCEPT ![i].at = "running"]
  /\ UNCHANGED <<client, server, obsolete, troubles>>

(* The method returns or raises, which both make a reply, retried while the reply *)
(* queue is missing and time is left.                                             *)
Finish(i) == copies' = [copies EXCEPT ![i].at = "over"]

Reply(i) ==
  /\ copies[i].at = "running"
  /\ IF copies[i].call \in Casts \/ copies[i].server \in obsolete
       THEN UNCHANGED replies
       ELSE replyq = "up" /\ replies' = replies \cup {copies[i].call}
  /\ Finish(i)
  /\ UNCHANGED <<call, replyq, server, cache, obsolete, runs, troubles>>

Abandon(i) ==
  /\ copies[i].at = "running"
  /\ copies[i].call \notin Casts
  /\ copies[i].server \notin obsolete
  /\ replyq # "up"
  /\ obsolete' = obsolete \cup {copies[i].server}
  /\ Finish(i)
  /\ UNCHANGED <<client, server, cache, runs, troubles>>

(* ObsoleteReplyQueuesCache: the entry's time is over. *)
Expire(s) ==
  /\ s \in obsolete
  /\ obsolete' = obsolete \ {s}
  /\ UNCHANGED <<client, copies, server, cache, runs, troubles>>

-----------------------------------------------------------------------------
(* The life of a server. *)

At(s, places) == {i \in DOMAIN copies : copies[i].server = s /\ copies[i].at \in places}

(* stop(): nothing more is read from the connection. *)
Stop(s) ==
  /\ server[s] = "up"
  /\ server' = [server EXCEPT ![s] = "stopping"]
  /\ UNCHANGED <<client, copies, cache, obsolete, runs, troubles>>

(* The polling thread has submitted what was read and ends (_shutoff); another *)
(* one takes over the acknowledgements (process_in_background).                *)
Drain(s) ==
  /\ server[s] = "stopping"
  /\ At(s, {"incoming"}) = {}
  /\ server' = [server EXCEPT ![s] = "drained"]
  /\ UNCHANGED <<client, copies, cache, obsolete, runs, troubles>>

(* Seeded fault: the connection is closed without waiting for the executor. *)
CloseNow(s) ==
  /\ server[s] \in {"drained", "stranded"}
  /\ server' = [server EXCEPT ![s] = "closed"]
  /\ UNCHANGED <<client, copies, cache, obsolete, runs, troubles>>

(* wait(): when all threads have ended, the connection is closed. *)
Close(s) ==
  /\ server[s] \in {"drained", "stranded"}
  /\ At(s, Handled) = {}
  /\ server' = [server EXCEPT ![s] = "closed"]
  /\ UNCHANGED <<client, copies, cache, obsolete, runs, troubles>>

(* The process ends: the broker puts back what it holds; what was acknowledged and *)
(* not dispatched is lost.                                                         *)
Die(s) ==
  /\ server[s] \in Running
  /\ Trouble
  /\ server' = [server EXCEPT ![s] = "dead"]
  /\ copies' = [i \in DOMAIN copies |->
       IF copies[i].server # s \/ copies[i].at \in Ended THEN copies[i]
       ELSE IF copies[i].held THEN Requeue(copies[i])
       ELSE [copies[i] EXCEPT !.at = IF @ = "acked" THEN "lost" ELSE "over"]]
  /\ UNCHANGED <<client, cache, obsolete, runs>>

-----------------------------------------------------------------------------

Step(i) ==
  \/ \E s \in Servers : Receive(i, s)
  \/ Submit(i) \/ Acknowledge(i) \/ Dispatch(i) \/ Reply(i) \/ Abandon(i)

Next ==
  \/ \E c \in Calls : Send(c) \/ Timeout(c) \/ Deliver(c)
  \/ LoseReplyQueue \/ Redeclare \/ ClientDies
  \/ \E i \in DOMAIN copies : Step(i) \/ Discard(i)
  \/ \E s \in Servers : Drop(s) \/ Expire(s) \/ Stop(s) \/ Drain(s) \/ Close(s) \/ Die(s)

Spec == Init /\ [][Next]_vars

(* Threads run, methods return, deadlines pass. *)
Fairness ==
  /\ WF_vars(\E c \in Calls : Timeout(c))
  /\ WF_vars(\E i \in DOMAIN copies : Step(i))
  /\ WF_vars(\E s \in Servers : Drain(s) \/ Close(s))

FairSpec == Spec /\ Fairness

-----------------------------------------------------------------------------
(* Properties. *)

(* The state keeps its shape. *)
TypeOK ==
  /\ call \in [Calls -> {"new", "waiting", "returned", "timedout", "dead"}]
  /\ replyq \in {"up", "missing", "gone"}
  /\ replies \subseteq Calls \ Casts
  /\ copies \in Seq(Copies)
  /\ server \in [Servers -> {"up", "stopping", "drained", "stranded", "closed", "dead"}]
  /\ cache \in [Servers -> Seq(Calls)] /\ \A s \in Servers : Len(cache[s]) <= CacheSize
  /\ obsolete \subseteq Servers
  /\ runs \in [Calls -> Nat]
  /\ troubles \in 0..MaxTroubles

CopiesOf(c) == {i \in DOMAIN copies : copies[i].call = c}

(* A request is dispatched at most once, whichever servers die: only a           *)
(* publication that is repeated and a connection that is lost before the         *)
(* acknowledgement can add a dispatch, one each (RPCClient.call promises none).  *)
AtMostOnce == \A c \in Calls : runs[c] <= Cardinality(CopiesOf(c))

(* A request that was sent is dispatched, or the broker still has it, or a       *)
(* server has acknowledged it and will dispatch it.  Two things alone take it    *)
(* away: a server that dies between the acknowledgement and the dispatch, and,   *)
(* for a call, its expiration in the queue; not an orderly stop, nor the check   *)
(* for duplicates, nor a lost connection.                                        *)
InHand(i) ==
  \/ copies[i].at = "queued" \/ copies[i].held
  \/ copies[i].at = "acked" /\ server[copies[i].server] \in Running
Excused(i) == copies[i].at = "lost" \/ (copies[i].at = "expired" /\ copies[i].call \notin Casts)
NoRequestLost ==
  \A c \in Calls : call[c] # "new" =>
    runs[c] > 0 \/ \E i \in CopiesOf(c) : InHand(i) \/ Excused(i)

(* In the end no call waits: each returned, ran into its deadline or died with   *)
(* its client.  No thread is left at a server, and none is still being stopped,  *)
(* unless the server lost the thread that serves its acknowledgements.           *)
Threads(s) == At(s, {"incoming"} \cup Handled)
EverythingEnds ==
  <>[]( /\ \A c \in Calls : call[c] # "waiting"
        /\ \A s \in Servers :
             \/ server[s] = "stranded"
             \/ server[s] \notin {"stopping", "drained"} /\ Threads(s) = {})

(* "Run all pending tasks queued by do() in an thread during the shutdown        *)
(* process" (amqpdriver.py:70): no acknowledgement waits for ever, so that       *)
(* wait() returns.                                                               *)
PendingTasksRun == <>[](\A s \in Servers : At(s, {"acking"}) = {})
=============================================================================
