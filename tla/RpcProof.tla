------------------------------- MODULE RpcProof -------------------------------
(***************************************************************************)
(* Proofs about Rpc: whatever servers and clients die, whatever            *)
(* connections are lost, no request disappears that was neither            *)
(* acknowledged nor a call that expired, and none is dispatched more often *)
(* than the broker gave it out.                                            *)
(***************************************************************************)
EXTENDS Rpc, FiniteSetTheorems, TLAPS

USE CallsAssumption, BoundsAssumption, NoneAssumption

(* A listener remembers only what it has dispatched. *)
CacheIsOfRuns == \A s \in Servers : \A c \in Range(cache[s]) : runs[c] > 0

(* The broker keeps a copy until it is acknowledged, not longer; a copy with a *)
(* thread is at a server, a queued one at none.                                *)
InPlace(copy) ==
  /\ copy.held => copy.at \in {"incoming", "acking"}
  /\ copy.at \in {"incoming"} \cup Handled => copy.server \in Servers
  /\ copy.at = "queued" => copy.server = None
CopiesAreInPlace == \A i \in DOMAIN copies : InPlace(copies[i])

(* Dispatches are made by copies of their own. *)
Dispatched(c) == {i \in DOMAIN copies : copies[i].call = c /\ copies[i].at \in {"running", "over"}}
RunsAreCopies == \A c \in Calls : runs[c] <= Cardinality(Dispatched(c))

(* What the steps make of the sequence of copies. *)
LEMMA CopiesType == ASSUME copies \in Seq(Copies)
  PROVE /\ Len(copies) \in Nat /\ DOMAIN copies = 1..Len(copies)
        /\ \A i \in DOMAIN copies : copies[i] \in Copies
        /\ \A c \in Calls : IsFiniteSet(Dispatched(c))
<1>1. Len(copies) \in Nat /\ DOMAIN copies = 1..Len(copies) /\ \A i \in DOMAIN copies : copies[i] \in Copies
  OBVIOUS
<1>2. IsFiniteSet(1..Len(copies))
  BY <1>1, FS_Interval
<1>3. \A c \in Calls : Dispatched(c) \in SUBSET (1..Len(copies))
  BY <1>1 DEF Dispatched
<1> QED BY <1>1, <1>2, <1>3, FS_Subset

LEMMA Listing ==
  ASSUME NEW S, IsFiniteSet(S)
  PROVE  /\ Cardinality(S) \in Nat
         /\ SetToSeq(S) \in [1..Cardinality(S) -> S]
         /\ \A x \in S : \E n \in 1..Cardinality(S) : SetToSeq(S)[n] = x
<1> DEFINE n == Cardinality(S)
<1>1. n \in Nat /\ ExistsBijection(1..n, S)
  BY FS_CardinalityType
<1>2. PICK g \in Bijection(1..n, S) : TRUE
  BY <1>1 DEF ExistsBijection
<1>3. g \in [1..n -> S] /\ IsInjective(g)
  BY <1>2 DEF Bijection, Injection, Surjection, IsInjective
<1>4. SetToSeq(S) \in [1..n -> S] /\ IsInjective(SetToSeq(S))
  BY <1>3 DEF SetToSeq
<1>5. SetToSeq(S) \in Injection(1..n, S)
  BY <1>4 DEF Injection, IsInjective
<1>6. IsFiniteSet(1..n) /\ Cardinality(1..n) = n
  BY <1>1, FS_Interval
<1>7. SetToSeq(S) \in Surjection(1..n, S)
  BY <1>5, <1>6, FS_Injection
<1> QED BY <1>1, <1>4, <1>7 DEF Surjection

(* The inductive invariant. *)
IInv ==
  /\ TypeOK
  /\ CacheIsOfRuns
  /\ CopiesAreInPlace
  /\ RunsAreCopies
  /\ NoRequestLost

-----------------------------------------------------------------------------
(* Ways to change the copies. *)

(* Copies that go on: each keeps its call, and none that was dispatched goes back. *)
Onwards(new) ==
  /\ new \in Seq(Copies)
  /\ DOMAIN copies \subseteq DOMAIN new
  /\ \A i \in DOMAIN copies :
       /\ new[i].call = copies[i].call
       /\ copies[i].at \in {"running", "over"} => new[i].at \in {"running", "over"}

LEMMA OnwardsCounts ==
  ASSUME TypeOK, RunsAreCopies, UNCHANGED runs, Onwards(copies')
  PROVE  RunsAreCopies'
<1> SUFFICES ASSUME NEW c \in Calls PROVE runs[c] <= Cardinality(Dispatched(c)')
  BY DEF RunsAreCopies, TypeOK
<1>1. Dispatched(c) \subseteq Dispatched(c)'
  BY DEF Onwards, Dispatched
<1>2. Len(copies') \in Nat /\ DOMAIN copies' = 1..Len(copies')
  BY DEF Onwards
<1>3. IsFiniteSet(1..Len(copies')) /\ Dispatched(c)' \in SUBSET (1..Len(copies'))
  BY <1>2, FS_Interval DEF Dispatched
<1>4. IsFiniteSet(Dispatched(c)')
  BY <1>3, FS_Subset
<1>5. Cardinality(Dispatched(c)) <= Cardinality(Dispatched(c)')
  BY <1>1, <1>4, FS_Subset
<1>6. Cardinality(Dispatched(c)) \in Nat /\ Cardinality(Dispatched(c)') \in Nat
  BY <1>1, <1>4, FS_Subset, FS_CardinalityType
<1> QED BY <1>5, <1>6 DEF RunsAreCopies, TypeOK

(* One copy changes. *)
LEMMA OneChanges ==
  ASSUME TypeOK, NEW i \in DOMAIN copies, NEW x \in Copies,
         copies' = [copies EXCEPT ![i] = x],
         x.call = copies[i].call,
         copies[i].at \in {"running", "over"} => x.at \in {"running", "over"}
  PROVE  /\ Onwards(copies')
         /\ DOMAIN copies' = DOMAIN copies
         /\ copies'[i] = x
         /\ \A j \in DOMAIN copies \ {i} : copies'[j] = copies[j]
<1>1. copies \in Seq(Copies)
  BY DEF TypeOK
<1>2. copies' \in Seq(Copies) /\ DOMAIN copies' = DOMAIN copies
  BY <1>1
<1> QED BY <1>1, <1>2 DEF Onwards

(* New copies are queued. *)
LEMMA MoreAreAppended ==
  ASSUME TypeOK, NEW old \in Seq(Copies), NEW more \in Seq(Copies),
         copies' = old \o more, DOMAIN old = DOMAIN copies, Onwards(old)
  PROVE  /\ Onwards(copies')
         /\ \A i \in DOMAIN copies : copies'[i] = old[i]
         /\ \A n \in DOMAIN more : /\ Len(copies) + n \in DOMAIN copies'
                                   /\ copies'[Len(copies) + n] = more[n]
         /\ \A j \in DOMAIN copies' : j \in DOMAIN copies \/ \E n \in DOMAIN more : copies'[j] = more[n]
<1>1. /\ copies \in Seq(Copies) /\ Len(old) = Len(copies) /\ Len(copies) \in Nat /\ Len(more) \in Nat
      /\ copies' \in Seq(Copies) /\ Len(copies') = Len(old) + Len(more)
      /\ DOMAIN copies = 1..Len(copies) /\ DOMAIN more = 1..Len(more)
      /\ DOMAIN copies' = 1..(Len(copies) + Len(more))
  <2>1. copies \in Seq(Copies)
    BY DEF TypeOK
  <2>2. /\ Len(copies) \in Nat /\ DOMAIN copies = 1..Len(copies)
        /\ Len(old) \in Nat /\ DOMAIN old = 1..Len(old)
        /\ Len(more) \in Nat /\ DOMAIN more = 1..Len(more)
    BY <2>1
  <2>3. Len(old) = Len(copies)
    BY <2>2
  <2>4. copies' \in Seq(Copies) /\ Len(copies') = Len(old) + Len(more)
    OBVIOUS
  <2>5. DOMAIN copies' = 1..Len(copies')
    BY <2>4
  <2> QED BY <2>1, <2>2, <2>3, <2>4, <2>5
<1>2. \A i \in DOMAIN copies : copies'[i] = old[i]
  BY <1>1
<1>3. \A n \in DOMAIN more : /\ Len(copies) + n \in DOMAIN copies'
                             /\ copies'[Len(copies) + n] = more[n]
  BY <1>1
<1>4. \A j \in DOMAIN copies' : j \in DOMAIN copies \/ \E n \in DOMAIN more : copies'[j] = more[n]
  <2> SUFFICES ASSUME NEW j \in DOMAIN copies', j \notin DOMAIN copies
               PROVE  \E n \in DOMAIN more : copies'[j] = more[n]
    OBVIOUS
  <2>1. j - Len(copies) \in DOMAIN more /\ Len(copies) + (j - Len(copies)) = j
    BY <1>1
  <2> QED BY <2>1, <1>3
<1>5. Onwards(copies')
  BY <1>1, <1>2 DEF Onwards
<1> QED BY <1>2, <1>3, <1>4, <1>5

(* A request is still there when each of its copies that is in hand, was    *)
(* lost with its server or has expired is followed by one, or by a dispatch. *)
Evidence(i) == InHand(i) \/ Excused(i)

LEMMA EvidenceStays ==
  ASSUME NoRequestLost,
         \A c \in Calls : call'[c] # "new" => call[c] # "new",
         \A c \in Calls : runs[c] > 0 => runs'[c] > 0,
         \A i \in DOMAIN copies : Evidence(i) =>
           \/ runs'[copies[i].call] > 0
           \/ \E j \in DOMAIN copies' : copies'[j].call = copies[i].call /\ Evidence(j)'
  PROVE  NoRequestLost'
BY DEF NoRequestLost, CopiesOf, Evidence

-----------------------------------------------------------------------------
(* The client. *)

LEMMA InitIInv == Init => IInv
<1> SUFFICES ASSUME Init PROVE IInv
  OBVIOUS
<1>1. TypeOK
  BY DEF Init, TypeOK
<1>2. CacheIsOfRuns
  BY DEF Init, CacheIsOfRuns, Range
<1>3. CopiesAreInPlace /\ NoRequestLost
  BY DEF Init, CopiesAreInPlace, NoRequestLost
<1>4. \A c \in Calls : Dispatched(c) = {}
  BY DEF Init, Dispatched
<1>5. RunsAreCopies
  <2>1. \A c \in Calls : Cardinality(Dispatched(c)) = 0
    BY <1>4, FS_EmptySet
  <2>2. \A c \in Calls : runs[c] = 0
    BY DEF Init
  <2> QED BY <2>1, <2>2 DEF RunsAreCopies
<1> QED BY <1>1, <1>2, <1>3, <1>5 DEF IInv

LEMMA NewCopyType == ASSUME NEW c \in Calls
  PROVE /\ NewCopy(c) \in Copies /\ InPlace(NewCopy(c))
        /\ NewCopy(c).call = c /\ NewCopy(c).at = "queued" /\ ~NewCopy(c).held
BY DEF NewCopy, Copies, InPlace, Handled

LEMMA SameOnwards == ASSUME TypeOK PROVE Onwards(copies)
BY DEF TypeOK, Onwards

LEMMA SendIInv == ASSUME IInv, NEW c \in Calls, Send(c) PROVE IInv'
<1>1. PICK more \in {<<NewCopy(c)>>, <<NewCopy(c), NewCopy(c)>>} : copies' = copies \o more
  <2>1. copies \in Seq(Copies) /\ NewCopy(c) \in Copies
    BY NewCopyType DEF IInv, TypeOK
  <2>2. Append(copies, NewCopy(c)) = copies \o <<NewCopy(c)>>
    BY <2>1
  <2>3. \/ copies' = Append(copies, NewCopy(c))
        \/ copies' = copies \o <<NewCopy(c), NewCopy(c)>>
    BY DEF Send
  <2> QED BY <2>2, <2>3
<1>2. more \in Seq(Copies) /\ 1 \in DOMAIN more /\ \A n \in DOMAIN more : more[n] = NewCopy(c)
  BY <1>1, NewCopyType
<1>3. /\ Onwards(copies')
      /\ \A i \in DOMAIN copies : copies'[i] = copies[i] /\ i \in DOMAIN copies'
      /\ \E j \in DOMAIN copies' : copies'[j] = NewCopy(c)
      /\ \A j \in DOMAIN copies' : j \in DOMAIN copies \/ copies'[j] = NewCopy(c)
  <2>1. TypeOK /\ copies \in Seq(Copies) /\ Onwards(copies)
    BY SameOnwards DEF IInv, TypeOK
  <2>2. /\ Onwards(copies')
        /\ \A i \in DOMAIN copies : copies'[i] = copies[i]
        /\ \A n \in DOMAIN more : /\ Len(copies) + n \in DOMAIN copies'
                                  /\ copies'[Len(copies) + n] = more[n]
        /\ \A j \in DOMAIN copies' : j \in DOMAIN copies \/ \E n \in DOMAIN more : copies'[j] = more[n]
    BY <1>1, <1>2, <2>1, MoreAreAppended
  <2> QED BY <1>2, <2>2 DEF Onwards
<1>4. TypeOK'
  BY <1>3 DEF Send, Trouble, NoTrouble, IInv, TypeOK, Onwards
<1>5. CacheIsOfRuns'
  BY DEF Send, IInv, CacheIsOfRuns
<1>6. CopiesAreInPlace'
  BY <1>3, NewCopyType DEF IInv, CopiesAreInPlace
<1>7. RunsAreCopies'
  BY <1>3, OnwardsCounts DEF Send, IInv
<1>8. NoRequestLost'
  <2> SUFFICES ASSUME NEW x \in Calls, call'[x] # "new", ~(runs'[x] > 0)
               PROVE  \E j \in DOMAIN copies' : copies'[j].call = x /\ Evidence(j)'
    BY DEF NoRequestLost, CopiesOf, Evidence
  <2>1. CASE x = c
    BY <1>3, <2>1, NewCopyType DEF Evidence, InHand, Excused
  <2>2. CASE x # c
    <3>1. call[x] # "new" /\ ~(runs[x] > 0)
      BY <2>2 DEF Send, IInv, TypeOK
    <3>2. PICK i \in DOMAIN copies : copies[i].call = x /\ Evidence(i)
      BY <3>1 DEF IInv, NoRequestLost, CopiesOf, Evidence
    <3> QED BY <1>3, <3>2 DEF Send, Evidence, InHand, Excused
  <2> QED BY <2>1, <2>2
<1> QED BY <1>4, <1>5, <1>6, <1>7, <1>8 DEF IInv

(* What becomes of calls and replies touches none of the rest. *)
LEMMA ClientIInv ==
  ASSUME IInv,
         (\E c \in Calls : Timeout(c) \/ Deliver(c)) \/ LoseReplyQueue \/ Redeclare \/ ClientDies
  PROVE  IInv'
<1>1. UNCHANGED <<copies, server, cache, obsolete, runs>>
  BY DEF Timeout, Deliver, LoseReplyQueue, Redeclare, ClientDies
<1>2. TypeOK'
  <2>1. ASSUME NEW c \in Calls, Timeout(c) \/ Deliver(c) PROVE TypeOK'
    BY <2>1 DEF Timeout, Deliver, IInv, TypeOK
  <2>2. CASE LoseReplyQueue \/ Redeclare
    BY <2>2 DEF LoseReplyQueue, Redeclare, Trouble, IInv, TypeOK
  <2>3. CASE ClientDies
    <3>1. call' \in [Calls -> {"new", "waiting", "returned", "timedout", "dead"}]
      BY <2>3 DEF ClientDies, IInv, TypeOK
    <3> QED BY <2>3, <3>1 DEF ClientDies, Trouble, IInv, TypeOK
  <2> QED BY <2>1, <2>2, <2>3
<1>3. \A c \in Calls : call'[c] # "new" => call[c] # "new"
  BY DEF Timeout, Deliver, LoseReplyQueue, Redeclare, ClientDies, IInv, TypeOK
<1>4. CacheIsOfRuns' /\ CopiesAreInPlace'
  BY <1>1 DEF IInv, CacheIsOfRuns, CopiesAreInPlace
<1>5. RunsAreCopies'
  BY <1>1 DEF IInv, RunsAreCopies, Dispatched
<1>6. NoRequestLost'
  BY <1>1, <1>3 DEF IInv, NoRequestLost, CopiesOf, InHand, Excused
<1> QED BY <1>2, <1>4, <1>5, <1>6 DEF IInv

-----------------------------------------------------------------------------
(* One copy goes on, at the broker or at a server. *)

LEMMA ReceiveIInv == ASSUME IInv, NEW i \in DOMAIN copies, NEW s \in Servers, Receive(i, s) PROVE IInv'
<1> DEFINE x == IF Duplicate(s, copies[i].call) THEN [copies[i] EXCEPT !.at = "refused"]
                ELSE [copies[i] EXCEPT !.at = "incoming", !.server = s, !.held = TRUE]
<1>1. TypeOK /\ copies[i] \in Copies /\ copies[i].at = "queued"
  BY CopiesType DEF Receive, IInv, TypeOK
<1>2. /\ x \in Copies /\ x.call = copies[i].call
      /\ InPlace(x)
      /\ Duplicate(s, copies[i].call) \/ x.held
  BY <1>1 DEF Copies, Handled, Ended, IInv, CopiesAreInPlace, InPlace
<1>3. copies' = [copies EXCEPT ![i] = x]
  BY DEF Receive
<1> HIDE DEF x
<1>4. /\ Onwards(copies') /\ DOMAIN copies' = DOMAIN copies /\ copies'[i] = x
      /\ \A j \in DOMAIN copies \ {i} : copies'[j] = copies[j]
  BY <1>1, <1>2, <1>3, OneChanges
<1>5. TypeOK'
  BY <1>4 DEF Receive, client, IInv, TypeOK, Onwards
<1>6. CacheIsOfRuns'
  BY DEF Receive, IInv, CacheIsOfRuns
<1>7. CopiesAreInPlace'
  BY <1>2, <1>4 DEF IInv, CopiesAreInPlace
<1>8. RunsAreCopies'
  BY <1>4, OnwardsCounts DEF Receive, IInv
<1>9. NoRequestLost'
  <2>1. Duplicate(s, copies[i].call) => runs[copies[i].call] > 0
    BY DEF Duplicate, IInv, CacheIsOfRuns
  <2>2. \A j \in DOMAIN copies : Evidence(j) =>
          \/ runs'[copies[j].call] > 0
          \/ \E k \in DOMAIN copies' : copies'[k].call = copies[j].call /\ Evidence(k)'
    <3> SUFFICES ASSUME NEW j \in DOMAIN copies, Evidence(j)
                 PROVE  \/ runs'[copies[j].call] > 0
                        \/ copies'[j].call = copies[j].call /\ Evidence(j)'
      BY <1>4
    <3>1. CASE j = i
      BY <3>1, <2>1, <1>2, <1>4 DEF Receive, Evidence, InHand, Excused
    <3>2. CASE j # i
      BY <3>2, <1>4 DEF Receive, Evidence, InHand, Excused
    <3> QED BY <3>1, <3>2
  <2> QED BY <2>2, EvidenceStays DEF Receive, client, IInv
<1> QED BY <1>5, <1>6, <1>7, <1>8, <1>9 DEF IInv

LEMMA DiscardIInv == ASSUME IInv, NEW i \in DOMAIN copies, Discard(i) PROVE IInv'
<1> DEFINE x == [copies[i] EXCEPT !.at = "expired"]
<1>1. TypeOK /\ copies[i] \in Copies /\ copies[i].at = "queued" /\ copies[i].call \notin Casts
  BY CopiesType DEF Discard, IInv, TypeOK
<1>2. /\ x \in Copies /\ InPlace(x)
      /\ x.call = copies[i].call /\ x.at = "expired" /\ x.held = copies[i].held
  BY <1>1 DEF Copies, Ended, Handled, IInv, CopiesAreInPlace, InPlace
<1>3. copies' = [copies EXCEPT ![i] = x]
  BY DEF Discard
<1> HIDE DEF x
<1>4. /\ Onwards(copies') /\ DOMAIN copies' = DOMAIN copies /\ copies'[i] = x
      /\ \A j \in DOMAIN copies \ {i} : copies'[j] = copies[j]
  BY <1>1, <1>2, <1>3, OneChanges
<1>5. TypeOK'
  BY <1>4 DEF Discard, client, IInv, TypeOK, Onwards
<1>6. CacheIsOfRuns'
  BY DEF Discard, IInv, CacheIsOfRuns
<1>7. CopiesAreInPlace'
  BY <1>2, <1>4 DEF IInv, CopiesAreInPlace
<1>8. RunsAreCopies'
  BY <1>4, OnwardsCounts DEF Discard, IInv
<1>9. NoRequestLost'
  <2>1. \A j \in DOMAIN copies : Evidence(j) => copies'[j].call = copies[j].call /\ Evidence(j)'
    BY <1>1, <1>2, <1>4 DEF Discard, Evidence, InHand, Excused
  <2> QED BY <1>4, <2>1, EvidenceStays DEF Discard, client, IInv
<1> QED BY <1>5, <1>6, <1>7, <1>8, <1>9 DEF IInv

LEMMA SubmitIInv == ASSUME IInv, NEW i \in DOMAIN copies, Submit(i) PROVE IInv'
<1> DEFINE x == [copies[i] EXCEPT !.at = "acking"]
<1>1. TypeOK /\ copies[i] \in Copies /\ copies[i].at = "incoming"
  BY CopiesType DEF Submit, IInv, TypeOK
<1>2. /\ x \in Copies /\ InPlace(x)
      /\ x.call = copies[i].call /\ x.at = "acking" /\ x.held = copies[i].held
  BY <1>1 DEF Copies, Handled, IInv, CopiesAreInPlace, InPlace
<1>3. copies' = [copies EXCEPT ![i] = x]
  BY DEF Submit
<1> HIDE DEF x
<1>4. /\ Onwards(copies') /\ DOMAIN copies' = DOMAIN copies /\ copies'[i] = x
      /\ \A j \in DOMAIN copies \ {i} : copies'[j] = copies[j]
  BY <1>1, <1>2, <1>3, OneChanges
<1>5. TypeOK'
  BY <1>4 DEF Submit, client, IInv, TypeOK, Onwards
<1>6. CacheIsOfRuns'
  BY DEF Submit, IInv, CacheIsOfRuns
<1>7. CopiesAreInPlace'
  BY <1>2, <1>4 DEF IInv, CopiesAreInPlace
<1>8. RunsAreCopies'
  BY <1>4, OnwardsCounts DEF Submit, IInv
<1>9. NoRequestLost'
  <2>1. \A j \in DOMAIN copies : Evidence(j) => copies'[j].call = copies[j].call /\ Evidence(j)'
    BY <1>1, <1>2, <1>4 DEF Submit, Evidence, InHand, Excused
  <2> QED BY <1>4, <2>1, EvidenceStays DEF Submit, client, IInv
<1> QED BY <1>5, <1>6, <1>7, <1>8, <1>9 DEF IInv

LEMMA AcknowledgeIInv == ASSUME IInv, NEW i \in DOMAIN copies, Acknowledge(i) PROVE IInv'
<1> DEFINE x == [copies[i] EXCEPT !.at = "acked", !.held = FALSE]
           s == copies[i].server
<1>1. TypeOK /\ copies[i] \in Copies /\ copies[i].at = "acking" /\ server[s] \in Serving
  BY CopiesType DEF Acknowledge, IInv, TypeOK
<1>2. /\ x \in Copies /\ InPlace(x) /\ s \in Servers
      /\ x.call = copies[i].call /\ x.at = "acked" /\ ~x.held /\ x.server = s
  BY <1>1 DEF Copies, Handled, IInv, CopiesAreInPlace, InPlace
<1>3. copies' = [copies EXCEPT ![i] = x]
  BY DEF Acknowledge
<1>4. server' = server \/ server' = [server EXCEPT ![s] = "stranded"]
  BY DEF Acknowledge
<1>5. /\ server' \in [Servers -> {"up", "stopping", "drained", "stranded", "closed", "dead"}]
      /\ server'[s] \in Running
      /\ \A t : server[t] \in Running => server'[t] \in Running
  <2>1. CASE server' = server
    BY <2>1, <1>1 DEF IInv, TypeOK, Running
  <2>2. CASE server' = [server EXCEPT ![s] = "stranded"]
    BY <2>2, <1>1, <1>2 DEF IInv, TypeOK, Running
  <2> QED BY <1>4, <2>1, <2>2
<1> HIDE DEF x
<1>6. /\ Onwards(copies') /\ DOMAIN copies' = DOMAIN copies /\ copies'[i] = x
      /\ \A j \in DOMAIN copies \ {i} : copies'[j] = copies[j]
  BY <1>1, <1>2, <1>3, OneChanges
<1>7. TypeOK'
  BY <1>5, <1>6 DEF Acknowledge, client, IInv, TypeOK, Onwards
<1>8. CacheIsOfRuns'
  BY DEF Acknowledge, IInv, CacheIsOfRuns
<1>9. CopiesAreInPlace'
  BY <1>2, <1>6 DEF IInv, CopiesAreInPlace
<1>10. RunsAreCopies'
  BY <1>6, OnwardsCounts DEF Acknowledge, IInv
<1>11. NoRequestLost'
  <2>1. \A j \in DOMAIN copies : Evidence(j) => copies'[j].call = copies[j].call /\ Evidence(j)'
    BY <1>1, <1>2, <1>5, <1>6 DEF Evidence, InHand, Excused
  <2> QED BY <1>6, <2>1, EvidenceStays DEF Acknowledge, client, IInv
<1> QED BY <1>7, <1>8, <1>9, <1>10, <1>11 DEF IInv

LEMMA RememberType == ASSUME NEW q \in Seq(Calls), Len(q) <= CacheSize, NEW c \in Calls
  PROVE  /\ Remember(q, c) \in Seq(Calls) /\ Len(Remember(q, c)) <= CacheSize
         /\ Range(Remember(q, c)) \subseteq Range(q) \cup {c}
<1>1. CASE c \in Range(q)
  BY <1>1 DEF Remember
<1>2. CASE c \notin Range(q) /\ Len(q) = CacheSize
  <2>1. q # <<>> /\ Tail(q) \in Seq(Calls) /\ Len(Tail(q)) = Len(q) - 1
    BY <1>2
  <2>2. Range(Tail(q)) \subseteq Range(q)
    BY <2>1 DEF Range
  <2>3. /\ Append(Tail(q), c) \in Seq(Calls) /\ Len(Append(Tail(q), c)) = Len(q)
        /\ Range(Append(Tail(q), c)) \subseteq Range(Tail(q)) \cup {c}
    BY <2>1 DEF Range
  <2>4. Remember(q, c) = Append(Tail(q), c)
    BY <1>2 DEF Remember
  <2> QED BY <2>2, <2>3, <2>4
<1>3. CASE c \notin Range(q) /\ Len(q) # CacheSize
  <2>1. Remember(q, c) = Append(q, c)
    BY <1>3 DEF Remember
  <2>2. Append(q, c) \in Seq(Calls) /\ Len(Append(q, c)) = Len(q) + 1
    OBVIOUS
  <2>3. Range(Append(q, c)) \subseteq Range(q) \cup {c}
    BY DEF Range
  <2> QED BY <1>3, <2>1, <2>2, <2>3
<1> QED BY <1>1, <1>2, <1>3

LEMMA DispatchIInv == ASSUME IInv, NEW i \in DOMAIN copies, Dispatch(i) PROVE IInv'
<1> DEFINE x == [copies[i] EXCEPT !.at = "running"]
           s == copies[i].server
           c == copies[i].call
<1>1. TypeOK /\ copies[i] \in Copies /\ copies[i].at = "acked" /\ c \in Calls
  BY CopiesType DEF Dispatch, IInv, TypeOK, Copies
<1>2. /\ x \in Copies /\ InPlace(x) /\ s \in Servers
      /\ x.call = c /\ x.at = "running" /\ x.held = copies[i].held /\ ~x.held
  BY <1>1 DEF Copies, Handled, IInv, CopiesAreInPlace, InPlace
<1>3. /\ copies' = [copies EXCEPT ![i] = x]
      /\ runs' = [runs EXCEPT ![c] = @ + 1]
      /\ cache' = [cache EXCEPT ![s] = Remember(@, c)]
  BY DEF Dispatch
<1> HIDE DEF x
<1>4. /\ Onwards(copies') /\ DOMAIN copies' = DOMAIN copies /\ copies'[i] = x
      /\ \A j \in DOMAIN copies \ {i} : copies'[j] = copies[j]
  BY <1>1, <1>2, <1>3, OneChanges
<1>5. /\ runs' \in [Calls -> Nat] /\ runs'[c] = runs[c] + 1 /\ runs[c] \in Nat /\ runs'[c] > 0
      /\ \A d \in Calls \ {c} : runs'[d] = runs[d]
  BY <1>1, <1>3 DEF TypeOK
<1>6. /\ cache' \in [Servers -> Seq(Calls)]
      /\ \A t \in Servers : Len(cache'[t]) <= CacheSize /\ Range(cache'[t]) \subseteq Range(cache[t]) \cup {c}
  <2> SUFFICES ASSUME NEW t \in Servers
               PROVE  /\ cache'[t] \in Seq(Calls) /\ Len(cache'[t]) <= CacheSize
                      /\ Range(cache'[t]) \subseteq Range(cache[t]) \cup {c}
    BY <1>1, <1>3 DEF TypeOK
  <2>1. cache[t] \in Seq(Calls) /\ Len(cache[t]) <= CacheSize
    BY <1>1 DEF TypeOK
  <2>2. cache'[t] = cache[t] \/ cache'[t] = Remember(cache[t], c)
    BY <1>1, <1>3 DEF TypeOK
  <2> QED BY <1>1, <2>1, <2>2, RememberType
<1>7. TypeOK'
  BY <1>4, <1>5, <1>6 DEF Dispatch, client, IInv, TypeOK, Onwards
<1>8. CacheIsOfRuns'
  <2> SUFFICES ASSUME NEW t \in Servers, NEW d \in Range(cache'[t]) PROVE runs'[d] > 0
    BY DEF CacheIsOfRuns
  <2>1. CASE d = c
    BY <2>1, <1>1, <1>5 DEF TypeOK
  <2>2. CASE d # c
    <3>1. d \in Range(cache[t])
      BY <2>2, <1>6
    <3>2. cache[t] \in Seq(Calls)
      BY <1>1 DEF TypeOK
    <3>3. d \in Calls
      BY <3>1, <3>2 DEF Range
    <3> QED BY <2>2, <3>1, <3>3, <1>5 DEF IInv, CacheIsOfRuns
  <2> QED BY <2>1, <2>2
<1>9. CopiesAreInPlace'
  BY <1>2, <1>4 DEF IInv, CopiesAreInPlace
<1>10. RunsAreCopies'
  <2>1. Dispatched(c)' = Dispatched(c) \cup {i} /\ i \notin Dispatched(c)
    BY <1>1, <1>2, <1>4 DEF Dispatched
  <2>2. \A d \in Calls \ {c} : Dispatched(d)' = Dispatched(d)
    BY <1>1, <1>2, <1>4 DEF Dispatched
  <2>3. IsFiniteSet(Dispatched(c)) /\ Cardinality(Dispatched(c)) \in Nat
    BY <1>1, CopiesType, FS_CardinalityType DEF TypeOK
  <2>4. Cardinality(Dispatched(c)') = Cardinality(Dispatched(c)) + 1
    BY <2>1, <2>3, FS_AddElement
  <2>5. runs'[c] <= Cardinality(Dispatched(c)')
    <3>1. runs[c] <= Cardinality(Dispatched(c))
      BY <1>1 DEF IInv, RunsAreCopies
    <3> QED BY <3>1, <1>5, <2>3, <2>4
  <2> SUFFICES ASSUME NEW d \in Calls PROVE runs'[d] <= Cardinality(Dispatched(d)')
    BY DEF RunsAreCopies
  <2>6. CASE d = c
    <3>1. c' = c
      BY <1>2, <1>4
    <3>2. Dispatched(c)' = Dispatched(d)'
      BY <2>6, <3>1 DEF Dispatched
    <3> QED BY <2>5, <2>6, <3>2
  <2>7. CASE d # c
    BY <1>5, <2>2, <2>7 DEF IInv, RunsAreCopies
  <2> QED BY <2>6, <2>7
<1>11. NoRequestLost'
  <2>1. \A j \in DOMAIN copies : copies[j].call \in Calls
    BY CopiesType DEF IInv, TypeOK, Copies
  <2>2. \A j \in DOMAIN copies : Evidence(j) =>
          runs'[copies[j].call] > 0 \/ (copies'[j].call = copies[j].call /\ Evidence(j)')
    <3> SUFFICES ASSUME NEW j \in DOMAIN copies, Evidence(j)
                 PROVE runs'[copies[j].call] > 0 \/ (copies'[j].call = copies[j].call /\ Evidence(j)')
      OBVIOUS
    <3>1. CASE j = i
      BY <3>1, <1>5
    <3>2. CASE j # i
      BY <3>2, <1>4 DEF Dispatch, Evidence, InHand, Excused
    <3> QED BY <3>1, <3>2
  <2>3. \A d \in Calls : runs[d] > 0 => runs'[d] > 0
    BY <1>5
  <2> QED BY <1>4, <2>2, <2>3, EvidenceStays DEF Dispatch, client, IInv
<1> QED BY <1>7, <1>8, <1>9, <1>10, <1>11 DEF IInv

LEMMA FinishIInv == ASSUME IInv, NEW i \in DOMAIN copies, Reply(i) \/ Abandon(i) PROVE IInv'
<1> DEFINE x == [copies[i] EXCEPT !.at = "over"]
<1>1. TypeOK /\ copies[i] \in Copies /\ copies[i].at = "running"
  BY CopiesType DEF Reply, Abandon, IInv, TypeOK
<1>2. /\ x \in Copies /\ x.call = copies[i].call /\ x.at = "over"
      /\ ~x.held /\ ~copies[i].held /\ InPlace(x) /\ copies[i].server \in Servers
  BY <1>1 DEF Copies, Handled, Ended, IInv, CopiesAreInPlace, InPlace
<1>3. copies' = [copies EXCEPT ![i] = x]
  BY DEF Reply, Abandon, Finish
<1> HIDE DEF x
<1>4. /\ Onwards(copies') /\ DOMAIN copies' = DOMAIN copies /\ copies'[i] = x
      /\ \A j \in DOMAIN copies \ {i} : copies'[j] = copies[j]
  BY <1>1, <1>2, <1>3, OneChanges
<1>5. UNCHANGED <<call, replyq, server, cache, runs, troubles>>
  BY DEF Reply, Abandon, client
<1>6. TypeOK'
  <2>1. replies' \subseteq Calls \ Casts
    BY <1>1 DEF Reply, Abandon, client, TypeOK, Copies
  <2>2. obsolete' \subseteq Servers
    <3>1. CASE Reply(i)
      BY <3>1, <1>1 DEF Reply, TypeOK
    <3>2. CASE Abandon(i)
      BY <3>2, <1>1, <1>2 DEF Abandon, TypeOK
    <3> QED BY <3>1, <3>2
  <2> QED BY <1>1, <1>4, <1>5, <2>1, <2>2 DEF TypeOK, Onwards
<1>7. CacheIsOfRuns'
  BY <1>5 DEF IInv, CacheIsOfRuns
<1>8. CopiesAreInPlace'
  BY <1>2, <1>4 DEF IInv, CopiesAreInPlace
<1>9. RunsAreCopies'
  BY <1>4, <1>5, OnwardsCounts DEF IInv
<1>10. NoRequestLost'
  <2>1. \A j \in DOMAIN copies : Evidence(j) => copies'[j].call = copies[j].call /\ Evidence(j)'
    BY <1>1, <1>2, <1>4, <1>5 DEF Evidence, InHand, Excused
  <2> QED BY <1>4, <1>5, <2>1, EvidenceStays DEF IInv
<1> QED BY <1>6, <1>7, <1>8, <1>9, <1>10 DEF IInv

-----------------------------------------------------------------------------
(* Connections and servers. *)

LEMMA DropIInv == ASSUME IInv, NEW s \in Servers, Drop(s) PROVE IInv'
<1> DEFINE H == HeldBy(s)
           held == SetToSeq(H)
           old == [i \in DOMAIN copies |->
                     IF i \in H THEN [copies[i] EXCEPT !.held = FALSE] ELSE copies[i]]
           more == [n \in DOMAIN held |-> Requeue(copies[held[n]])]
<1>1. /\ TypeOK /\ copies \in Seq(Copies)
      /\ Len(copies) \in Nat /\ DOMAIN copies = 1..Len(copies)
      /\ \A i \in DOMAIN copies : copies[i] \in Copies
  BY CopiesType DEF IInv, TypeOK
<1>2. IsFiniteSet(H) /\ H \subseteq DOMAIN copies
  <2>1. H \in SUBSET (1..Len(copies)) /\ IsFiniteSet(1..Len(copies))
    BY <1>1, FS_Interval DEF HeldBy
  <2> QED BY <1>1, <2>1, FS_Subset
<1>3. PICK k \in Nat : /\ DOMAIN held = 1..k
                       /\ \A n \in 1..k : held[n] \in H
                       /\ \A i \in H : \E n \in 1..k : held[n] = i
  BY <1>2, Listing
<1>4. copies' = old \o more
  BY DEF Drop
<1>5. old \in Seq(Copies) /\ DOMAIN old = DOMAIN copies
  <2>1. \A i \in DOMAIN copies : old[i] \in Copies
    BY <1>1 DEF Copies
  <2> QED BY <1>1, <2>1
<1>6. \A i \in DOMAIN copies : /\ old[i].call = copies[i].call /\ old[i].at = copies[i].at
                               /\ old[i].server = copies[i].server
                               /\ old[i].held = (copies[i].held /\ i \notin H)
  BY <1>1 DEF Copies, HeldBy
<1>7. /\ more \in Seq(Copies) /\ DOMAIN more = 1..k
      /\ \A n \in 1..k : more[n] = NewCopy(copies[held[n]].call) /\ copies[held[n]].call \in Calls
  <2>1. DOMAIN more = 1..k
    BY <1>3
  <2>2. \A n \in 1..k : more[n] = NewCopy(copies[held[n]].call) /\ copies[held[n]].call \in Calls
    BY <1>1, <1>2, <1>3 DEF Requeue, Copies
  <2>3. \A n \in 1..k : more[n] \in Copies
    BY <2>2, NewCopyType
  <2>4. more \in [1..k -> Copies]
    BY <1>3, <2>3
  <2> QED BY <2>1, <2>2, <2>4
<1> HIDE DEF H, held, old, more
<1>8. Onwards(old)
  BY <1>5, <1>6 DEF Onwards
<1>9. /\ Onwards(copies')
      /\ \A i \in DOMAIN copies : copies'[i] = old[i] /\ i \in DOMAIN copies'
      /\ \A n \in DOMAIN more : /\ Len(copies) + n \in DOMAIN copies'
                                /\ copies'[Len(copies) + n] = more[n]
      /\ \A j \in DOMAIN copies' : j \in DOMAIN copies \/ \E n \in DOMAIN more : copies'[j] = more[n]
  BY <1>1, <1>4, <1>5, <1>7, <1>8, MoreAreAppended DEF Onwards
<1>10. TypeOK'
  BY <1>9 DEF Drop, client, Trouble, IInv, TypeOK, Onwards
<1>11. CacheIsOfRuns'
  BY DEF Drop, IInv, CacheIsOfRuns
<1>12. CopiesAreInPlace'
  <2> SUFFICES ASSUME NEW j \in DOMAIN copies' PROVE InPlace(copies'[j])
    BY DEF CopiesAreInPlace
  <2>1. CASE j \in DOMAIN copies
    BY <2>1, <1>6, <1>9 DEF IInv, CopiesAreInPlace, InPlace
  <2>2. CASE j \notin DOMAIN copies
    BY <2>2, <1>7, <1>9, NewCopyType
  <2> QED BY <2>1, <2>2
<1>13. RunsAreCopies'
  BY <1>9, OnwardsCounts DEF Drop, IInv
<1>14. NoRequestLost'
  <2>1. ASSUME NEW i \in DOMAIN copies, Evidence(i)
        PROVE  \E j \in DOMAIN copies' : copies'[j].call = copies[i].call /\ Evidence(j)'
    <3>1. CASE i \in H
      <4>1. PICK n \in 1..k : held[n] = i
        BY <3>1, <1>3
      <4>2. /\ Len(copies) + n \in DOMAIN copies'
            /\ copies'[Len(copies) + n] = NewCopy(copies[i].call) /\ copies[i].call \in Calls
        BY <4>1, <1>7, <1>9
      <4> QED BY <4>2, NewCopyType DEF Evidence, InHand, Excused
    <3>2. CASE i \notin H
      BY <3>2, <2>1, <1>6, <1>9 DEF Drop, Evidence, InHand, Excused
    <3> QED BY <3>1, <3>2
  <2> QED BY <2>1, EvidenceStays DEF Drop, client, IInv
<1> QED BY <1>10, <1>11, <1>12, <1>13, <1>14 DEF IInv

(* A server is stopped, or forgets an obsolete queue: the copies stay, and what *)
(* it acknowledged is dispatched before it closes.                              *)
LEMMA ServerIInv ==
  ASSUME IInv, NEW s \in Servers, Expire(s) \/ Stop(s) \/ Drain(s) \/ Close(s)
  PROVE  IInv'
<1>1. UNCHANGED <<call, copies, cache, runs>>
  BY DEF Expire, Stop, Drain, Close, client
<1>2. TypeOK'
  <2>1. CASE Expire(s)
    BY <2>1 DEF Expire, client, IInv, TypeOK
  <2>2. CASE Stop(s) \/ Drain(s) \/ Close(s)
    BY <2>2 DEF Stop, Drain, Close, client, IInv, TypeOK
  <2> QED BY <2>1, <2>2
<1>3. CacheIsOfRuns' /\ CopiesAreInPlace'
  BY <1>1 DEF IInv, CacheIsOfRuns, CopiesAreInPlace
<1>4. RunsAreCopies'
  BY <1>1 DEF IInv, RunsAreCopies, Dispatched
<1>5. \A i \in DOMAIN copies : copies[i].at = "acked" /\ server[copies[i].server] \in Running =>
         server'[copies[i].server] \in Running
  <2> SUFFICES ASSUME NEW i \in DOMAIN copies, copies[i].at = "acked",
                      server[copies[i].server] \in Running
               PROVE  server'[copies[i].server] \in Running
    OBVIOUS
  <2>1. copies[i].server \in Servers /\ server \in [Servers -> {"up", "stopping", "drained", "stranded", "closed", "dead"}]
    BY DEF IInv, TypeOK, CopiesAreInPlace, InPlace, Handled
  <2>2. CASE Expire(s)
    BY <2>2 DEF Expire
  <2>3. CASE Stop(s) \/ Drain(s)
    BY <2>1, <2>3 DEF Stop, Drain, Running, Serving, Polling
  <2>4. CASE Close(s)
    <3>1. copies[i].server # s
      BY <2>4 DEF Close, At, Handled
    <3> QED BY <2>1, <2>4, <3>1 DEF Close
  <2> QED BY <2>2, <2>3, <2>4
<1>6. NoRequestLost'
  <2>1. \A i \in DOMAIN copies : Evidence(i) => copies'[i].call = copies[i].call /\ Evidence(i)'
    BY <1>1, <1>5 DEF Evidence, InHand, Excused
  <2> QED BY <1>1, <2>1, EvidenceStays DEF IInv
<1> QED BY <1>2, <1>3, <1>4, <1>6 DEF IInv

LEMMA DieIInv == ASSUME IInv, NEW s \in Servers, Die(s) PROVE IInv'
<1> DEFINE Stays(copy) == copy.server # s \/ copy.at \in Ended
           Left(copy) == [copy EXCEPT !.at = IF copy.at = "acked" THEN "lost" ELSE "over"]
<1>1. /\ TypeOK /\ copies \in Seq(Copies)
      /\ Len(copies) \in Nat /\ DOMAIN copies = 1..Len(copies)
      /\ \A i \in DOMAIN copies : copies[i] \in Copies
  BY CopiesType DEF IInv, TypeOK
<1>2. copies' = [i \in DOMAIN copies |->
                   IF Stays(copies[i]) THEN copies[i]
                   ELSE IF copies[i].held THEN Requeue(copies[i]) ELSE Left(copies[i])]
  BY DEF Die
<1>3. ASSUME NEW i \in DOMAIN copies
      PROVE  /\ copies'[i] \in Copies /\ copies'[i].call = copies[i].call
             /\ copies[i].at \in {"running", "over"} => copies'[i].at \in {"running", "over"}
             /\ InPlace(copies'[i])
             /\ Evidence(i) => Evidence(i)'
  <2>1. copies[i] \in Copies /\ InPlace(copies[i])
    BY <1>1 DEF IInv, CopiesAreInPlace
  <2>2. CASE Stays(copies[i])
    <3>1. copies'[i] = copies[i]
      BY <1>2, <2>2
    <3>2. Evidence(i) => Evidence(i)'
      <4>1. CASE copies[i].server # s
        <5>1. server'[copies[i].server] = server[copies[i].server] \/ copies[i].at # "acked"
          BY <2>1, <4>1 DEF Die, IInv, TypeOK, InPlace, Handled
        <5> QED BY <3>1, <5>1 DEF Evidence, InHand, Excused
      <4>2. CASE copies[i].at \in Ended
        BY <3>1, <4>2 DEF Evidence, InHand, Excused, Ended
      <4> QED BY <2>2, <4>1, <4>2
    <3> QED BY <2>1, <3>1, <3>2
  <2>3. CASE ~Stays(copies[i]) /\ copies[i].held
    <3>1. copies'[i] = NewCopy(copies[i].call) /\ copies[i].call \in Calls
      BY <1>2, <2>1, <2>3 DEF Requeue, Copies
    <3> QED BY <2>1, <2>3, <3>1, NewCopyType DEF InPlace, Evidence, InHand, Excused
  <2>4. CASE ~Stays(copies[i]) /\ ~copies[i].held
    <3>1. copies'[i] = Left(copies[i])
      BY <1>2, <2>4
    <3>2. /\ Left(copies[i]) \in Copies /\ Left(copies[i]).call = copies[i].call
          /\ Left(copies[i]).at = (IF copies[i].at = "acked" THEN "lost" ELSE "over")
          /\ ~Left(copies[i]).held
      BY <2>1, <2>4 DEF Copies, Ended
    <3>3. copies[i].at # "queued"
      BY <2>1, <2>4 DEF InPlace
    <3>4. Left(copies[i]).at # "queued" /\ InPlace(Left(copies[i]))
      BY <3>2 DEF InPlace, Handled
    <3>5. Evidence(i) => Evidence(i)'
      BY <2>4, <3>1, <3>2, <3>3 DEF Evidence, InHand, Excused, Ended
    <3> QED BY <2>4, <3>1, <3>2, <3>4, <3>5 DEF Ended
  <2> QED BY <2>2, <2>3, <2>4
<1>4. copies' \in Seq(Copies) /\ DOMAIN copies' = DOMAIN copies
  <2>1. DOMAIN copies' = 1..Len(copies) /\ copies' = [i \in 1..Len(copies) |-> copies'[i]]
    BY <1>1, <1>2
  <2>2. \A i \in 1..Len(copies) : copies'[i] \in Copies
    BY <1>1, <1>3
  <2>3. copies' \in [1..Len(copies) -> Copies]
    BY <2>1, <2>2
  <2> QED BY <1>1, <2>1, <2>3
<1>5. TypeOK'
  BY <1>4 DEF Die, client, Trouble, IInv, TypeOK
<1>6. CacheIsOfRuns'
  BY DEF Die, IInv, CacheIsOfRuns
<1>7. CopiesAreInPlace'
  BY <1>3, <1>4 DEF CopiesAreInPlace
<1>8. RunsAreCopies'
  <2>1. Onwards(copies')
    BY <1>3, <1>4 DEF Onwards
  <2> QED BY <2>1, OnwardsCounts DEF Die, IInv
<1>9. NoRequestLost'
  BY <1>3, <1>4, EvidenceStays DEF Die, client, IInv
<1> QED BY <1>5, <1>6, <1>7, <1>8, <1>9 DEF IInv

-----------------------------------------------------------------------------
(* The whole system. *)

LEMMA NextIInv == ASSUME IInv, [Next]_vars PROVE IInv'
<1>1. ASSUME NEW c \in Calls, Send(c) PROVE IInv'
  BY <1>1, SendIInv
<1>2. ASSUME NEW c \in Calls, Timeout(c) \/ Deliver(c) PROVE IInv'
  BY <1>2, ClientIInv
<1>3. CASE LoseReplyQueue \/ Redeclare \/ ClientDies
  BY <1>3, ClientIInv
<1>4. ASSUME NEW i \in DOMAIN copies, Step(i) PROVE IInv'
  BY <1>4, ReceiveIInv, SubmitIInv, AcknowledgeIInv, DispatchIInv, FinishIInv DEF Step
<1>d. ASSUME NEW i \in DOMAIN copies, Discard(i) PROVE IInv'
  BY <1>d, DiscardIInv
<1>5. ASSUME NEW s \in Servers, Drop(s) PROVE IInv'
  BY <1>5, DropIInv
<1>6. ASSUME NEW s \in Servers, Expire(s) \/ Stop(s) \/ Drain(s) \/ Close(s) PROVE IInv'
  BY <1>6, ServerIInv
<1>7. ASSUME NEW s \in Servers, Die(s) PROVE IInv'
  BY <1>7, DieIInv
<1>8. CASE UNCHANGED vars
  <2>1. TypeOK' /\ CacheIsOfRuns' /\ CopiesAreInPlace'
    BY <1>8 DEF vars, client, IInv, TypeOK, CacheIsOfRuns, CopiesAreInPlace
  <2>2. RunsAreCopies' /\ NoRequestLost'
    BY <1>8 DEF vars, client, IInv, RunsAreCopies, Dispatched, NoRequestLost, CopiesOf, InHand, Excused
  <2> QED BY <2>1, <2>2 DEF IInv
<1> QED BY <1>1, <1>2, <1>3, <1>4, <1>d, <1>5, <1>6, <1>7, <1>8 DEF Next

LEMMA Inductive == Spec => []IInv
<1>1. IInv /\ [Next]_vars => IInv'
  BY NextIInv
<1> QED BY InitIInv, <1>1, PTL DEF Spec

(* The state of client, broker and servers keeps its shape: in particular no     *)
(* listener's msg_id_cache grows beyond DUP_MSG_CHECK_SIZE, and no cast is ever  *)
(* answered (AMQPIncomingMessage.reply returns early without a msg_id).          *)
THEOREM TypeCorrect == Spec => []TypeOK
<1>1. IInv => TypeOK
  BY DEF IInv
<1> QED BY <1>1, Inductive, PTL

(* For any number of servers, requests, lost connections, repeated publications  *)
(* and deaths, a request disappears between the broker and the thread that       *)
(* dispatches it in two ways only: at a server that died after the               *)
(* acknowledgement, or as a call whose expiration passed in the queue            *)
(* (AMQPListener.__call__, Connection._publish, RPCServer._process_incoming).    *)
THEOREM NothingLost == Spec => []NoRequestLost
<1>1. IInv => NoRequestLost
  BY DEF IInv
<1> QED BY <1>1, Inductive, PTL

(* A request is dispatched at most once for each time the broker had to make a   *)
(* copy of it: dispatches need copies of their own (RPCServer acknowledges       *)
(* before it dispatches).                                                        *)
THEOREM DispatchedAtMostOnce == Spec => []AtMostOnce
<1>1. IInv => AtMostOnce
  <2> SUFFICES ASSUME IInv, NEW c \in Calls PROVE runs[c] <= Cardinality(CopiesOf(c))
    BY DEF AtMostOnce
  <2>1. Len(copies) \in Nat /\ DOMAIN copies = 1..Len(copies)
    BY CopiesType DEF IInv, TypeOK
  <2>2. IsFiniteSet(1..Len(copies)) /\ CopiesOf(c) \in SUBSET (1..Len(copies))
    BY <2>1, FS_Interval DEF CopiesOf
  <2>3. IsFiniteSet(CopiesOf(c))
    BY <2>2, FS_Subset
  <2>4. Dispatched(c) \subseteq CopiesOf(c)
    BY DEF Dispatched, CopiesOf
  <2>5. Cardinality(Dispatched(c)) <= Cardinality(CopiesOf(c))
    BY <2>3, <2>4, FS_Subset
  <2>6. Cardinality(Dispatched(c)) \in Nat /\ Cardinality(CopiesOf(c)) \in Nat
    BY <2>3, <2>4, FS_Subset, FS_CardinalityType
  <2>7. runs[c] \in Nat /\ runs[c] <= Cardinality(Dispatched(c))
    BY DEF IInv, TypeOK, RunsAreCopies
  <2> QED BY <2>5, <2>6, <2>7
<1> QED BY <1>1, Inductive, PTL
=============================================================================
