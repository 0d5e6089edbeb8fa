------------------------------- MODULE MCL3Agent -------------------------------
(* Instances of L3Agent.  Only the order of the stamps matters, and how far they *)
(* are ahead of a clock that was set back: states are told apart by the rank of  *)
(* each stamp among those still remembered, and by that distance.                *)
EXTENDS L3Agent

Remembered ==
  {stamp[r] : r \in Routers}
  \cup {u.timestamp : u \in BagToSet(queue) \cup UNION {Range(backlog[r]) : r \in Routers}}
  \cup {work[w].update.timestamp : w \in {v \in Workers : work[v] # Idle}}
  \cup (IF sync = NoSync THEN {} ELSE {sync.timestamp})

Ranked(S) ==
  LET ahead(t) == IF t > clock THEN t - clock ELSE 0
      rank == [t \in S |-> <<Cardinality({s \in S : s < t}), ahead(t)>>]
      u(x) == [x EXCEPT !.timestamp = rank[x.timestamp]] IN
  <<[r \in Routers |-> rank[stamp[r]]],
    {<<u(x), CopiesIn(x, queue)>> : x \in BagToSet(queue)},
    [r \in Routers |-> [i \in DOMAIN backlog[r] |-> u(backlog[r][i])]],
    [w \in Workers |-> IF work[w] = Idle THEN Idle ELSE [work[w] EXCEPT !.update = u(@)]],
    IF sync = NoSync THEN NoSync ELSE u(sync)>>

View == <<server, fullsync, master, known, host, clean, troubles, history, Ranked(Remembered)>>
=============================================================================
