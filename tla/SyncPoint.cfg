CONSTANTS
  Keys <- MCKeys
  Predecessors <- MCPredecessors
  Calls <- MCCalls
  KeyOf <- MCKeyOf
  NoCall = NoCall
  Mortal = {"from_p", "from_q", "again"}
SPECIFICATION Spec
INVARIANTS TypeOK VersionGuardsData NoLostArrival NotifierIsComplete OnePredecessorNotifies
PROPERTIES CompleteIsPropagated EveryCallEnds ImplementsRendezvous
CHECK_DEADLOCK FALSE
