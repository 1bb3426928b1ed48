-------------------------------- MODULE MCLpcPort ------------------------------
(***************************************************************************)
(* TLC instances of LpcPort.  A behaviour is one of four kinds:               *)
(*   Apart    two clients, accepted or refused, who close when they are idle  *)
(*   Shared   two threads on one connection, closed from either side at any   *)
(*            time, and accepts that fail                                     *)
(*   Copies   receivers' buffers may be bad, nobody closes                    *)
(*   Open     nobody closes; fair                                             *)
(***************************************************************************)
EXTENDS Naturals, Sequences, FiniteSets

CONSTANTS c1, c2

VARIABLES kind, state, other, queue, connects, sem, refs, handle, th, sent
ports == <<state, other, queue, connects, sem, refs, handle, th, sent>>
vars == <<kind, ports>>

Apart == INSTANCE LpcPort WITH
  Connections <- {c1, c2}, PerPort <- 1, Calls <- 1, Closes <- TRUE, Early <- FALSE,
  ServerCloses <- FALSE, Refuses <- TRUE, MapFails <- FALSE, CopyFails <- FALSE
Shared == INSTANCE LpcPort WITH
  Connections <- {c1}, PerPort <- 2, Calls <- 2, Closes <- TRUE, Early <- TRUE,
  ServerCloses <- TRUE, Refuses <- FALSE, MapFails <- TRUE, CopyFails <- FALSE
Copies == INSTANCE LpcPort WITH
  Connections <- {c1, c2}, PerPort <- 1, Calls <- 2, Closes <- FALSE, Early <- FALSE,
  ServerCloses <- FALSE, Refuses <- FALSE, MapFails <- FALSE, CopyFails <- TRUE
Open == INSTANCE LpcPort WITH
  Connections <- {c1, c2}, PerPort <- 1, Calls <- 2, Closes <- FALSE, Early <- FALSE,
  ServerCloses <- FALSE, Refuses <- FALSE, MapFails <- FALSE, CopyFails <- FALSE

ASSUME PortsAssumption ==
  Apart!LpcAssumption /\ Shared!LpcAssumption /\ Copies!LpcAssumption /\ Open!LpcAssumption

Init ==
  \/ kind = "Apart" /\ Apart!Init
  \/ kind = "Shared" /\ Shared!Init
  \/ kind = "Copies" /\ Copies!Init
  \/ kind = "Open" /\ Open!Init

Next ==
  /\ UNCHANGED kind
  /\ \/ kind = "Apart" /\ Apart!Next
     \/ kind = "Shared" /\ Shared!Next
     \/ kind = "Copies" /\ Copies!Next
     \/ kind = "Open" /\ Open!Next

Spec == Init /\ [][Next]_vars

\* As Fairness of LpcPort, for the behaviours of kind Open.
FairSpec ==
  /\ Spec
  /\ \A t \in Open!Threads : WF_vars(kind = "Open" /\ Open!Runs(t) /\ UNCHANGED kind)
  /\ \A t \in Open!Threads \ Open!Callers :
       WF_vars(kind = "Open" /\ Open!Serves(t) /\ UNCHANGED kind)
-------------------------------------------------------------------------------
\* The properties of LpcPort.

\* A message in a queue has a count, as long as no receiver fails to copy it, and
\* messages do not overtake each other; a caller gets the reply to its own request, where
\* threads do not share a port, and a connected client has a connected server, where that
\* does not close first.
MessagesMatch ==
  /\ kind = "Apart" => /\ Apart!TypeOK /\ Apart!CountsMessages /\ Apart!InOrder
                       /\ Apart!RepliesMatch /\ Apart!ConnectedHasPeer
  /\ kind = "Shared" => Shared!TypeOK /\ Shared!CountsMessages /\ Shared!InOrder
  /\ kind = "Copies" => Copies!TypeOK /\ Copies!RepliesMatch

\* Who waits for the answer to a connection request or for a reply gets it, if nobody
\* closes.
CallsReturn ==
  \A t \in Open!Callers :
    kind = "Open" /\ th[t].at \in {"ConnectWait", "Wait"} ~>
      (kind = "Open" => th[t].at \notin {"ConnectWait", "Wait"})
===============================================================================
