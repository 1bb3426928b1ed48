-------------------------------- MODULE LpcPort --------------------------------
(***************************************************************************)
(* Local procedure calls (ntoskrnl/lpc): a named port with one listener, the   *)
(* connections made to it, and the requests, datagrams and replies that go     *)
(* over a connection until one of its two ports is closed.                     *)
(*                                                                         *)
(* A message is put in a port's queue under the port's lock; its count in the  *)
(* port's semaphore follows as a step of its own, and the pointer to the other *)
(* port is read again for it.  The state of a port and its pointer are read    *)
(* and written without a lock.  Every such access is a step.                   *)
(***************************************************************************)
EXTENDS Naturals, Sequences, FiniteSets

CONSTANTS
  Connections,   \* what clients ask for
  PerPort,       \* threads of the client that share a communication port
  Calls,         \* bound: requests and datagrams of each of them
  Closes,        \* clients close their handle
  Early,         \* while another of their threads is in a call
  ServerCloses,  \* servers close theirs before the client does
  Refuses,       \* the listener may refuse
  MapFails,      \* NtAcceptConnectPort may fail to map a section
  CopyFails      \* the receiver's buffer may be bad

\* What the constants must satisfy; assumed by the module that fixes them.
LpcAssumption ==
  /\ PerPort \in Nat \ {0} /\ Calls \in Nat
  /\ {Closes, Early, ServerCloses, Refuses, MapFails, CopyFails} \subseteq BOOLEAN

Named == <<"Named">>
Client(c) == <<"Client", c>>
Server(c) == <<"Server", c>>
Comm == {Client(c) : c \in Connections} \union {Server(c) : c \in Connections}
Ports == Comm \union {Named}

Callers == Connections \X (1 .. PerPort)
Servers == Connections \X {0}
Listener == <<"Listener">>
Threads == Callers \union Servers \union {Listener}

None == <<>>
Own(t) == IF t = Listener THEN Named ELSE IF t[2] = 0 THEN Server(t[1]) ELSE Client(t[1])

VARIABLES
  state, other,  \* State and OtherPort
  queue, connects, \* QueueListHead, and ConnectQueueListHead of the named port
  sem,           \* the count of the semaphore
  refs,          \* of the object; 0: not created, or freed
  handle,        \* a handle of it is open
  th,            \* what each thread does: place, port captured, message held
  sent           \* calls made by each caller
vars == <<state, other, queue, connects, sem, refs, handle, th, sent>>

\* A message: its type, the port it was sent from, the call it belongs to.
Message(type, from, call) == [type |-> type, from |-> from, call |-> call]
Calls_ == Callers \X (0 .. Calls)
Types == {"ConnectionRequest", "Refused", "Reply", "Request", "Datagram", "PortClosed"}
Messages == [type : Types, from : Ports, call : Calls_]

Goto(t, at) == th' = [th EXCEPT ![t].at = at]
Call(t) == <<t, sent[t]>>
ConnectCall(c) == <<<<c, 1>>, 0>>

\* The pointers thread t follows in its next step.
Uses(t) ==
  LET at == th[t].at IN
  CASE at \in {"ConnectWait", "ConnectDequeue", "ConnectState", "ConnectInsert", "Refused"} -> {Own(t)}
    [] at \in {"Call", "Release", "CloseCall", "CloseOther", "CloseState", "CloseRelease",
               "CloseDeref"} -> {other[Own(t)]}
    [] at \in {"Enqueue", "ReleaseTo", "CloseEnqueue", "Link", "AcceptEnqueue", "RefuseEnqueue",
               "RefuseRelease", "RefuseDeref"} -> {th[t].to}
    [] at = "CompleteRelease" -> {other[th[t].to]}
    [] OTHER -> {}
Bad(p) == p \in Ports => refs[p] = 0
Bugcheck == \E t \in Threads : th[t].at \in {"Null", "Freed"}

\* KEBUGCHECK in EiReplyOrRequestPort, or a fault.
Crash(t) ==
  /\ \E p \in Uses(t) : Bad(p)
  /\ Goto(t, IF None \in Uses(t) THEN "Null" ELSE "Freed")
  /\ UNCHANGED <<state, other, queue, connects, sem, refs, handle, sent>>
-------------------------------------------------------------------------------
(* Queues *)

EiEnqueueMessagePort(p, m) == queue' = [queue EXCEPT ![p] = Append(@, m)]

\* Mutated: the message is left in the queue.
PeekMessagePort(p) == UNCHANGED queue

EiDequeueMessagePort(p) == queue' = [queue EXCEPT ![p] = Tail(@)]

KeReleaseSemaphore(p) == sem' = [sem EXCEPT ![p] = @ + 1]
-------------------------------------------------------------------------------
(* A client connects *)

\* The port is made (LpcpInitializePort: as it is in Init) and the request put in the named port's queue.
EiConnectPort(t) ==
  LET c == t[1] IN
  /\ th[t].at = "Start" /\ t[2] = 1
  /\ refs' = [refs EXCEPT ![Client(c)] = 1]
  /\ EiEnqueueMessagePort(Named, Message("ConnectionRequest", Client(c), ConnectCall(c)))
  /\ Goto(t, "ConnectRelease")
  /\ UNCHANGED <<state, other, connects, sem, handle, sent>>

ConnectRelease(t) ==
  /\ th[t].at = "ConnectRelease"
  /\ KeReleaseSemaphore(Named) /\ Goto(t, "ConnectWait")
  /\ UNCHANGED <<state, other, queue, connects, refs, handle, sent>>

ConnectWait(t) ==
  /\ th[t].at = "ConnectWait" /\ sem[Own(t)] > 0
  /\ sem' = [sem EXCEPT ![Own(t)] = @ - 1] /\ Goto(t, "ConnectDequeue")
  /\ UNCHANGED <<state, other, queue, connects, refs, handle, sent>>

ConnectDequeue(t) ==
  /\ th[t].at = "ConnectDequeue"
  /\ EiDequeueMessagePort(Own(t))
  /\ Goto(t, IF Head(queue[Own(t)]).type = "Refused" THEN "Refused" ELSE "ConnectState")
  /\ UNCHANGED <<state, other, connects, sem, refs, handle, sent>>

ConnectRefused(t) ==
  /\ th[t].at = "Refused"
  /\ refs' = [refs EXCEPT ![Own(t)] = @ - 1] /\ Goto(t, "Out")
  /\ UNCHANGED <<state, other, queue, connects, sem, handle, sent>>

ConnectState(t) ==
  /\ th[t].at = "ConnectState"
  /\ state' = [state EXCEPT ![Own(t)] = "ConnectedClient"] /\ Goto(t, "ConnectInsert")
  /\ UNCHANGED <<other, queue, connects, sem, refs, handle, sent>>

\* ObInsertObject in NtConnectPort; the other threads of the client may use it now.
ConnectInsert(t) ==
  /\ th[t].at = "ConnectInsert"
  /\ refs' = [refs EXCEPT ![Own(t)] = @ + 1]
  /\ handle' = handle \union {Own(t)}
  /\ th' = [u \in Threads |-> IF u \in Callers /\ u[1] = t[1] THEN [th[u] EXCEPT !.at = "Idle"] ELSE th[u]]
  /\ UNCHANGED <<state, other, queue, connects, sem, sent>>
-------------------------------------------------------------------------------
(* The listener *)

Link(t) ==
  LET client == th[t].to
      server == Server(client[2])
  IN
  /\ th[t].at = "Link"
  /\ other' = [other EXCEPT ![server] = client, ![client] = server]
  /\ Goto(t, "AcceptEnqueue")
  /\ UNCHANGED <<state, queue, connects, sem, refs, handle, sent>>

\* NtAcceptConnectPort makes the server's port and its handle, and takes the oldest
\* request of the connection queue.
NtAcceptConnectPort(t) ==
  LET c == Head(connects).from[2] IN
  /\ th[t].at = "Decide"
  /\ refs' = [refs EXCEPT ![Server(c)] = 2] /\ handle' = handle \union {Server(c)}
  /\ connects' = Tail(connects)
  /\ th' = [th EXCEPT ![t] = [at |-> "Link", to |-> Client(c), msg |-> None]]
  /\ UNCHANGED <<state, other, queue, sem, sent>>

\* A section cannot be mapped: it returns at once.
AcceptFails(t) ==
  /\ MapFails /\ th[t].at = "Link"
  /\ th' = [th EXCEPT ![t] = [at |-> "Idle", to |-> None, msg |-> None]]
  /\ UNCHANGED <<state, other, queue, connects, sem, refs, handle, sent>>

\* The answer is queued without a count: NtCompleteConnectPort adds it.
AcceptEnqueue(t) ==
  LET c == th[t].to[2] IN
  /\ th[t].at = "AcceptEnqueue"
  /\ EiEnqueueMessagePort(th[t].to, Message("Reply", Server(c), ConnectCall(c)))
  /\ refs' = [refs EXCEPT ![Server(c)] = @ - 1]
  /\ th' = [th EXCEPT ![t].at = "Complete", ![t].to = Server(c)]
  /\ UNCHANGED <<state, other, connects, sem, handle, sent>>

NtCompleteConnectPort(t) ==
  /\ th[t].at = "Complete"
  /\ state' = [state EXCEPT ![th[t].to] = "ConnectedServer"]
  /\ Goto(t, "CompleteRelease")
  /\ UNCHANGED <<other, queue, connects, sem, refs, handle, sent>>

\* The client wakes up; the server has a thread for the connection.
CompleteRelease(t) ==
  /\ th[t].at = "CompleteRelease"
  /\ KeReleaseSemaphore(other[th[t].to])
  /\ th' = [th EXCEPT ![t] = [at |-> "Idle", to |-> None, msg |-> None], ![<<th[t].to[2], 0>>].at = "Idle"]
  /\ UNCHANGED <<state, other, queue, connects, refs, handle, sent>>

RefuseConnectPort(t) ==
  /\ Refuses /\ th[t].at = "Decide"
  /\ connects' = Tail(connects)
  /\ th' = [th EXCEPT ![t] = [at |-> "RefuseEnqueue", to |-> Head(connects).from, msg |-> None]]
  /\ UNCHANGED <<state, other, queue, sem, refs, handle, sent>>

RefuseEnqueue(t) ==
  /\ th[t].at = "RefuseEnqueue"
  /\ EiEnqueueMessagePort(th[t].to, Message("Refused", Named, ConnectCall(th[t].to[2])))
  /\ Goto(t, "RefuseRelease")
  /\ UNCHANGED <<state, other, connects, sem, refs, handle, sent>>

RefuseRelease(t) ==
  /\ th[t].at = "RefuseRelease"
  /\ KeReleaseSemaphore(th[t].to) /\ Goto(t, "RefuseDeref")
  /\ UNCHANGED <<state, other, queue, connects, refs, handle, sent>>

RefuseDeref(t) ==
  /\ th[t].at = "RefuseDeref"
  /\ refs' = [refs EXCEPT ![th[t].to] = @ - 1]
  /\ th' = [th EXCEPT ![t] = [at |-> "Idle", to |-> None, msg |-> None]]
  /\ UNCHANGED <<state, other, queue, connects, sem, handle, sent>>
-------------------------------------------------------------------------------
(* Requests, datagrams and replies *)

Reference(t) == refs' = [refs EXCEPT ![Own(t)] = @ + 1]
Dereference(t) == refs' = [refs EXCEPT ![Own(t)] = @ - 1]

\* NtRequestWaitReplyPort looks at the state; NtRequestPort does not.
NtRequestWaitReplyPort(t) ==
  /\ t \in Callers /\ th[t].at = "Idle" /\ Own(t) \in handle /\ sent[t] < Calls
  /\ IF state[Own(t)] = "Disconnected"
       THEN Goto(t, "Out") /\ UNCHANGED <<refs, sent>>
       ELSE /\ Reference(t) /\ sent' = [sent EXCEPT ![t] = @ + 1]
            /\ th' = [th EXCEPT ![t].at = "Call", ![t].msg = Message("Request", Own(t), <<t, sent'[t]>>)]
  /\ UNCHANGED <<state, other, queue, connects, sem, handle>>

NtRequestPort(t) ==
  /\ t \in Callers /\ th[t].at = "Idle" /\ Own(t) \in handle /\ sent[t] < Calls
  /\ Reference(t) /\ sent' = [sent EXCEPT ![t] = @ + 1]
  /\ th' = [th EXCEPT ![t].at = "Call", ![t].msg = Message("Datagram", Own(t), <<t, sent'[t]>>)]
  /\ UNCHANGED <<state, other, queue, connects, sem, handle>>

Answer(t) == Message("Reply", Own(t), th[t].msg.call)
Holds(t, type) == th[t].msg # None /\ th[t].msg.type = type

NtReplyPort(t) ==
  /\ t \in Servers /\ th[t].at = "Idle" /\ Holds(t, "Request")
  /\ IF state[Own(t)] = "Disconnected"
       THEN th' = [th EXCEPT ![t].msg = None] /\ UNCHANGED refs
       ELSE Reference(t) /\ th' = [th EXCEPT ![t].at = "Call", ![t].msg = Message("ReplyOnly", Own(t), th[t].msg.call)]
  /\ UNCHANGED <<state, other, queue, connects, sem, handle, sent>>

\* Mutated: the reply is not sent.
ReceiveOnly(t) ==
  LET disconnected == state[Own(t)] = "Disconnected" IN
  /\ t \notin Callers /\ th[t].at = "Idle" /\ ~Holds(t, "PortClosed")
  /\ Reference(t)
  /\ th' = [th EXCEPT ![t] = [at |-> IF disconnected THEN "Poll" ELSE "Wait", to |-> None, msg |-> None]]
  /\ UNCHANGED <<state, other, queue, connects, sem, handle, sent>>

\* The reply is sent first, if there is one and the port is connected.  Once it is
\* not, the wait only polls.
NtReplyWaitReceivePortEx(t) ==
  LET disconnected == state[Own(t)] = "Disconnected" IN
  /\ t \notin Callers /\ th[t].at = "Idle" /\ ~Holds(t, "PortClosed")
  /\ Reference(t)
  /\ th' = [th EXCEPT ![t] =
       IF Holds(t, "Request") /\ ~disconnected
         THEN [at |-> "Call", to |-> None, msg |-> Answer(t)]
         ELSE [at |-> IF disconnected THEN "Poll" ELSE "Wait", to |-> None, msg |-> None]]
  /\ UNCHANGED <<state, other, queue, connects, sem, handle, sent>>

\* EiReplyOrRequestPort is given Port->OtherPort.
EiReplyOrRequestPort(t) ==
  /\ th[t].at = "Call"
  /\ th' = [th EXCEPT ![t].at = "Enqueue", ![t].to = other[Own(t)]]
  /\ UNCHANGED <<state, other, queue, connects, sem, refs, handle, sent>>

\* LpcRequestPort releases the semaphore of the port it was given, the others that of
\* Port->OtherPort.
Enqueue(t) ==
  LET m == th[t].msg IN
  /\ th[t].at = "Enqueue"
  /\ EiEnqueueMessagePort(th[t].to, [m EXCEPT !.type = IF @ = "ReplyOnly" THEN "Reply" ELSE @])
  /\ Goto(t, IF m.type = "Datagram" THEN "ReleaseTo" ELSE "Release")
  /\ UNCHANGED <<state, other, connects, sem, refs, handle, sent>>

Release(t) ==
  LET m == th[t].msg IN
  /\ th[t].at = "Release"
  /\ KeReleaseSemaphore(other[Own(t)])
  /\ IF m.type = "ReplyOnly"
       THEN Dereference(t) /\ th' = [th EXCEPT ![t] = [at |-> "Idle", to |-> None, msg |-> None]]
       ELSE UNCHANGED refs /\ th' = [th EXCEPT ![t] = [at |-> "Wait", to |-> None, msg |-> None]]
  /\ UNCHANGED <<state, other, queue, connects, handle, sent>>

ReleaseTo(t) ==
  /\ th[t].at = "ReleaseTo"
  /\ KeReleaseSemaphore(th[t].to)
  /\ Dereference(t) /\ th' = [th EXCEPT ![t] = [at |-> "Idle", to |-> None, msg |-> None]]
  /\ UNCHANGED <<state, other, queue, connects, handle, sent>>

Wait(t) ==
  /\ th[t].at \in {"Wait", "Poll"} /\ sem[Own(t)] > 0
  /\ sem' = [sem EXCEPT ![Own(t)] = @ - 1] /\ Goto(t, "Dequeue")
  /\ UNCHANGED <<state, other, queue, connects, refs, handle, sent>>

\* STATUS_PORT_DISCONNECTED: the server closes its handle.
PollFails(t) ==
  /\ th[t].at = "Poll" /\ sem[Own(t)] = 0
  /\ Dereference(t)
  /\ th' = [th EXCEPT ![t] = [at |-> "Idle", to |-> None, msg |-> Message("PortClosed", Own(t), ConnectCall(t[1]))]]
  /\ UNCHANGED <<state, other, queue, connects, sem, handle, sent>>

\* A connection request goes to the connection queue, anything else to the caller.  There
\* is a message (CountsMessages): what either caller does with none is left out.
Dequeue(t) ==
  LET m == Head(queue[Own(t)]) IN
  /\ th[t].at = "Dequeue" /\ queue[Own(t)] # <<>>
  /\ EiDequeueMessagePort(Own(t)) /\ Dereference(t)
  /\ connects' = IF m.type = "ConnectionRequest" THEN Append(connects, m) ELSE connects
  /\ th' = [th EXCEPT ![t] =
       IF m.type = "ConnectionRequest" THEN [at |-> "Decide", to |-> None, msg |-> None]
                                       ELSE [at |-> "Idle", to |-> None, msg |-> m]]
  /\ UNCHANGED <<state, other, sem, handle, sent>>

\* NtReplyWaitReceivePortEx puts the message back with EiEnqueueMessageAtHeadPort,
\* which inserts at the tail.
EiEnqueueMessageAtHeadPort(t) ==
  /\ CopyFails /\ t \in Servers
  /\ th[t].at = "Dequeue" /\ queue[Own(t)] # <<>>
  /\ queue' = [queue EXCEPT ![Own(t)] = Append(Tail(@), Head(@))]
  /\ Dereference(t) /\ th' = [th EXCEPT ![t] = [at |-> "Idle", to |-> None, msg |-> None]]
  /\ UNCHANGED <<state, other, connects, sem, handle, sent>>
-------------------------------------------------------------------------------
(* The last handle of a port is closed *)

MayClose(t) ==
  IF t \in Callers THEN Closes /\ (Early \/ \A i \in 1 .. PerPort : th[<<t[1], i>>].at \in {"Idle", "Out"})
                   ELSE Holds(t, "PortClosed") \/ ServerCloses

Last == {"CloseHandle", "CloseOwn"}

NtClose(t) ==
  /\ t # Listener /\ th[t].at = "Idle" /\ Own(t) \in handle /\ MayClose(t)
  /\ handle' = handle \ {Own(t)}
  /\ Goto(t, CASE state[Own(t)] = "ConnectedClient" -> "CloseCall"
               [] state[Own(t)] = "ConnectedServer" -> "CloseOther"
               [] OTHER -> "CloseHandle")
  /\ UNCHANGED <<state, other, queue, connects, sem, refs, sent>>

\* NiClosePort tells the server.
CloseCall(t) ==
  /\ th[t].at = "CloseCall"
  /\ th' = [th EXCEPT ![t].at = "CloseEnqueue", ![t].to = other[Own(t)]]
  /\ UNCHANGED <<state, other, queue, connects, sem, refs, handle, sent>>

CloseEnqueue(t) ==
  /\ th[t].at = "CloseEnqueue"
  /\ EiEnqueueMessagePort(th[t].to, Message("PortClosed", Own(t), Call(<<t[1], 1>>)))
  /\ Goto(t, "CloseOther")
  /\ UNCHANGED <<state, other, connects, sem, refs, handle, sent>>

CloseOther(t) ==
  /\ th[t].at = "CloseOther"
  /\ other' = [other EXCEPT ![other[Own(t)]] = None]
  /\ Goto(t, "CloseState")
  /\ UNCHANGED <<state, queue, connects, sem, refs, handle, sent>>

CloseState(t) ==
  /\ th[t].at = "CloseState"
  /\ state' = [state EXCEPT ![other[Own(t)]] = "Disconnected"]
  /\ Goto(t, IF t \in Callers THEN "CloseRelease" ELSE "CloseDeref")
  /\ UNCHANGED <<other, queue, connects, sem, refs, handle, sent>>

CloseRelease(t) ==
  /\ th[t].at = "CloseRelease"
  /\ KeReleaseSemaphore(other[Own(t)])
  /\ Goto(t, "CloseOwn")
  /\ UNCHANGED <<state, other, queue, connects, refs, handle, sent>>

\* The server's close dereferences the client's port.
CloseDeref(t) ==
  /\ th[t].at = "CloseDeref"
  /\ refs' = [refs EXCEPT ![other[Own(t)]] = @ - 1]
  /\ Goto(t, "CloseHandle")
  /\ UNCHANGED <<state, other, queue, connects, sem, handle, sent>>

\* The client's its own, and ObpDecrementHandleCount that of the handle.
CloseHandle(t) ==
  /\ th[t].at \in Last
  /\ refs' = [refs EXCEPT ![Own(t)] = @ - IF th[t].at = "CloseOwn" THEN 2 ELSE 1]
  /\ Goto(t, "Out")
  /\ UNCHANGED <<state, other, queue, connects, sem, handle, sent>>
-------------------------------------------------------------------------------
Init ==
  /\ state = [p \in Ports |-> "Inactive"] /\ other = [p \in Ports |-> None]
  /\ queue = [p \in Ports |-> <<>>] /\ connects = <<>>
  /\ sem = [p \in Ports |-> 0] /\ refs = [p \in Ports |-> IF p = Named THEN 1 ELSE 0]
  /\ handle = {Named}
  /\ th = [t \in Threads |-> [at |-> IF t = Listener THEN "Idle" ELSE IF t[2] = 1 THEN "Start" ELSE "Absent",
                              to |-> None, msg |-> None]]
  /\ sent = [t \in Callers |-> 0]

Connect(t) ==
  \/ EiConnectPort(t) \/ ConnectRelease(t) \/ ConnectWait(t) \/ ConnectDequeue(t)
  \/ ConnectRefused(t) \/ ConnectState(t) \/ ConnectInsert(t)
Decide(t) ==
  \/ NtAcceptConnectPort(t) \/ Link(t) \/ AcceptEnqueue(t) \/ NtCompleteConnectPort(t) \/ CompleteRelease(t)
  \/ RefuseConnectPort(t) \/ RefuseEnqueue(t) \/ RefuseRelease(t) \/ RefuseDeref(t)
Begin(t) == NtRequestWaitReplyPort(t) \/ NtRequestPort(t) \/ NtReplyPort(t) \/ NtReplyWaitReceivePortEx(t)
Proceed(t) ==
  \/ EiReplyOrRequestPort(t) \/ Enqueue(t) \/ Release(t) \/ ReleaseTo(t)
  \/ Wait(t) \/ PollFails(t) \/ Dequeue(t)
Close(t) ==
  \/ CloseCall(t) \/ CloseEnqueue(t) \/ CloseOther(t) \/ CloseState(t) \/ CloseRelease(t)
  \/ CloseDeref(t) \/ CloseHandle(t)

Step(t) ==
  /\ \A p \in Uses(t) : ~Bad(p)
  /\ \/ Connect(t) \/ Decide(t) \/ Begin(t) \/ Proceed(t) \/ NtClose(t) \/ Close(t)
     \/ AcceptFails(t) \/ EiEnqueueMessageAtHeadPort(t)
Next == ~Bugcheck /\ \E t \in Threads : Step(t) \/ Crash(t)

Spec == Init /\ [][Next]_vars

\* Threads in the kernel run on; the listener and the servers receive, decide and reply.
Runs(t) == ~Bugcheck /\ (\A p \in Uses(t) : ~Bad(p)) /\ (Connect(t) \/ Decide(t) \/ Proceed(t) \/ Close(t))
Serves(t) == ~Bugcheck /\ (NtReplyWaitReceivePortEx(t) \/ NtReplyPort(t))
Fairness ==
  /\ \A t \in Threads : WF_vars(Runs(t))
  /\ \A t \in Threads \ Callers : WF_vars(Serves(t))
FairSpec == Spec /\ Fairness
-------------------------------------------------------------------------------
Places ==
  {"Absent", "Start", "ConnectRelease", "ConnectWait", "ConnectDequeue", "ConnectState", "ConnectInsert",
   "Refused", "Idle", "Decide", "Link", "AcceptEnqueue", "Complete", "CompleteRelease", "RefuseEnqueue",
   "RefuseRelease", "RefuseDeref", "Call", "Enqueue", "Release", "ReleaseTo", "Wait", "Poll", "Dequeue",
   "CloseCall", "CloseEnqueue", "CloseOther", "CloseState", "CloseRelease", "CloseDeref", "CloseHandle",
   "CloseOwn", "Out", "Null", "Freed"}

\* The types of ports, threads and messages; at most one count for each message that
\* can be under way, and references of the creator, the handle and the calls only.
TypeOK ==
  /\ state \in [Ports -> {"Inactive", "ConnectedClient", "ConnectedServer", "Disconnected"}]
  /\ other \in [Ports -> Comm \union {None}]
  /\ \A p \in Ports : queue[p] \in Seq(Messages) /\ sem[p] \in Nat
  /\ connects \in Seq(Messages)
  /\ refs \in [Ports -> 0 .. 2 + PerPort] /\ handle \subseteq Ports
  /\ th \in [Threads -> [at : Places, to : Ports \union {None},
                         msg : Messages \union {None} \union
                               [type : {"ReplyOnly"}, from : Ports, call : Calls_]]]
  /\ sent \in [Callers -> 0 .. Calls]

Owed(p) ==  \* threads that have queued a message on p and not counted it yet
  Cardinality({t \in Threads :
    \/ th[t].at \in {"Release", "CloseRelease"} /\ other[Own(t)] = p
    \/ th[t].at \in {"CloseOther", "CloseState"} /\ t \in Callers /\ other[Own(t)] = p
    \/ th[t].at \in {"ReleaseTo", "RefuseRelease"} /\ th[t].to = p
    \/ th[t].at = "ConnectRelease" /\ p = Named
    \/ th[t].at \in {"Complete", "CompleteRelease"} /\ other[th[t].to] = p})
Taken(p) == \* threads whose wait has taken a count and that have not dequeued
  Cardinality({t \in Threads : th[t].at \in {"ConnectDequeue", "Dequeue"} /\ Own(t) = p})

\* Every message in a port's queue has one count in its semaphore, taken, there or
\* still to come: no receiver wakes up to an empty queue and no message is left
\* without anybody to wake up for it.
CountsMessages ==
  ~Bugcheck /\ (\A t \in Threads : \A p \in Uses(t) : ~Bad(p)) => \A p \in Ports : refs[p] > 0 => Len(queue[p]) = sem[p] + Taken(p) + Owed(p)

\* What a caller is given is the reply to the request it made last.
RepliesMatch ==
  \A t \in Callers : th[t].at = "Idle" /\ th[t].msg # None =>
    th[t].msg.type = "Reply" /\ th[t].msg.call = Call(t)

\* The messages of one caller are in the queue in the order it sent them.
InOrder ==
  \A p \in Comm : \A i, j \in 1 .. Len(queue[p]) :
    i < j /\ queue[p][i].call[1] = queue[p][j].call[1] /\ "PortClosed" \notin {queue[p][i].type, queue[p][j].type}
      => queue[p][i].call[2] < queue[p][j].call[2]

\* A port in the state connected has another port to send to, whose state is connected
\* too, unless the other side is being closed at this moment.
ConnectedHasPeer ==
  \A c \in Connections :
    refs[Client(c)] > 0 /\ state[Client(c)] = "ConnectedClient" /\ Client(c) \in handle =>
      \/ \E t \in Threads : th[t].at \in {"CloseOther", "CloseState", "CloseDeref"} /\ t = <<c, 0>>
      \/ other[Client(c)] = Server(c) /\ state[Server(c)] # "Inactive"

\* Nobody uses the other port's pointer after it has been cleared.
NoNullPort == \A t \in Threads : th[t].at # "Null"

\* Nobody uses a port that has been freed.
PortExists == \A t \in Threads : th[t].at # "Freed"

\* A thread that waits for the answer to its connection request gets it.
ConnectReturns ==
  \A c \in Connections : th[<<c, 1>>].at = "ConnectWait" ~> th[<<c, 1>>].at # "ConnectWait"

\* A thread that waits for a reply gets one.
RequestReturns ==
  \A t \in Callers : th[t].at = "Wait" ~> th[t].at # "Wait"
================================================================================
