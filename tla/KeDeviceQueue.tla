----------------------------- MODULE KeDeviceQueue -----------------------------
(***************************************************************************)
(* Device queues (ntoskrnl/ke/kqueue.c) as IoStartPacket and                  *)
(* IoStartNextPacket (io/queue.c) use them to give a driver's StartIo one     *)
(* IRP at a time: a packet either becomes the current one or waits in the     *)
(* queue, in order of arrival or sorted by a key, until the current one is    *)
(* finished or its own request is cancelled.                                 *)
(*                                                                         *)
(* All of it runs at DISPATCH_LEVEL on the one processor of the build, so     *)
(* that a routine up to its call of StartIo is one step.  StartIo itself, and *)
(* what completes and cancels an IRP, are the driver's.                       *)
(***************************************************************************)
EXTENDS Integers, Sequences, FiniteSets, Lists

CONSTANTS
  Irps,
  NoIrp,
  Keys     \* the sort keys passed with IRPs

\* What the constants must satisfy; assumed by the modules that fix them.
DeviceAssumption ==
  /\ NoIrp \notin Irps /\ Keys \subseteq Nat /\ Keys # {}

VARIABLES
  busy,       \* DeviceQueue->Busy
  list,       \* DeviceQueue->DeviceListHead
  queued,     \* the IRPs whose DeviceQueueEntry.Inserted is set
  sortKey,    \* DeviceQueueEntry.SortKey
  currentIrp, \* DeviceObject->CurrentIrp
  pending     \* the IRPs started by IoStartPacket and not completed

deviceVars == <<busy, list, queued, sortKey, currentIrp, pending>>

-------------------------------------------------------------------------------
\* InsertAscendingListFIFO: before the first entry whose key is greater.
InsertAscendingListFIFO(irp, key) ==
  LET n == Cardinality({i \in DOMAIN list : \A j \in 1 .. i : sortKey[list[j]] <= key})
  IN  InsertAfter(list, n, irp)

\* What KeInsertDeviceQueue and KeInsertByKeyDeviceQueue do with the queue and the
\* flag of the entry, newList being the list with it.
InsertEntry(irp, newList) ==
  /\ list' = IF busy THEN newList ELSE list
  /\ queued' = IF busy THEN queued \union {irp} ELSE queued \ {irp}
  /\ busy' = TRUE

\* IoStartPacket: an entry that found the device idle is given to StartIo.
IoStartPacket(irp, newList) ==
  /\ irp \notin pending
  /\ pending' = pending \union {irp}
  /\ InsertEntry(irp, newList)
  /\ currentIrp' = IF busy THEN currentIrp ELSE irp

IoStartPacketTail(irp) ==
  /\ IoStartPacket(irp, Append(list, irp))
  /\ UNCHANGED sortKey

IoStartPacketByKey(irp, key) ==
  /\ sortKey' = [sortKey EXCEPT ![irp] = key]
  /\ IoStartPacket(irp, InsertAscendingListFIFO(irp, key))
-------------------------------------------------------------------------------
\* KeRemoveDeviceQueue and KeRemoveByKeyDeviceQueue of the entry they have chosen,
\* or of none, which sets the queue idle.
Remove(irp) ==
  /\ list' = Unlink(list, irp)
  /\ queued' = queued \ {irp}
  /\ busy' = (irp # NoIrp)

\* Mutated: the head of the list, whatever the key.
HeadWhateverKey(key) == IF list = << >> THEN NoIrp ELSE Head(list)

\* The entry KeRemoveByKeyDeviceQueue takes: the first whose key is at least key,
\* or the head of the list.
EntryByKey(key) ==
  LET fit == {i \in DOMAIN list : sortKey[list[i]] >= key}
  IN  IF list = << >> THEN NoIrp
      ELSE IF fit = {} THEN Head(list)
      ELSE list[CHOOSE i \in fit : \A j \in fit : i <= j]

\* The entry KeRemoveDeviceQueue takes.
NextEntry == IF list = << >> THEN NoIrp ELSE Head(list)

\* The driver completes the current IRP and calls IoStartNextPacket ...
IoStartNextPacket ==
  /\ currentIrp # NoIrp
  /\ pending' = pending \ {currentIrp}
  /\ currentIrp' = NextEntry
  /\ Remove(currentIrp')
  /\ UNCHANGED sortKey

\* ... or IoStartNextPacketByKey, with the key of the IRP it has finished.
IoStartNextPacketByKey ==
  /\ currentIrp # NoIrp
  /\ pending' = pending \ {currentIrp}
  /\ currentIrp' = EntryByKey(sortKey[currentIrp])
  /\ Remove(currentIrp')
  /\ UNCHANGED sortKey

\* KeRemoveEntryDeviceQueue, as the cancel routine of a waiting IRP calls it before
\* it completes the IRP.
KeRemoveEntryDeviceQueue(irp) ==
  /\ irp \in pending /\ irp # currentIrp
  /\ list' = IF irp \in queued THEN Unlink(list, irp) ELSE list
  /\ queued' = queued \ {irp}
  /\ pending' = pending \ {irp}
  /\ UNCHANGED <<busy, sortKey, currentIrp>>
-------------------------------------------------------------------------------
DeviceInit ==
  /\ busy = FALSE /\ list = << >> /\ queued = {}
  /\ sortKey \in [Irps -> {0}]
  /\ currentIrp = NoIrp /\ pending = {}

DeviceNext ==
  \/ \E irp \in Irps :
       \/ IoStartPacketTail(irp) \/ KeRemoveEntryDeviceQueue(irp)
       \/ \E key \in Keys : IoStartPacketByKey(irp, key)
  \/ IoStartNextPacket \/ IoStartNextPacketByKey

DeviceSpec == DeviceInit /\ [][DeviceNext]_deviceVars

\* A driver that uses no keys and completes the IRPs StartIo has been given.
NextTail ==
  \/ \E irp \in Irps : IoStartPacketTail(irp) \/ KeRemoveEntryDeviceQueue(irp)
  \/ IoStartNextPacket

SpecTail == DeviceInit /\ [][NextTail]_deviceVars /\ WF_deviceVars(IoStartNextPacket)
-------------------------------------------------------------------------------
\* Types of the fields.
DeviceTypeOK ==
  /\ busy \in BOOLEAN /\ list \in Seq(Irps) /\ queued \subseteq Irps
  /\ sortKey \in [Irps -> Keys \union {0}]
  /\ currentIrp \in Irps \union {NoIrp} /\ pending \subseteq Irps

\* Every IRP handed to IoStartPacket and not completed is the current one or in the
\* queue once, and its flag says which: none is lost, started twice or still
\* linked when its cancel routine frees it.
PacketsAccountedFor ==
  /\ pending = Members(list) \union ({currentIrp} \ {NoIrp})
  /\ currentIrp \notin Members(list)
  /\ queued = Members(list)
  /\ NoDuplicates(list)

\* The queue is busy exactly while StartIo has an IRP: packets never wait for an
\* idle device, and a packet that finds the queue idle finds no current IRP.
BusyMeansCurrent == (busy <=> currentIrp # NoIrp) /\ (list # << >> => busy)

InOrder == \A i, j \in DOMAIN list : i < j => sortKey[list[i]] <= sortKey[list[j]]

\* The list gets out of order only by a packet without a key.
StaysInOrder == InOrder' \/ \E irp \in Irps : IoStartPacketTail(irp)

\* A packet goes behind those with a key up to its own: those with equal keys are
\* served in order of arrival.
BehindEqualKeys ==
  \A i, j \in DOMAIN list' :
    list'[i] \notin Members(list) /\ list'[j] \in Members(list)
      /\ sortKey[list'[j]] <= sortKey'[list'[i]]
    => j < i

\* The sweep of the keys: after the IRP with a key, the next one is the nearest
\* above it, if there is one.
NearestAbove ==
  IoStartNextPacketByKey =>
    \A irp \in Members(list) :
      sortKey[irp] >= sortKey[currentIrp] =>
        /\ sortKey[currentIrp'] >= sortKey[currentIrp]
        /\ sortKey[currentIrp'] <= sortKey[irp]

\* No IRP is lost, started twice or left linked, and none waits for an idle device; as long as
\* all packets have keys, they are queued behind those of equal keys and taken in a sweep.
PacketsServedInOrder ==
  /\ [](DeviceTypeOK /\ PacketsAccountedFor /\ BusyMeansCurrent)
  /\ [][InOrder => StaysInOrder /\ BehindEqualKeys /\ NearestAbove]_deviceVars

\* Without keys every packet is started or cancelled.
PacketIsServed ==
  \A irp \in Irps : irp \in Members(list) ~> irp \notin Members(list)
===============================================================================
