------------------------------- MODULE MmBalance -------------------------------
(***************************************************************************)
(* The sharing out of physical pages (mm/balance.c, mm/freelist.c): threads     *)
(* request and release pages of one consumer, wait for a page when few are    *)
(* free, and are handed a released one; the balancer thread trims.  Each part  *)
(* under AllocationListLock or PageListLock, and each interlocked change, is a  *)
(* step; the tests of the number of free pages are outside both.              *)
(***************************************************************************)
EXTENDS Integers, Sequences, FiniteSets

CONSTANTS
  Threads,        \* threads that request and release pages
  Balancer,       \* the thread of MiBalancerThread
  Pages, NoPage,
  Minimum,        \* MiMinimumAvailablePages (64)
  Slack,          \* what the balancer frees beyond Minimum (5)
  Target,         \* PagesTarget of the consumer
  MaxNonPaged,    \* bound: pages allocated for the nonpaged pool
  MaxUsed,        \* bound: PagesUsed
  Shares,         \* TRUE where a page may get a second reference
  TrimsAllocate   \* TRUE where the balancer needs a page to free one

\* Minimum is enough for the threads that may be between the test of the free pages and the
\* allocation, and for the nonpaged pool.
BalanceAssumption ==
  /\ Balancer \notin Threads /\ NoPage \notin Pages
  /\ Minimum \in Nat /\ Slack \in Nat /\ Target \in Nat /\ MaxNonPaged \in Nat
  /\ MaxUsed \in Nat
  /\ Shares \in BOOLEAN /\ TrimsAllocate \in BOOLEAN
  /\ Minimum + 1 >= Cardinality(Threads) + MaxNonPaged + (IF TrimsAllocate THEN 1 ELSE 0)

VARIABLES
  refCount,        \* Pages -> ReferenceCount, 0 while the page is in the free list
  holders,         \* Pages -> the threads that map the page
  nonPaged,        \* pages the nonpaged pool has taken
  pagesUsed,       \* PagesUsed of the consumer
  list,            \* AllocationListHead: the threads whose requests wait
  granted,         \* thread -> Request.Page
  balancerEvent,   \* MiBalancerEvent is set
  pc,              \* thread -> where it is in a routine
  page,            \* thread -> the page it releases
  next,            \* thread -> where it is after the release
  canWait          \* thread -> the argument of its request

vars == <<refCount, holders, nonPaged, pagesUsed, list, granted, balancerEvent, pc, page, next,
          canWait>>

All == Threads \cup {Balancer}

NrFreePages == Cardinality({p \in Pages : refCount[p] = 0})

Init ==
  /\ refCount = [p \in Pages |-> 0] /\ holders = [p \in Pages |-> {}]
  /\ nonPaged = {} /\ pagesUsed = 0 /\ list = <<>>
  /\ granted = [t \in All |-> NoPage] /\ balancerEvent = FALSE
  /\ pc = [t \in All |-> "out"] /\ page = [t \in All |-> NoPage]
  /\ next = [t \in All |-> "out"] /\ canWait = [t \in All |-> FALSE]

Go(t, place) == pc' = [pc EXCEPT ![t] = place]

\* t begins to release page p, and goes on at place.
Releases(t, p, place) ==
  /\ page' = [page EXCEPT ![t] = p]
  /\ next' = [next EXCEPT ![t] = place]
  /\ Go(t, "releasing")

Released(t) ==
  /\ Go(t, next[t])
  /\ page' = [page EXCEPT ![t] = NoPage] /\ next' = [next EXCEPT ![t] = "out"]
-------------------------------------------------------------------------------
\* MmReleasePageMemoryConsumer: the last reference's page goes to the first request, if one
\* waits and enough pages are free, and to the free list otherwise.
HandOver(t) ==
  /\ list # <<>> /\ NrFreePages >= Minimum
  /\ granted' = [granted EXCEPT ![Head(list)] = page[t]]
  /\ list' = Tail(list)
  /\ Released(t)

Drop(t) == Go(t, "dropping") /\ UNCHANGED <<granted, list, page, next>>

MmReleasePageMemoryConsumer(t) ==
  /\ pc[t] = "releasing"
  /\ \/ /\ refCount[page[t]] = 1
        /\ pagesUsed' = pagesUsed - 1
        /\ \/ HandOver(t)
           \/ (list = <<>> \/ NrFreePages < Minimum) /\ Drop(t)
     \/ refCount[page[t]] > 1 /\ Drop(t) /\ UNCHANGED pagesUsed
  /\ UNCHANGED <<refCount, holders, nonPaged, balancerEvent, canWait>>

MmDereferencePage(t) ==
  /\ pc[t] = "dropping"
  /\ refCount' = [refCount EXCEPT ![page[t]] = @ - 1]
  /\ Released(t)
  /\ UNCHANGED <<holders, nonPaged, pagesUsed, list, granted, balancerEvent, canWait>>

\* A thread unmaps a page of its own and releases it.
Unmap(t, p) ==
  /\ pc[t] = "out" /\ t \in holders[p]
  /\ holders' = [holders EXCEPT ![p] = @ \ {t}]
  /\ Releases(t, p, "out")
  /\ UNCHANGED <<refCount, nonPaged, pagesUsed, list, granted, balancerEvent, canWait>>

\* MmReferencePage, for a thread that maps the page too.
MmReferencePage(t, p) ==
  /\ Shares /\ pc[t] = "out" /\ t \notin holders[p] /\ holders[p] # {}
  /\ holders' = [holders EXCEPT ![p] = @ \cup {t}]
  /\ refCount' = [refCount EXCEPT ![p] = @ + 1]
  /\ UNCHANGED <<nonPaged, pagesUsed, list, granted, balancerEvent, pc, page, next, canWait>>

\* A trim finds a page that one thread maps, pages it out and releases it.
PageOut(t, p, place) ==
  /\ Cardinality(holders[p]) = 1
  /\ holders' = [holders EXCEPT ![p] = {}]
  /\ Releases(t, p, place)
-------------------------------------------------------------------------------
\* MmRequestPageMemoryConsumer: the consumer's count and its target.  MiIsBalancerThread
\* compares a thread with a client id, so that the balancer is a thread like the others.
MmRequestPageMemoryConsumer(t, wait) ==
  /\ \/ t \in Threads /\ pc[t] = "out"
     \/ t = Balancer /\ TrimsAllocate /\ pc[t] = "balancing" /\ wait
  /\ pagesUsed < MaxUsed
  /\ canWait' = [canWait EXCEPT ![t] = wait]
  /\ pagesUsed' = pagesUsed + 1
  /\ Go(t, CASE pagesUsed' < Target - 1          -> "counted"
             [] pagesUsed' >= Target - 1 /\ wait -> "trimming"
             [] OTHER                            -> "refused")
  /\ UNCHANGED <<refCount, holders, nonPaged, list, granted, balancerEvent, page, next>>

Refuse(t) ==
  /\ pc[t] = "refused"
  /\ pagesUsed' = pagesUsed - 1
  /\ Go(t, "out")
  /\ UNCHANGED <<refCount, holders, nonPaged, list, granted, balancerEvent, page, next, canWait>>

\* MiTrimMemoryConsumer in the requesting thread: a page is freed, or none is found.
MiTrimMemoryConsumer(t) ==
  /\ pc[t] = "trimming"
  /\ \/ Go(t, "counted") /\ UNCHANGED <<holders, page, next>>
     \/ \E p \in Pages : PageOut(t, p, "counted")
  /\ UNCHANGED <<refCount, nonPaged, pagesUsed, list, granted, balancerEvent, canWait>>

Enough == NrFreePages > Minimum

\* The test of the number of free pages; a thread that cannot wait is refused.
TestFreePages(t) ==
  /\ pc[t] = "counted"
  /\ Go(t, CASE Enough                -> "allocating"
             [] ~Enough /\ canWait[t] -> "inserting"
             [] OTHER                 -> "refused")
  /\ UNCHANGED <<refCount, holders, nonPaged, pagesUsed, list, granted, balancerEvent, page, next,
                 canWait>>

\* Under the lock the balancer is woken and the request inserted.
InsertRequest(t) ==
  /\ pc[t] = "inserting"
  /\ balancerEvent' = TRUE
  /\ list' = Append(list, t)
  /\ Go(t, "waiting")
  /\ UNCHANGED <<refCount, holders, nonPaged, pagesUsed, granted, page, next, canWait>>

\* The page becomes the caller's; the balancer releases it again when it has used it.
Take(t, p) ==
  IF t = Balancer THEN Releases(t, p, "balancing") /\ UNCHANGED holders
  ELSE /\ holders' = [holders EXCEPT ![p] = @ \cup {t}]
       /\ Go(t, "out") /\ UNCHANGED <<page, next>>

\* The wait ends with a page that was handed over.
RequestGranted(t) ==
  /\ pc[t] = "waiting" /\ granted[t] # NoPage
  /\ granted' = [granted EXCEPT ![t] = NoPage]
  /\ Take(t, granted[t])
  /\ UNCHANGED <<refCount, nonPaged, pagesUsed, list, balancerEvent, canWait>>

\* MmAllocPage; the system stops where no page is free.
MmAllocPage(t) ==
  /\ pc[t] = "allocating"
  /\ \/ /\ NrFreePages = 0 /\ Go(t, "stopped")
        /\ UNCHANGED <<refCount, holders, page, next>>
     \/ \E p \in Pages :
          /\ refCount[p] = 0
          /\ refCount' = [refCount EXCEPT ![p] = 1]
          /\ Take(t, p)
  /\ UNCHANGED <<nonPaged, pagesUsed, list, granted, balancerEvent, canWait>>

\* A page for the nonpaged pool, at once.
AllocateNonPaged ==
  /\ Cardinality(nonPaged) < MaxNonPaged
  /\ \E p \in Pages :
       /\ refCount[p] = 0
       /\ refCount' = [refCount EXCEPT ![p] = 1]
       /\ nonPaged' = nonPaged \cup {p}
  /\ balancerEvent' = (balancerEvent \/ NrFreePages - 1 <= Minimum)
  /\ UNCHANGED <<holders, pagesUsed, list, granted, pc, page, next, canWait>>
-------------------------------------------------------------------------------
\* MiBalancerThread: woken by its event it trims until there are pages to spare.
BalancerWoken ==
  /\ pc[Balancer] = "out" /\ balancerEvent
  /\ balancerEvent' = FALSE
  /\ Go(Balancer, "balancing")
  /\ UNCHANGED <<refCount, holders, nonPaged, pagesUsed, list, granted, page, next, canWait>>

BalancerDone ==
  /\ pc[Balancer] = "balancing" /\ NrFreePages >= Minimum + Slack
  /\ Go(Balancer, "out")
  /\ UNCHANGED <<refCount, holders, nonPaged, pagesUsed, list, granted, balancerEvent, page, next,
                 canWait>>

BalancerTrims ==
  /\ pc[Balancer] = "balancing" /\ NrFreePages < Minimum + Slack
  /\ \E p \in Pages : PageOut(Balancer, p, "balancing")
  /\ UNCHANGED <<refCount, nonPaged, pagesUsed, list, granted, balancerEvent, canWait>>

\* Woken by its timer it trims once, where pages are short or the consumer is over its target.
BalancerTimer ==
  /\ pc[Balancer] = "out"
  /\ NrFreePages < Minimum + Slack \/ pagesUsed > Target
  /\ \E p \in Pages : PageOut(Balancer, p, "out")
  /\ UNCHANGED <<refCount, nonPaged, pagesUsed, list, granted, balancerEvent, canWait>>

Next ==
  \/ \E t \in Threads, p \in Pages : Unmap(t, p) \/ MmReferencePage(t, p)
  \/ \E t \in All, wait \in BOOLEAN : MmRequestPageMemoryConsumer(t, wait)
  \/ \E t \in All :
       \/ MmReleasePageMemoryConsumer(t) \/ MmDereferencePage(t) \/ Refuse(t)
       \/ MiTrimMemoryConsumer(t) \/ TestFreePages(t) \/ InsertRequest(t) \/ RequestGranted(t)
       \/ MmAllocPage(t)
  \/ AllocateNonPaged \/ BalancerWoken \/ BalancerDone \/ BalancerTrims \/ BalancerTimer

Spec == Init /\ [][Next]_vars
-------------------------------------------------------------------------------
TypeOK ==
  /\ refCount \in [Pages -> Nat] /\ holders \in [Pages -> SUBSET Threads]
  /\ nonPaged \subseteq Pages /\ pagesUsed \in Nat /\ list \in Seq(All)
  /\ granted \in [All -> Pages \cup {NoPage}] /\ page \in [All -> Pages \cup {NoPage}]
  /\ balancerEvent \in BOOLEAN /\ canWait \in [All -> BOOLEAN]
  /\ pc \in [All -> {"out", "releasing", "dropping", "counted", "refused", "trimming",
                     "allocating", "inserting", "waiting", "balancing", "stopped"}]
  /\ next \in [All -> {"out", "counted", "balancing"}]

\* A thread that has been counted for a page it has not got.
Requesting(t) ==
  \/ pc[t] \in {"counted", "refused", "trimming", "allocating", "inserting", "waiting"}
  \/ next[t] = "counted"

\* PagesUsed is what the consumer has: the pages that are mapped or about to be released and
\* the requests under way, whether a page comes from the list or is handed over.
UsedIsCounted ==
  pagesUsed = Cardinality({p \in Pages : holders[p] # {}})
              + Cardinality({t \in All : pc[t] = "releasing"})
              + Cardinality({t \in All : Requesting(t)})

\* The references to a page are the threads that map it, release it or have been handed it,
\* and the nonpaged pool's: a page is never given out twice.
PagesHaveOwners ==
  \A p \in Pages :
    refCount[p] = Cardinality(holders[p]) + Cardinality({t \in All : page[t] = p})
                  + Cardinality({t \in All : granted[t] = p})
                  + (IF p \in nonPaged THEN 1 ELSE 0)

\* A thread that has found enough free pages gets one: the pages that are kept back outlast
\* the threads that found the same ones free.
AllocationSucceeds == \A t \in All : pc[t] # "stopped"

\* Who waits is in the list, once, until a page is handed over.
WaitersAreListed ==
  /\ \A t \in All : (pc[t] = "waiting" /\ granted[t] = NoPage) <=> \E i \in 1..Len(list) : list[i] = t
  /\ \A i, j \in 1..Len(list) : list[i] = list[j] => i = j

\* While a request waits and there are pages to spare somebody is about to look at it.
\* The request is inserted after the test of the free pages.
WaitersAreWatched ==
  list # <<>> /\ NrFreePages >= Minimum + Slack =>
    balancerEvent \/ pc[Balancer] # "out" \/ \E t \in All : pc[t] = "releasing"

\* The balancer does not wait for the pages that it is to free: "Allocate always memory for
\* the non paged pool and for the pager thread".
BalancerNeverWaits == pc[Balancer] # "waiting"
===============================================================================
