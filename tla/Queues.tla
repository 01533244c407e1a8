------------------------------- MODULE Queues -------------------------------
(***************************************************************************)
(* The page queues of src/src/heap.rs with their links, and the loops that *)
(* walk a queue while they move and free its pages.                        *)
(*                                                                         *)
(* Module Heap has a queue as a sequence and a call as one action.  Here a *)
(* queue is what the code has: first, last and count, with next and prev   *)
(* in the page headers, and one iteration of a loop is one action, so the  *)
(* page a loop has saved to visit next is there to go stale.               *)
(*                                                                         *)
(* A page is one slot of memory and its blocks are counts.  Which slot a   *)
(* request gets, and how memory grows, are modules SliceOps and Growth.    *)
(***************************************************************************)
EXTENDS Integers, Sequences, FiniteSets

CONSTANTS
    NumPages,       \* slots of memory
    NumBins,        \* MAX_BIN
    DirectBins,     \* bins up to DIRECT_MAX_BIN
    BelowDirect,    \* bins of blocks smaller than DIRECT_MAX_SIZE
    Reserved,       \* blocks_per_page of each bin
    Batch,          \* blocks one extend links
    RetireCycles,   \* the countdown retire gives a page of each bin
    RetireMaxPages, MaxCandidates, CollectPeriod

Pages  == 1 .. NumPages
Bins   == 1 .. NumBins

ASSUME QueuesAssumption ==
    /\ {NumPages, NumBins} \subseteq Nat
    /\ BelowDirect \subseteq DirectBins /\ DirectBins \subseteq Bins
    /\ Reserved \in [Bins -> Nat \ {0}] /\ RetireCycles \in [Bins -> Nat \ {0}]
    /\ {Batch, RetireMaxPages, CollectPeriod} \subseteq Nat \ {0}
    /\ MaxCandidates \in Nat

VARIABLES
    h,      \* the heap: the fields are those of Init
    w       \* the loop in progress: the fields are those of Idle

vars == <<h, w>>

None   == 0                     \* no page, and the address 0 of the links
Huge   == 0                     \* Class::Huge
Full   == NumBins + 1           \* FULL_QUEUE, the bins being 1 .. MAX_BIN
QueueCount == Full + 1
Queues == Bins \cup {Full}
Lowest(S) == CHOOSE x \in S : \A y \in S : x <= y

\* A header nobody owns.  Its words are whatever the next owner writes.
Gone == [bin |-> None, used |-> 0, cap |-> 0, full |-> FALSE, expire |-> 0,
         next |-> None, prev |-> None]

-----------------------------------------------------------------------------
(* Page headers.                                                           *)

Fresh(b) == [Gone EXCEPT !.bin = b]

\* all_free, has_free (the list holds cap - used blocks) and is_expandable.
AllFree(pg)     == pg.used = 0
HasFree(pg)     == pg.used < pg.cap
Expandable(pg)  == pg.cap < Reserved[pg.bin]
MostlyUsed(pg)  == pg.used * 8 >= Reserved[pg.bin] * 7

Extended(pg) == [pg EXCEPT !.cap = IF @ + Batch > Reserved[pg.bin]
                                   THEN Reserved[pg.bin] ELSE @ + Batch]

SetInFullQueue(x, p, inFull) == [x EXCEPT !.page[p].full = inFull]
SetExpire(x, p, n)           == [x EXCEPT !.page[p].expire = n]
SetNext(x, p, n) == IF p = None THEN x ELSE [x EXCEPT !.page[p].next = n]
SetPrev(x, p, n) == IF p = None THEN x ELSE [x EXCEPT !.page[p].prev = n]
Took(x, p)       == [x EXCEPT !.page[p].used = @ + 1]

-----------------------------------------------------------------------------
(* Queues and the direct table.                                            *)

\* update_direct
UpdateDirect(x, q) ==
    IF q \in DirectBins THEN [x EXCEPT !.direct[q] = x.first[q]] ELSE x

PushFront(x, q, p) ==
    LET f == x.first[q]
        y == SetPrev(SetPrev(SetNext(x, p, f), p, None), f, p)
    IN  UpdateDirect([y EXCEPT !.last[q] = IF f = None THEN p ELSE @,
                               !.first[q] = p,
                               !.count[q] = @ + 1,
                               !.occupied = @ \cup {q}], q)

PushBack(x, q, p) ==
    LET l == x.last[q]
        empty == x.first[q] = None
        y == SetNext(SetNext(SetPrev(x, p, l), p, None), l, p)
        z == [y EXCEPT !.first[q] = IF empty THEN p ELSE @,
                       !.last[q] = p,
                       !.count[q] = @ + 1,
                       !.occupied = @ \cup {q}]
    IN  IF empty THEN UpdateDirect(z, q) ELSE z

\* Fault: the end of the queue is not moved when its last page leaves.
Unlinked_KeepLast(x, q, p) ==
    LET b == x.page[p].prev
        n == x.page[p].next
        y == SetPrev(SetNext(x, b, n), n, b)
    IN  [SetPrev(SetNext(y, p, None), p, None) EXCEPT
            !.first[q] = IF @ = p THEN n ELSE @,
            !.count[q] = @ - 1,
            !.occupied = IF x.count[q] = 1 THEN @ \ {q} ELSE @]

Unlinked(x, q, p) ==
    LET b == x.page[p].prev
        n == x.page[p].next
        y == SetPrev(SetNext(x, b, n), n, b)
    IN  [SetPrev(SetNext(y, p, None), p, None) EXCEPT
            !.first[q] = IF @ = p THEN n ELSE @,
            !.last[q] = IF @ = p THEN b ELSE @,
            !.count[q] = @ - 1,
            !.occupied = IF x.count[q] = 1 THEN @ \ {q} ELSE @]

\* Fault: the direct table still shows the page that left.
Remove_StaleDirect(x, q, p) == Unlinked(x, q, p)

Remove(x, q, p) ==
    IF x.first[q] = p THEN UpdateDirect(Unlinked(x, q, p), q)
    ELSE Unlinked(x, q, p)

MoveToFront(x, q, p) ==
    IF x.first[q] = p THEN x ELSE PushFront(Remove(x, q, p), q, p)

MoveToFull(x, q, p) ==
    PushBack(SetInFullQueue(Remove(x, q, p), p, TRUE), Full, p)

Unfull(x, p) ==
    PushBack(SetInFullQueue(Remove(x, Full, p), p, FALSE), x.page[p].bin, p)

-----------------------------------------------------------------------------
(* Retirement and release.                                                 *)

FreePage(x, q, p) ==
    LET y == Remove(x, q, p)
    IN  [y EXCEPT !.page[p] = Gone, !.avail = @ \cup {p}]

Retire(x, p) ==
    LET q == x.page[p].bin
    IN  IF /\ x.count[q] <= RetireMaxPages
           /\ x.count[q] = 1 \/ q \in BelowDirect
        THEN [x EXCEPT !.page[p].expire = RetireCycles[q],
                       !.rmin = IF q < @ THEN q ELSE @,
                       !.rmax = IF q > @ THEN q ELSE @]
        ELSE FreePage(x, q, p)

NeedsTransition(pg) == (pg.used = 0 /\ pg.expire = 0) \/ pg.full

Transition(x, p) ==
    LET y == IF x.page[p].full THEN Unfull(x, p) ELSE x
    IN  IF AllFree(y.page[p]) THEN Retire(y, p) ELSE y

-----------------------------------------------------------------------------
(* The loop in progress: pc is the loop, q and cur the queue it is in and  *)
(* the page it visits next.  A loop that breaks clears cur.                *)

Idle == [pc |-> "idle", bin |-> Huge, q |-> None, cur |-> None, cand |-> None,
         limit |-> 0, seen |-> 0, pending |-> {}, min |-> QueueCount, max |-> 0,
         then |-> "idle"]

Searching(x, b) == [Idle EXCEPT !.pc = "search", !.bin = b, !.q = b,
                                !.cur = x.first[b], !.limit = MaxCandidates]

Collecting(x, b, then) ==
    [Idle EXCEPT !.pc = "collect", !.bin = b, !.then = then, !.q = x.rmin,
                 !.cur = IF x.rmin \in Bins THEN x.first[x.rmin] ELSE None]

Acquiring(b) == [Idle EXCEPT !.pc = "acquire", !.bin = b]

\* Heap::new, with some slots of memory already there.
Init ==
    /\ \E given \in SUBSET Pages :
           /\ \A p \in given : \A r \in Pages : r < p => r \in given
           /\ h = [first |-> [q \in Queues |-> None],
                   last  |-> [q \in Queues |-> None],
                   count |-> [q \in Queues |-> 0],
                   occupied |-> {},
                   direct |-> [b \in DirectBins |-> None],
                   page  |-> [p \in Pages |-> Gone],
                   runs  |-> {}, avail |-> given, ahead |-> Pages \ given,
                   rmin  |-> QueueCount, rmax |-> 0, generic |-> 0]
    /\ w = Idle

-----------------------------------------------------------------------------
(* The program's calls.  One whose loops have not ended keeps w busy.      *)

\* The head of its queue serves the request without a search: through the
\* direct table, or for larger bins by the check in alloc_generic.
QueueHead(b) == IF b \in DirectBins THEN h.direct[b] ELSE h.first[b]

HeadServes(b) == QueueHead(b) # None /\ HasFree(h.page[QueueHead(b)])

AllocFromHead(b) ==
    /\ w.pc = "idle"
    /\ HeadServes(b)
    /\ h' = Took(h, QueueHead(b))
    /\ UNCHANGED w

\* alloc_generic, up to its first loop.
AllocGeneric(b) ==
    /\ w.pc = "idle"
    /\ ~HeadServes(b)
    /\ LET due == h.generic + 1 >= CollectPeriod
       IN  /\ h' = [h EXCEPT !.generic = IF due THEN 0 ELSE @ + 1]
           /\ w' = IF due THEN Collecting(h, b, "search") ELSE Searching(h, b)

AllocHuge ==
    /\ w.pc = "idle"
    /\ w' = Acquiring(Huge)
    /\ UNCHANGED h

Dealloc(p) ==
    /\ w.pc = "idle"
    /\ h.page[p].used > 0
    /\ LET x == [h EXCEPT !.page[p].used = @ - 1]
       IN  h' = IF NeedsTransition(x.page[p]) THEN Transition(x, p) ELSE x
    /\ UNCHANGED w

FreeRun(p) ==
    /\ w.pc = "idle"
    /\ p \in h.runs
    /\ h' = [h EXCEPT !.runs = @ \ {p}, !.avail = @ \cup {p}]
    /\ UNCHANGED w

-----------------------------------------------------------------------------
(* find_page                                                               *)

\* One page of the queue.  next is read first: a page with no room is parked,
\* one with room may become the candidate, an available one ends the search.
SearchStep ==
    /\ w.pc = "search" /\ w.cur # None
    /\ LET pg == h.page[w.cur]
           cand == IF \/ w.cand = None
                      \/ pg.used >= h.page[w.cand].used /\ ~MostlyUsed(pg)
                   THEN w.cur ELSE w.cand
           limit == IF w.cand = None THEN MaxCandidates ELSE w.limit
       IN  IF ~HasFree(pg) /\ ~Expandable(pg)
           THEN /\ h' = MoveToFull(SetExpire(h, w.cur, 0), w.q, w.cur)
                /\ w' = [w EXCEPT !.limit = @ - 1, !.cur = pg.next]
           ELSE /\ w' = [w EXCEPT !.cand = cand, !.limit = limit - 1,
                                  !.cur = IF HasFree(pg) \/ limit <= 0
                                          THEN None ELSE pg.next]
                /\ UNCHANGED h

\* The search is over: its candidate serves the request, or a fresh page.
Choose ==
    /\ w.pc = "search" /\ w.cur = None
    /\ IF w.cand = None
       THEN /\ w' = Collecting(h, w.bin, "acquire")
            /\ UNCHANGED h
       ELSE LET pg == h.page[w.cand]
                x == [h EXCEPT !.page[w.cand] =
                          IF HasFree(pg) THEN pg ELSE Extended(pg)]
            IN  /\ h' = Took(SetExpire(MoveToFront(x, w.q, w.cand), w.cand, 0),
                             w.cand)
                /\ w' = Idle

-----------------------------------------------------------------------------
(* collect_retired                                                         *)

\* Fault: the loop does not move on from a page it frees.
CollectStep_Stay ==
    /\ w.pc = "collect" /\ h.rmin <= h.rmax /\ w.q <= h.rmax
    /\ w.cur # None /\ w.seen < RetireMaxPages
    /\ LET pg == h.page[w.cur]
           ages == pg.expire # 0 /\ AllFree(pg)
           kept == ages /\ pg.expire > 1
       IN  /\ h' = IF ages /\ ~kept THEN FreePage(h, w.q, w.cur)
                   ELSE SetExpire(h, w.cur, IF kept THEN pg.expire - 1 ELSE 0)
           /\ w' = [w EXCEPT !.cur = IF ages /\ ~kept THEN @ ELSE pg.next,
                             !.seen = @ + 1,
                             !.min = IF kept /\ w.q < @ THEN w.q ELSE @,
                             !.max = IF kept /\ w.q > @ THEN w.q ELSE @]

\* One page of a queue in the retired range.
CollectStep ==
    /\ w.pc = "collect" /\ h.rmin <= h.rmax /\ w.q <= h.rmax
    /\ w.cur # None /\ w.seen < RetireMaxPages
    /\ LET pg == h.page[w.cur]
           ages == pg.expire # 0 /\ AllFree(pg)
           kept == ages /\ pg.expire > 1
       IN  /\ h' = IF ages /\ ~kept THEN FreePage(h, w.q, w.cur)
                   ELSE SetExpire(h, w.cur, IF kept THEN pg.expire - 1 ELSE 0)
           /\ w' = [w EXCEPT !.cur = pg.next, !.seen = @ + 1,
                             !.min = IF kept /\ w.q < @ THEN w.q ELSE @,
                             !.max = IF kept /\ w.q > @ THEN w.q ELSE @]

CollectNextQueue ==
    /\ w.pc = "collect" /\ h.rmin <= h.rmax /\ w.q <= h.rmax
    /\ w.cur = None \/ w.seen = RetireMaxPages
    /\ w' = [w EXCEPT !.q = @ + 1, !.seen = 0,
                      !.cur = IF w.q + 1 \in Bins THEN h.first[w.q + 1] ELSE None]
    /\ UNCHANGED h

CollectEnd ==
    /\ w.pc = "collect"
    /\ h.rmin > h.rmax \/ w.q > h.rmax
    /\ h' = [h EXCEPT !.rmin = w.min, !.rmax = w.max]
    /\ w' = IF w.then = "search" THEN Searching(h, w.bin) ELSE Acquiring(w.bin)

-----------------------------------------------------------------------------
(* acquire_run and release_empty_pages                                     *)

\* A slot of memory for a run, or for a fresh page that serves its request.
Granted(x, b, p) ==
    LET y == [x EXCEPT !.avail = @ \ {p}, !.ahead = @ \ {p}]
        z == PushFront([y EXCEPT !.page[p] = Fresh(b)], b, p)
    IN  IF b = Huge THEN [y EXCEPT !.runs = @ \cup {p}]
        ELSE Took([z EXCEPT !.page[p] = Extended(@)], p)

Acquire ==
    /\ w.pc = "acquire"
    /\ IF h.avail # {}
       THEN /\ h' = Granted(h, w.bin, Lowest(h.avail))
            /\ w' = Idle
       ELSE /\ w' = [w EXCEPT !.pc = "release", !.pending = h.occupied \ {Full}]
            /\ UNCHANGED h

ReleaseStep ==
    /\ w.pc = "release" /\ w.cur # None
    /\ LET pg == h.page[w.cur]
       IN  /\ h' = IF AllFree(pg) THEN FreePage(h, w.q, w.cur)
                   ELSE SetExpire(h, w.cur, 0)
           /\ w' = [w EXCEPT !.cur = pg.next]

\* Fault: the bit of the queue is not cleared from the pending ones.
ReleaseNextQueue_KeepBit ==
    /\ w.pc = "release" /\ w.cur = None /\ w.pending # {}
    /\ LET q == Lowest(w.pending) IN w' = [w EXCEPT !.q = q, !.cur = h.first[q]]
    /\ UNCHANGED h

ReleaseNextQueue ==
    /\ w.pc = "release" /\ w.cur = None /\ w.pending # {}
    /\ LET q == Lowest(w.pending)
       IN  w' = [w EXCEPT !.q = q, !.pending = @ \ {q}, !.cur = h.first[q]]
    /\ UNCHANGED h

ReleaseEnd ==
    /\ w.pc = "release" /\ w.cur = None /\ w.pending = {}
    /\ h' = [h EXCEPT !.rmin = QueueCount, !.rmax = 0]
    /\ w' = [Idle EXCEPT !.pc = "grow", !.bin = w.bin]

\* slices::acquire: what was released serves, or memory that is grown.
Grow ==
    /\ w.pc = "grow"
    /\ h.avail \cup h.ahead # {}
    /\ h' = Granted(h, w.bin, Lowest(IF h.avail # {} THEN h.avail ELSE h.ahead))
    /\ w' = Idle

\* The host refuses, and so does the allocator.
GrowRefused ==
    /\ w.pc = "grow"
    /\ h.avail = {}
    /\ w' = Idle
    /\ UNCHANGED h

-----------------------------------------------------------------------------

Call ==
    \/ \E b \in Bins : AllocFromHead(b)
    \/ \E b \in Bins : AllocGeneric(b)
    \/ AllocHuge
    \/ \E p \in Pages : Dealloc(p)
    \/ \E p \in Pages : FreeRun(p)

Loop ==
    \/ SearchStep \/ Choose
    \/ CollectStep \/ CollectNextQueue \/ CollectEnd
    \/ Acquire
    \/ ReleaseStep \/ ReleaseNextQueue \/ ReleaseEnd
    \/ Grow \/ GrowRefused

Next == Call \/ Loop

\* The thread that made a call runs it; nothing obliges it to make another.
Spec == Init /\ [][Next]_vars /\ WF_vars(Loop)

-----------------------------------------------------------------------------
(* validate_queue and validate_direct_entry                                *)

\* The pages met by following links from start, None once they end.  It goes
\* one step past the number of pages, so that a cycle shows.
Follow(start, link) ==
    LET at[n \in 1 .. (NumPages + 1)] ==
            IF n = 1 THEN start
            ELSE IF at[n - 1] = None THEN None ELSE h.page[at[n - 1]][link]
    IN  at

Length(walk) == Cardinality({n \in DOMAIN walk : walk[n] # None})
Members(q) == LET at == Follow(h.first[q], "next")
              IN  [n \in 1 .. Length(at) |-> at[n]]
In(q)      == {Members(q)[n] : n \in DOMAIN Members(q)}

ValidMember(q, p) ==
    LET pg == h.page[p]
    IN  /\ pg.used <= pg.cap /\ pg.cap <= Reserved[pg.bin]
        /\ IF q = Full THEN pg.full /\ ~HasFree(pg) /\ ~Expandable(pg)
           ELSE pg.bin = q /\ ~pg.full
        /\ p \notin h.avail \cup h.ahead \cup h.runs

ValidQueue(q) ==
    LET s == Members(q)
    IN  /\ (q \in h.occupied) <=> (h.count[q] > 0)
        /\ h.count[q] = Len(s)
        /\ h.last[q] = IF s = <<>> THEN None ELSE s[Len(s)]
        /\ \A n \in DOMAIN s :
               /\ h.page[s[n]].prev = IF n = 1 THEN None ELSE s[n - 1]
               /\ s[n] \in Pages /\ h.page[s[n]].bin \in Bins
               /\ ValidMember(q, s[n])

ValidDirectEntry(b) == h.direct[b] = h.first[b]

-----------------------------------------------------------------------------
(* Properties                                                              *)

InUse == {p \in Pages : h.page[p] # Gone}

\* Between any two iterations of any loop every queue is valid: its links in
\* both directions, its ends, count and occupied bit agree, its members are
\* pages in use of its bin, and the direct table shows their first
\* (validate_queue_inner, validate_direct_entry).  And no page is lost: every
\* page in use is in a queue.
LinksValid ==
    /\ \A q \in Queues : ValidQueue(q)
    /\ \A b \in DirectBins : ValidDirectEntry(b)
    /\ InUse = UNION {In(q) : q \in Queues}

\* The page a loop has saved to visit next is still in the queue the loop
\* walks, whatever the iteration did to the page before it ("next is read
\* before the page can be freed").
CursorInQueue == w.cur # None => w.cur \in In(w.q)

\* Every loop ends: a call that started returns, served or refused.
CallReturns == w.pc # "idle" ~> w.pc = "idle"

\* Following the links spells a list for every queue, and each iteration of
\* each loop is one operation on those lists (module PageLists).
Lists == INSTANCE PageLists WITH
             lists <- [q \in Queues |-> Members(q)],
             home  <- [p \in Pages |-> h.page[p].bin],
             table <- h.direct
ListsKept == Lists!Spec
==============================================================================
