---------------------------- MODULE QueuesProofs ----------------------------
(***************************************************************************)
(* Theorems about module Queues, for every number of pages and bins and    *)
(* every program: the links spell a list for every queue, each iteration   *)
(* of each loop is an operation on those lists, and the page a loop has    *)
(* saved is one of the list it walks.                                      *)
(***************************************************************************)
EXTENDS Queues, FiniteSetTheorems, SequenceTheorems, TLAPS

-----------------------------------------------------------------------------
(* The heap and the loop.                                                  *)

Places   == Pages \cup {None}
PageRecs == [bin : Bins \cup {None}, used : Nat, cap : Nat, full : BOOLEAN,
             expire : Nat, next : Places, prev : Places]
Heaps    == [first : [Queues -> Places], last : [Queues -> Places],
             count : [Queues -> Nat], occupied : SUBSET Queues,
             direct : [DirectBins -> Places], page : [Pages -> PageRecs],
             runs : SUBSET Pages, avail : SUBSET Pages, ahead : SUBSET Pages,
             rmin : Bins \cup {QueueCount}, rmax : Bins \cup {0}, generic : Nat]
Walks    == [pc : {"idle", "search", "collect", "acquire", "release", "grow"},
             bin : Bins \cup {Huge}, q : Nat, cur : Places, cand : Places,
             limit : Int, seen : Nat, pending : SUBSET Bins,
             min : Bins \cup {QueueCount}, max : Bins \cup {0},
             then : {"idle", "search", "acquire"}]

\* What heap values agree on: all but the pages, and what is no queue.
SameButPages(x, y) ==
    /\ y.first = x.first /\ y.last = x.last /\ y.count = x.count
    /\ y.occupied = x.occupied /\ y.direct = x.direct
SameRest(x, y) ==
    /\ y.runs = x.runs /\ y.avail = x.avail /\ y.ahead = x.ahead
    /\ y.rmin = x.rmin /\ y.rmax = x.rmax /\ y.generic = x.generic

\* Page headers that differ in their links alone.
SameBody(a, b) ==
    /\ b.bin = a.bin /\ b.used = a.used /\ b.cap = a.cap
    /\ b.full = a.full /\ b.expire = a.expire

\* Numbers: None is no page and no queue, Full is no bin.
LEMMA NumberFacts ==
    /\ NumPages \in Nat /\ NumBins \in Nat
    /\ Pages \subseteq Nat \ {0} /\ Bins \subseteq Nat \ {0}
    /\ None \notin Pages /\ None \notin Queues /\ None \notin Bins
    /\ Full \notin Bins /\ Full \in Queues /\ Bins \subseteq Queues
    /\ DirectBins \subseteq Bins /\ BelowDirect \subseteq DirectBins
    /\ Full \notin DirectBins /\ Queues \subseteq Nat
    /\ QueueCount \in Nat /\ QueueCount \notin Queues
BY QueuesAssumption DEF Pages, Bins, None, Full, Queues, QueueCount

LEMMA PolicyFacts ==
    /\ \A b \in Bins : Reserved[b] \in Nat \ {0} /\ RetireCycles[b] \in Nat \ {0}
    /\ Batch \in Nat \ {0} /\ RetireMaxPages \in Nat \ {0}
    /\ CollectPeriod \in Nat \ {0} /\ MaxCandidates \in Nat
BY QueuesAssumption

LEMMA GoneIs == Gone \in PageRecs
BY DEF Gone, PageRecs, Places, None

-----------------------------------------------------------------------------
(* The operations on links, field by field.                                *)

LEMMA SetNextIs ==
    ASSUME NEW x \in Heaps, NEW p \in Places, NEW n \in Places
    PROVE  /\ SetNext(x, p, n) \in Heaps
           /\ SameButPages(x, SetNext(x, p, n)) /\ SameRest(x, SetNext(x, p, n))
           /\ \A r \in Pages : SetNext(x, p, n).page[r] =
                  IF r = p THEN [x.page[r] EXCEPT !.next = n] ELSE x.page[r]
<1>1. CASE p = None
      BY <1>1, NumberFacts DEF SetNext, SameButPages, SameRest
<1>2. CASE p \in Pages
  <2>1. [x.page[p] EXCEPT !.next = n] \in PageRecs
        BY <1>2 DEF Heaps, PageRecs
  <2>2. SetNext(x, p, n) = [x EXCEPT !.page = [x.page EXCEPT ![p] = [x.page[p] EXCEPT !.next = n]]]
        BY <1>2, NumberFacts DEF SetNext
  <2>3. [x.page EXCEPT ![p] = [x.page[p] EXCEPT !.next = n]] \in [Pages -> PageRecs]
        BY <2>1 DEF Heaps
  <2> QED BY <1>2, <2>2, <2>3, SMTT(30) DEF Heaps, SameButPages, SameRest
<1> QED BY <1>1, <1>2 DEF Places

LEMMA SetPrevIs ==
    ASSUME NEW x \in Heaps, NEW p \in Places, NEW n \in Places
    PROVE  /\ SetPrev(x, p, n) \in Heaps
           /\ SameButPages(x, SetPrev(x, p, n)) /\ SameRest(x, SetPrev(x, p, n))
           /\ \A r \in Pages : SetPrev(x, p, n).page[r] =
                  IF r = p THEN [x.page[r] EXCEPT !.prev = n] ELSE x.page[r]
<1>1. CASE p = None
      BY <1>1, NumberFacts DEF SetPrev, SameButPages, SameRest
<1>2. CASE p \in Pages
  <2>1. [x.page[p] EXCEPT !.prev = n] \in PageRecs
        BY <1>2 DEF Heaps, PageRecs
  <2>2. SetPrev(x, p, n) = [x EXCEPT !.page = [x.page EXCEPT ![p] = [x.page[p] EXCEPT !.prev = n]]]
        BY <1>2, NumberFacts DEF SetPrev
  <2>3. [x.page EXCEPT ![p] = [x.page[p] EXCEPT !.prev = n]] \in [Pages -> PageRecs]
        BY <2>1 DEF Heaps
  <2> QED BY <1>2, <2>2, <2>3, SMTT(30) DEF Heaps, SameButPages, SameRest
<1> QED BY <1>1, <1>2 DEF Places

\* The direct table follows the first page of its queues.
LEMMA UpdateDirectIs ==
    ASSUME NEW x \in Heaps, NEW q \in Queues
    PROVE  LET y == UpdateDirect(x, q)
           IN  /\ y \in Heaps /\ SameRest(x, y)
               /\ y.first = x.first /\ y.last = x.last /\ y.count = x.count
               /\ y.occupied = x.occupied /\ y.page = x.page
               /\ \A b \in DirectBins :
                      y.direct[b] = IF b = q THEN x.first[q] ELSE x.direct[b]
<1>1. CASE q \in DirectBins
      BY <1>1 DEF UpdateDirect, Heaps, SameRest
<1>2. CASE q \notin DirectBins
      BY <1>2 DEF UpdateDirect, Heaps, SameRest
<1> QED BY <1>1, <1>2

\* What an operation on queue q did: its ends, its count and its bit are f, l,
\* n and o, the links of page r are next[r] and prev[r], and nothing else of
\* the heap changed.
Relinked(x, y, q, f, l, n, occ) ==
    /\ y \in Heaps /\ SameRest(x, y)
    /\ y.first = [x.first EXCEPT ![q] = f]
    /\ y.last = [x.last EXCEPT ![q] = l]
    /\ y.count = [x.count EXCEPT ![q] = n]
    /\ y.occupied = occ
    /\ \A r \in Pages : SameBody(x.page[r], y.page[r])

\* The direct table shows the first pages.
DirectShows(x) == \A b \in DirectBins : x.direct[b] = x.first[b]

\* Page p became the first of queue q.
PushedFront(x, y, q, p) ==
    /\ Relinked(x, y, q, p, IF x.first[q] = None THEN p ELSE x.last[q],
                x.count[q] + 1, x.occupied \cup {q})
    /\ DirectShows(y)
    /\ \A r \in Pages :
           /\ y.page[r].next = IF r = p THEN x.first[q] ELSE x.page[r].next
           /\ y.page[r].prev = IF r = p THEN None
                               ELSE IF r = x.first[q] THEN p
                               ELSE x.page[r].prev
           /\ r # p /\ r # x.first[q] => y.page[r] = x.page[r]

LEMMA PushFrontIs ==
    ASSUME NEW x \in Heaps, NEW q \in Queues, NEW p \in Pages, x.first[q] # p,
           DirectShows(x)
    PROVE  PushedFront(x, PushFront(x, q, p), q, p)
<1> DEFINE f == x.first[q]
           a == SetNext(x, p, f)
           b == SetPrev(a, p, None)
           c == SetPrev(b, f, p)
           l == IF f = None THEN p ELSE x.last[q]
           n == x.count[q] + 1
           o == x.occupied \cup {q}
           z == [c EXCEPT !.first[q] = p, !.last[q] = l, !.count[q] = n, !.occupied = o]
           y == UpdateDirect(z, q)
<1>1. f \in Places /\ l \in Places /\ p \in Places /\ None \in Places
      BY DEF Heaps, Places
<1>2. n \in Nat /\ o \in SUBSET Queues
      BY DEF Heaps
<1>3. /\ a \in Heaps /\ SameButPages(x, a) /\ SameRest(x, a)
      /\ \A r \in Pages : a.page[r] = IF r = p THEN [x.page[r] EXCEPT !.next = f] ELSE x.page[r]
  <2> HIDE DEF f
  <2> QED BY <1>1, SetNextIs
<1>4. /\ b \in Heaps /\ SameButPages(a, b) /\ SameRest(a, b)
      /\ \A r \in Pages : b.page[r] = IF r = p THEN [a.page[r] EXCEPT !.prev = None] ELSE a.page[r]
  <2> HIDE DEF a
  <2> QED BY <1>1, <1>3, SetPrevIs
<1>5. /\ c \in Heaps /\ SameButPages(b, c) /\ SameRest(b, c)
      /\ \A r \in Pages : c.page[r] = IF r = f THEN [b.page[r] EXCEPT !.prev = p] ELSE b.page[r]
  <2> HIDE DEF f, b
  <2> QED BY <1>1, <1>4, SetPrevIs
<1>6. SameButPages(x, c) /\ SameRest(x, c)
  <2> HIDE DEF a, b, c
  <2> QED BY <1>3, <1>4, <1>5 DEF SameButPages, SameRest
<1>7. f # p
      OBVIOUS
<1>8. \A r \in Pages :
          /\ SameBody(x.page[r], c.page[r])
          /\ c.page[r].next = IF r = p THEN f ELSE x.page[r].next
          /\ c.page[r].prev = IF r = p THEN None ELSE IF r = f THEN p ELSE x.page[r].prev
          /\ r # p /\ r # f => c.page[r] = x.page[r]
  <2> HIDE DEF a, b, c, f
  <2> TAKE r \in Pages
  <2>1. x.page[r] \in PageRecs /\ a.page[r] \in PageRecs /\ b.page[r] \in PageRecs
        BY <1>3, <1>4 DEF Heaps
  <2>2. SameBody(x.page[r], a.page[r])
        /\ a.page[r].next = (IF r = p THEN f ELSE x.page[r].next)
        /\ a.page[r].prev = x.page[r].prev
        BY <1>3, <2>1 DEF SameBody, PageRecs
  <2>3. SameBody(a.page[r], b.page[r])
        /\ b.page[r].prev = (IF r = p THEN None ELSE a.page[r].prev)
        /\ b.page[r].next = a.page[r].next
        BY <1>4, <2>1 DEF SameBody, PageRecs
  <2>4. SameBody(b.page[r], c.page[r])
        /\ c.page[r].prev = (IF r = f THEN p ELSE b.page[r].prev)
        /\ c.page[r].next = b.page[r].next
        BY <1>5, <2>1 DEF SameBody, PageRecs
  <2>5. r # p /\ r # f => c.page[r] = x.page[r]
        BY <1>3, <1>4, <1>5
  <2> QED BY <2>2, <2>3, <2>4, <2>5, <1>7 DEF SameBody
<1>9. Relinked(x, z, q, p, l, n, o)
      /\ z.page = c.page /\ z.direct = x.direct
  <2> HIDE DEF a, b, c, l, n, o
  <2>1. /\ [c.first EXCEPT ![q] = p] \in [Queues -> Places]
        /\ [c.last EXCEPT ![q] = l] \in [Queues -> Places]
        /\ [c.count EXCEPT ![q] = n] \in [Queues -> Nat]
        BY <1>1, <1>2, <1>5 DEF Heaps
  <2>2. /\ z \in Heaps /\ z.first = [c.first EXCEPT ![q] = p]
        /\ z.last = [c.last EXCEPT ![q] = l] /\ z.count = [c.count EXCEPT ![q] = n]
        /\ z.occupied = o /\ z.direct = c.direct /\ z.page = c.page
        /\ SameRest(c, z)
        BY <1>2, <1>5, <2>1 DEF Heaps, SameRest
  <2> HIDE DEF z
  <2>3. SameRest(x, z)
        BY <1>6, <2>2 DEF SameRest
  <2> QED BY <1>6, <1>8, <2>2, <2>3 DEF Relinked, SameButPages
<1>10. PushFront(x, q, p) = y
  <2>1. PushFront(x, q, p)
           = UpdateDirect([c EXCEPT !.last[q] = IF f = None THEN p ELSE @,
                                    !.first[q] = p, !.count[q] = @ + 1,
                                    !.occupied = @ \cup {q}], q)
        BY DEF PushFront
  <2> HIDE DEF c
  <2>2. c.last[q] = x.last[q] /\ c.count[q] = x.count[q] /\ c.occupied = x.occupied
        BY <1>6 DEF SameButPages
  <2>3. [c EXCEPT !.last[q] = IF f = None THEN p ELSE @,
                  !.first[q] = p, !.count[q] = @ + 1, !.occupied = @ \cup {q}] = z
    <3> HIDE DEF f
    <3> QED BY <2>2, <1>5 DEF Heaps
  <2> QED BY <2>1, <2>3
<1>11. z \in Heaps
       BY <1>9 DEF Relinked
<1>12. /\ y \in Heaps /\ SameRest(z, y) /\ y.first = z.first /\ y.last = z.last
       /\ y.count = z.count /\ y.occupied = z.occupied /\ y.page = z.page
       /\ \A d \in DirectBins : y.direct[d] = IF d = q THEN z.first[q] ELSE z.direct[d]
  <2> HIDE DEF z
  <2> QED BY <1>11, UpdateDirectIs
<1> HIDE DEF z, y, c, l, f, n, o
<1>13. Relinked(x, y, q, p, l, n, o)
       BY <1>9, <1>12 DEF Relinked, SameRest
<1>14. DirectShows(y)
       BY <1>9, <1>12, NumberFacts DEF Relinked, DirectShows, Heaps
<1> QED BY <1>8, <1>9, <1>10, <1>12, <1>13, <1>14 DEF PushedFront, f, l, n, o

\* Page p became the last of queue q.
PushedBack(x, y, q, p) ==
    /\ Relinked(x, y, q, IF x.first[q] = None THEN p ELSE x.first[q], p,
                x.count[q] + 1, x.occupied \cup {q})
    /\ DirectShows(y)
    /\ \A r \in Pages :
           /\ y.page[r].prev = IF r = p THEN x.last[q] ELSE x.page[r].prev
           /\ y.page[r].next = IF r = p THEN None
                               ELSE IF r = x.last[q] THEN p
                               ELSE x.page[r].next
           /\ r # p /\ r # x.last[q] => y.page[r] = x.page[r]

LEMMA PushBackIs ==
    ASSUME NEW x \in Heaps, NEW q \in Queues, NEW p \in Pages, x.last[q] # p,
           DirectShows(x)
    PROVE  PushedBack(x, PushBack(x, q, p), q, p)
<1> DEFINE l == x.last[q]
           a == SetPrev(x, p, l)
           b == SetNext(a, p, None)
           c == SetNext(b, l, p)
           f == IF x.first[q] = None THEN p ELSE x.first[q]
           n == x.count[q] + 1
           o == x.occupied \cup {q}
           z == [c EXCEPT !.first[q] = f, !.last[q] = p, !.count[q] = n, !.occupied = o]
           y == IF x.first[q] = None THEN UpdateDirect(z, q) ELSE z
<1>1. l \in Places /\ f \in Places /\ p \in Places /\ None \in Places
      BY DEF Heaps, Places
<1>2. n \in Nat /\ o \in SUBSET Queues
      BY DEF Heaps
<1>3. /\ a \in Heaps /\ SameButPages(x, a) /\ SameRest(x, a)
      /\ \A r \in Pages : a.page[r] = IF r = p THEN [x.page[r] EXCEPT !.prev = l] ELSE x.page[r]
  <2> HIDE DEF l
  <2> QED BY <1>1, SetPrevIs
<1>4. /\ b \in Heaps /\ SameButPages(a, b) /\ SameRest(a, b)
      /\ \A r \in Pages : b.page[r] = IF r = p THEN [a.page[r] EXCEPT !.next = None] ELSE a.page[r]
  <2> HIDE DEF a
  <2> QED BY <1>1, <1>3, SetNextIs
<1>5. /\ c \in Heaps /\ SameButPages(b, c) /\ SameRest(b, c)
      /\ \A r \in Pages : c.page[r] = IF r = l THEN [b.page[r] EXCEPT !.next = p] ELSE b.page[r]
  <2> HIDE DEF l, b
  <2> QED BY <1>1, <1>4, SetNextIs
<1>6. SameButPages(x, c) /\ SameRest(x, c)
  <2> HIDE DEF a, b, c
  <2> QED BY <1>3, <1>4, <1>5 DEF SameButPages, SameRest
<1>7. l # p
      OBVIOUS
<1>8. \A r \in Pages :
          /\ SameBody(x.page[r], c.page[r])
          /\ c.page[r].prev = IF r = p THEN l ELSE x.page[r].prev
          /\ c.page[r].next = IF r = p THEN None ELSE IF r = l THEN p ELSE x.page[r].next
          /\ r # p /\ r # l => c.page[r] = x.page[r]
  <2> HIDE DEF a, b, c, l
  <2> TAKE r \in Pages
  <2>1. x.page[r] \in PageRecs /\ a.page[r] \in PageRecs /\ b.page[r] \in PageRecs
        BY <1>3, <1>4 DEF Heaps
  <2>2. SameBody(x.page[r], a.page[r])
        /\ a.page[r].prev = (IF r = p THEN l ELSE x.page[r].prev)
        /\ a.page[r].next = x.page[r].next
        BY <1>3, <2>1 DEF SameBody, PageRecs
  <2>3. SameBody(a.page[r], b.page[r])
        /\ b.page[r].next = (IF r = p THEN None ELSE a.page[r].next)
        /\ b.page[r].prev = a.page[r].prev
        BY <1>4, <2>1 DEF SameBody, PageRecs
  <2>4. SameBody(b.page[r], c.page[r])
        /\ c.page[r].next = (IF r = l THEN p ELSE b.page[r].next)
        /\ c.page[r].prev = b.page[r].prev
        BY <1>5, <2>1 DEF SameBody, PageRecs
  <2>5. r # p /\ r # l => c.page[r] = x.page[r]
        BY <1>3, <1>4, <1>5
  <2> QED BY <2>2, <2>3, <2>4, <2>5, <1>7 DEF SameBody
<1>9. Relinked(x, z, q, f, p, n, o)
      /\ z.page = c.page /\ z.direct = x.direct
  <2> HIDE DEF a, b, c, f, n, o
  <2>1. /\ [c.first EXCEPT ![q] = f] \in [Queues -> Places]
        /\ [c.last EXCEPT ![q] = p] \in [Queues -> Places]
        /\ [c.count EXCEPT ![q] = n] \in [Queues -> Nat]
        BY <1>1, <1>2, <1>5 DEF Heaps
  <2>2. /\ z \in Heaps /\ z.first = [c.first EXCEPT ![q] = f]
        /\ z.last = [c.last EXCEPT ![q] = p] /\ z.count = [c.count EXCEPT ![q] = n]
        /\ z.occupied = o /\ z.direct = c.direct /\ z.page = c.page
        /\ SameRest(c, z)
        BY <1>2, <1>5, <2>1 DEF Heaps, SameRest
  <2> HIDE DEF z
  <2>3. SameRest(x, z)
        BY <1>6, <2>2 DEF SameRest
  <2> QED BY <1>6, <1>8, <2>2, <2>3 DEF Relinked, SameButPages
<1>10. PushBack(x, q, p) = y
  <2> DEFINE z0 == [c EXCEPT !.first[q] = IF x.first[q] = None THEN p ELSE @, !.last[q] = p,
                             !.count[q] = @ + 1, !.occupied = @ \cup {q}]
  <2>1. PushBack(x, q, p) = IF x.first[q] = None THEN UpdateDirect(z0, q) ELSE z0
        BY DEF PushBack
  <2> HIDE DEF c
  <2>2. c.first[q] = x.first[q] /\ c.count[q] = x.count[q] /\ c.occupied = x.occupied
        BY <1>6 DEF SameButPages
  <2>3. z0 = z
        BY <2>2, <1>5 DEF Heaps
  <2> HIDE DEF z, z0
  <2> QED BY <2>1, <2>3
<1>11. z \in Heaps
       BY <1>9 DEF Relinked
<1>12. /\ y \in Heaps /\ SameRest(z, y) /\ y.first = z.first /\ y.last = z.last
       /\ y.count = z.count /\ y.occupied = z.occupied /\ y.page = z.page
       /\ \A d \in DirectBins : y.direct[d] = IF d = q /\ x.first[q] = None
                                              THEN z.first[q] ELSE z.direct[d]
  <2> HIDE DEF z
  <2>1. CASE x.first[q] = None
        BY <2>1, <1>11, UpdateDirectIs
  <2>2. CASE x.first[q] # None
        BY <2>2, <1>11 DEF SameRest
  <2> QED BY <2>1, <2>2
<1>13. f = IF x.first[q] = None THEN p ELSE x.first[q]
       OBVIOUS
<1> HIDE DEF z, y, c, l, f, n, o
<1>14. Relinked(x, y, q, f, p, n, o)
       BY <1>9, <1>12 DEF Relinked, SameRest
<1>15. DirectShows(y)
       BY <1>9, <1>12, <1>13, NumberFacts DEF Relinked, DirectShows, Heaps
<1> QED BY <1>8, <1>9, <1>10, <1>12, <1>14, <1>15 DEF PushedBack, f, l, n, o

\* Page p left queue q: its neighbours are b before it and n after it.
Removed(x, y, q, p) ==
    LET b == x.page[p].prev
        n == x.page[p].next
    IN  /\ Relinked(x, y, q, IF x.first[q] = p THEN n ELSE x.first[q],
                    IF x.last[q] = p THEN b ELSE x.last[q], x.count[q] - 1,
                    IF x.count[q] = 1 THEN x.occupied \ {q} ELSE x.occupied)
        /\ DirectShows(y)
        /\ \A r \in Pages :
               /\ y.page[r].next = IF r = p THEN None ELSE IF r = b THEN n
                                   ELSE x.page[r].next
               /\ y.page[r].prev = IF r = p THEN None ELSE IF r = n THEN b
                                   ELSE x.page[r].prev
               /\ r # p /\ r # b /\ r # n => y.page[r] = x.page[r]

LEMMA RemoveIs ==
    ASSUME NEW x \in Heaps, NEW q \in Queues, NEW p \in Pages,
           x.page[p].prev # p, x.page[p].next # p, x.count[q] > 0, DirectShows(x)
    PROVE  Removed(x, Remove(x, q, p), q, p)
<1> DEFINE b == x.page[p].prev
           n == x.page[p].next
           a1 == SetNext(x, b, n)
           a2 == SetPrev(a1, n, b)
           a3 == SetNext(a2, p, None)
           c == SetPrev(a3, p, None)
           f == IF x.first[q] = p THEN n ELSE x.first[q]
           l == IF x.last[q] = p THEN b ELSE x.last[q]
           k == x.count[q] - 1
           o == IF x.count[q] = 1 THEN x.occupied \ {q} ELSE x.occupied
           z == [c EXCEPT !.first[q] = f, !.last[q] = l, !.count[q] = k, !.occupied = o]
           y == IF x.first[q] = p THEN UpdateDirect(z, q) ELSE z
<1>1. /\ b \in Places /\ n \in Places /\ f \in Places /\ l \in Places
      /\ p \in Places /\ None \in Places /\ b # p /\ n # p
      BY DEF Heaps, PageRecs, Places
<1>2. k \in Nat /\ o \in SUBSET Queues
      BY DEF Heaps
<1>3. /\ a1 \in Heaps /\ SameButPages(x, a1) /\ SameRest(x, a1)
      /\ \A r \in Pages : a1.page[r] = IF r = b THEN [x.page[r] EXCEPT !.next = n] ELSE x.page[r]
  <2> HIDE DEF b, n
  <2> QED BY <1>1, SetNextIs
<1>4. /\ a2 \in Heaps /\ SameButPages(a1, a2) /\ SameRest(a1, a2)
      /\ \A r \in Pages : a2.page[r] = IF r = n THEN [a1.page[r] EXCEPT !.prev = b] ELSE a1.page[r]
  <2> HIDE DEF a1, b, n
  <2> QED BY <1>1, <1>3, SetPrevIs
<1>5. /\ a3 \in Heaps /\ SameButPages(a2, a3) /\ SameRest(a2, a3)
      /\ \A r \in Pages : a3.page[r] = IF r = p THEN [a2.page[r] EXCEPT !.next = None] ELSE a2.page[r]
  <2> HIDE DEF a2
  <2> QED BY <1>1, <1>4, SetNextIs
<1>6. /\ c \in Heaps /\ SameButPages(a3, c) /\ SameRest(a3, c)
      /\ \A r \in Pages : c.page[r] = IF r = p THEN [a3.page[r] EXCEPT !.prev = None] ELSE a3.page[r]
  <2> HIDE DEF a3
  <2> QED BY <1>1, <1>5, SetPrevIs, SMTT(30)
<1>7. SameButPages(x, c) /\ SameRest(x, c)
  <2> HIDE DEF a1, a2, a3, c
  <2> QED BY <1>3, <1>4, <1>5, <1>6 DEF SameButPages, SameRest
<1>8. \A r \in Pages :
          /\ SameBody(x.page[r], c.page[r])
          /\ c.page[r].next = IF r = p THEN None ELSE IF r = b THEN n ELSE x.page[r].next
          /\ c.page[r].prev = IF r = p THEN None ELSE IF r = n THEN b ELSE x.page[r].prev
          /\ r # p /\ r # b /\ r # n => c.page[r] = x.page[r]
  <2> HIDE DEF a1, a2, a3, c, b, n
  <2> TAKE r \in Pages
  <2>1. /\ x.page[r] \in PageRecs /\ a1.page[r] \in PageRecs
        /\ a2.page[r] \in PageRecs /\ a3.page[r] \in PageRecs
        BY <1>3, <1>4, <1>5 DEF Heaps
  <2>2. SameBody(x.page[r], a1.page[r])
        /\ a1.page[r].next = (IF r = b THEN n ELSE x.page[r].next)
        /\ a1.page[r].prev = x.page[r].prev
        BY <1>3, <2>1 DEF SameBody, PageRecs
  <2>3. SameBody(a1.page[r], a2.page[r])
        /\ a2.page[r].prev = (IF r = n THEN b ELSE a1.page[r].prev)
        /\ a2.page[r].next = a1.page[r].next
        BY <1>4, <2>1 DEF SameBody, PageRecs
  <2>4. SameBody(a2.page[r], a3.page[r])
        /\ a3.page[r].next = (IF r = p THEN None ELSE a2.page[r].next)
        /\ a3.page[r].prev = a2.page[r].prev
        BY <1>5, <2>1 DEF SameBody, PageRecs
  <2>5. SameBody(a3.page[r], c.page[r])
        /\ c.page[r].prev = (IF r = p THEN None ELSE a3.page[r].prev)
        /\ c.page[r].next = a3.page[r].next
        BY <1>6, <2>1 DEF SameBody, PageRecs
  <2>6. r # p /\ r # b /\ r # n => c.page[r] = x.page[r]
        BY <1>3, <1>4, <1>5, <1>6
  <2> QED BY <2>2, <2>3, <2>4, <2>5, <2>6, <1>1 DEF SameBody
<1>9. Relinked(x, z, q, f, l, k, o)
      /\ z.page = c.page /\ z.direct = x.direct
  <2> HIDE DEF a1, a2, a3, c, f, l, k, o
  <2>1. /\ [c.first EXCEPT ![q] = f] \in [Queues -> Places]
        /\ [c.last EXCEPT ![q] = l] \in [Queues -> Places]
        /\ [c.count EXCEPT ![q] = k] \in [Queues -> Nat]
        BY <1>1, <1>2, <1>6 DEF Heaps
  <2>2. /\ z \in Heaps /\ z.first = [c.first EXCEPT ![q] = f]
        /\ z.last = [c.last EXCEPT ![q] = l] /\ z.count = [c.count EXCEPT ![q] = k]
        /\ z.occupied = o /\ z.direct = c.direct /\ z.page = c.page
        /\ SameRest(c, z)
        BY <1>2, <1>6, <2>1 DEF Heaps, SameRest
  <2> HIDE DEF z
  <2>3. SameRest(x, z)
        BY <1>7, <2>2 DEF SameRest
  <2> QED BY <1>7, <1>8, <2>2, <2>3 DEF Relinked, SameButPages
<1>10. Remove(x, q, p) = y
  <2> DEFINE z0 == [c EXCEPT !.first[q] = IF @ = p THEN n ELSE @,
                             !.last[q] = IF @ = p THEN b ELSE @,
                             !.count[q] = @ - 1,
                             !.occupied = IF x.count[q] = 1 THEN @ \ {q} ELSE @]
  <2>1. Unlinked(x, q, p) = z0
        BY DEF Unlinked
  <2> HIDE DEF c, b, n
  <2>2. /\ c.first[q] = x.first[q] /\ c.count[q] = x.count[q]
        /\ c.occupied = x.occupied /\ c.last[q] = x.last[q]
        BY <1>7 DEF SameButPages
  <2>3. z0 = z
        BY <2>2, <1>6 DEF Heaps
  <2> HIDE DEF z, z0
  <2> QED BY <2>1, <2>3 DEF Remove
<1>11. z \in Heaps
       BY <1>9 DEF Relinked
<1>12. /\ y \in Heaps /\ SameRest(z, y) /\ y.first = z.first /\ y.last = z.last
       /\ y.count = z.count /\ y.occupied = z.occupied /\ y.page = z.page
       /\ \A d \in DirectBins : y.direct[d] = IF d = q /\ x.first[q] = p
                                              THEN z.first[q] ELSE z.direct[d]
  <2> HIDE DEF z
  <2>1. CASE x.first[q] = p
        BY <2>1, <1>11, UpdateDirectIs
  <2>2. CASE x.first[q] # p
        BY <2>2, <1>11 DEF SameRest
  <2> QED BY <2>1, <2>2
<1>13. f = IF x.first[q] = p THEN n ELSE x.first[q]
       OBVIOUS
<1> HIDE DEF z, y, c, l, f, k, o
<1>14. Relinked(x, y, q, f, l, k, o)
       BY <1>9, <1>12 DEF Relinked, SameRest
<1>15. DirectShows(y)
  <2> HIDE DEF n
  <2> QED BY <1>9, <1>12, <1>13, NumberFacts DEF Relinked, DirectShows, Heaps
<1> QED BY <1>8, <1>9, <1>10, <1>12, <1>14, <1>15 DEF Removed, f, l, k, o

-----------------------------------------------------------------------------
(* Lists of pages.                                                         *)

InList(s, p) == \E i \in 1 .. Len(s) : s[i] = p
Once(s)      == \A i, j \in 1 .. Len(s) : s[i] = s[j] => i = j

LEMMA ConsIs ==
    ASSUME NEW s \in Seq(Pages), NEW p \in Pages
    PROVE  /\ <<p>> \o s \in Seq(Pages) /\ Len(<<p>> \o s) = Len(s) + 1
           /\ \A i \in 1 .. Len(s) + 1 :
                  (<<p>> \o s)[i] = IF i = 1 THEN p ELSE s[i - 1]
           /\ \A r : InList(<<p>> \o s, r) <=> r = p \/ InList(s, r)
<1> DEFINE t == <<p>> \o s
<1>1. <<p>> \in Seq(Pages) /\ Len(<<p>>) = 1 /\ <<p>>[1] = p /\ Len(s) \in Nat
      OBVIOUS
<1>2. t \in Seq(Pages) /\ Len(t) = Len(s) + 1
      BY <1>1, ConcatProperties
<1>3. \A i \in 1 .. Len(s) + 1 : t[i] = IF i = 1 THEN p ELSE s[i - 1]
  <2> TAKE i \in 1 .. Len(s) + 1
  <2>1. t[i] = IF i <= 1 THEN <<p>>[i] ELSE s[i - 1]
        BY <1>1, ConcatProperties
  <2> QED BY <1>1, <2>1
<1>4. \A r : InList(t, r) <=> r = p \/ InList(s, r)
  <2> HIDE DEF t
  <2> TAKE r
  <2>1. ASSUME InList(t, r) PROVE r = p \/ InList(s, r)
    <3>1. PICK i \in 1 .. Len(t) : t[i] = r
          BY <2>1 DEF InList
    <3>2. i # 1 => i - 1 \in 1 .. Len(s)
          BY <1>1, <1>2
    <3> QED BY <1>1, <1>2, <1>3, <3>1, <3>2 DEF InList
  <2>2. ASSUME InList(s, r) PROVE InList(t, r)
    <3>1. PICK i \in 1 .. Len(s) : s[i] = r
          BY <2>2 DEF InList
    <3>2. i + 1 \in 1 .. Len(t) /\ t[i + 1] = r
          BY <1>1, <1>2, <1>3, <3>1
    <3> QED BY <3>2 DEF InList
  <2>3. InList(t, p)
    <3>1. 1 \in 1 .. Len(t) /\ t[1] = p
          BY <1>1, <1>2, <1>3
    <3> QED BY <3>1 DEF InList
  <2> QED BY <2>1, <2>2, <2>3
<1> QED BY <1>2, <1>3, <1>4

LEMMA AppendIs ==
    ASSUME NEW s \in Seq(Pages), NEW p \in Pages
    PROVE  /\ Append(s, p) \in Seq(Pages) /\ Len(Append(s, p)) = Len(s) + 1
           /\ \A i \in 1 .. Len(s) + 1 :
                  Append(s, p)[i] = IF i = Len(s) + 1 THEN p ELSE s[i]
           /\ \A r : InList(Append(s, p), r) <=> r = p \/ InList(s, r)
<1> DEFINE t == Append(s, p)
<1>1. Len(s) \in Nat /\ t \in Seq(Pages) /\ Len(t) = Len(s) + 1
      OBVIOUS
<1>2. \A i \in 1 .. Len(s) + 1 : t[i] = IF i = Len(s) + 1 THEN p ELSE s[i]
      BY AppendProperties
<1>3. \A r : InList(t, r) <=> r = p \/ InList(s, r)
  <2> HIDE DEF t
  <2> TAKE r
  <2>1. ASSUME InList(t, r) PROVE r = p \/ InList(s, r)
    <3>1. PICK i \in 1 .. Len(t) : t[i] = r
          BY <2>1 DEF InList
    <3>2. i # Len(s) + 1 => i \in 1 .. Len(s)
          BY <1>1
    <3> QED BY <1>1, <1>2, <3>1, <3>2 DEF InList
  <2>2. ASSUME InList(s, r) PROVE InList(t, r)
    <3>1. PICK i \in 1 .. Len(s) : s[i] = r
          BY <2>2 DEF InList
    <3>2. i \in 1 .. Len(t) /\ t[i] = r
          BY <1>1, <1>2, <3>1
    <3> QED BY <3>2 DEF InList
  <2>3. InList(t, p)
    <3>1. Len(t) \in 1 .. Len(t) /\ t[Len(t)] = p
          BY <1>1, <1>2
    <3> QED BY <3>1 DEF InList
  <2> QED BY <2>1, <2>2, <2>3
<1> QED BY <1>1, <1>2, <1>3

LEMMA WithoutIs ==
    ASSUME NEW s \in Seq(Pages), Once(s), NEW k \in 1 .. Len(s)
    PROVE  LET t == Lists!Without(s, s[k])
           IN  /\ t \in Seq(Pages) /\ Len(t) = Len(s) - 1
               /\ \A i \in 1 .. Len(s) - 1 : t[i] = IF i < k THEN s[i] ELSE s[i + 1]
               /\ \A r : InList(t, r) <=> r # s[k] /\ InList(s, r)
<1> DEFINE a == SubSeq(s, 1, k - 1)
           b == SubSeq(s, k + 1, Len(s))
           t == a \o b
<1>1. Len(s) \in Nat /\ DOMAIN s = 1 .. Len(s) /\ \A i \in 1 .. Len(s) : s[i] \in Pages
      OBVIOUS
<1>2. \A j \in DOMAIN s : s[j] = s[k] => j = k
      BY <1>1 DEF Once
<1>3. (CHOOSE j \in DOMAIN s : s[j] = s[k]) = k
      BY <1>1, <1>2
<1>4. Lists!Without(s, s[k]) = t
      BY <1>3 DEF Lists!Without
<1>5. /\ a \in Seq(Pages) /\ Len(a) = k - 1
      /\ \A i \in 1 .. k - 1 : a[i] = s[i]
  <2>1. k - 1 \in Int /\ \A i \in 1 .. k - 1 : s[i] \in Pages
        BY <1>1
  <2>2. /\ a \in Seq(Pages) /\ Len(a) = IF 1 <= k - 1 THEN k - 1 - 1 + 1 ELSE 0
        /\ \A i \in 1 .. k - 1 - 1 + 1 : a[i] = s[1 + i - 1]
        BY <2>1, SubSeqProperties
  <2> HIDE DEF a
  <2> QED BY <2>2
<1>6. /\ b \in Seq(Pages) /\ Len(b) = Len(s) - k
      /\ \A i \in 1 .. Len(s) - k : b[i] = s[k + i]
  <2>1. k + 1 \in Int /\ Len(s) \in Int /\ \A i \in k + 1 .. Len(s) : s[i] \in Pages
        BY <1>1
  <2>2. /\ b \in Seq(Pages) /\ Len(b) = IF k + 1 <= Len(s) THEN Len(s) - (k + 1) + 1 ELSE 0
        /\ \A i \in 1 .. Len(s) - (k + 1) + 1 : b[i] = s[k + 1 + i - 1]
        BY <2>1, SubSeqProperties
  <2> HIDE DEF b
  <2>3. \A i \in 1 .. Len(s) - k : i \in 1 .. Len(s) - (k + 1) + 1 /\ k + 1 + i - 1 = k + i
        BY <1>1
  <2>4. \A i \in 1 .. Len(s) - k : b[i] = s[k + i]
        BY <2>2, <2>3
  <2>5. Len(b) = Len(s) - k
    <3>1. Len(s) \in Nat /\ k \in Nat /\ k <= Len(s)
          BY <1>1
    <3>2. Len(b) = IF k + 1 <= Len(s) THEN Len(s) - (k + 1) + 1 ELSE 0
          BY <2>2
    <3> QED BY <3>1, <3>2
  <2> QED BY <2>2, <2>4, <2>5
<1>7. t \in Seq(Pages) /\ Len(t) = Len(s) - 1
  <2> HIDE DEF a, b
  <2>1. t \in Seq(Pages) /\ Len(t) = Len(a) + Len(b)
        BY <1>5, <1>6, ConcatProperties
  <2> QED BY <1>1, <1>5, <1>6, <2>1
<1>8. \A i \in 1 .. Len(s) - 1 : t[i] = IF i < k THEN s[i] ELSE s[i + 1]
  <2> HIDE DEF a, b
  <2> TAKE i \in 1 .. Len(s) - 1
  <2>1. i \in 1 .. Len(a) + Len(b)
        BY <1>1, <1>5, <1>6
  <2>2. t[i] = IF i <= Len(a) THEN a[i] ELSE b[i - Len(a)]
        BY <1>5, <1>6, <2>1, ConcatProperties
  <2> HIDE DEF t
  <2>3. CASE i < k
        BY <1>5, <2>2, <2>3
  <2>4. CASE i >= k
    <3>1. i - (k - 1) \in 1 .. Len(s) - k /\ ~(i <= Len(a)) /\ k + (i - (k - 1)) = i + 1
          BY <1>1, <1>5, <2>4
    <3>2. b[i - (k - 1)] = s[i + 1]
          BY <1>6, <3>1
    <3> QED BY <1>5, <2>2, <2>4, <3>1, <3>2
  <2> QED BY <2>3, <2>4
<1>9. \A r : InList(t, r) <=> r # s[k] /\ InList(s, r)
  <2> HIDE DEF t
  <2> TAKE r
  <2>1. ASSUME InList(t, r) PROVE r # s[k] /\ InList(s, r)
    <3>1. PICK i \in 1 .. Len(t) : t[i] = r
          BY <2>1 DEF InList
    <3>2. CASE i < k
      <4>1. i \in 1 .. Len(s) /\ s[i] = r /\ i # k
            BY <1>1, <1>7, <1>8, <3>1, <3>2
      <4> QED BY <4>1 DEF InList, Once
    <3>3. CASE i >= k
      <4>1. i + 1 \in 1 .. Len(s) /\ s[i + 1] = r /\ i + 1 # k
            BY <1>1, <1>7, <1>8, <3>1, <3>3
      <4> QED BY <4>1 DEF InList, Once
    <3> QED BY <3>2, <3>3, <1>1, <1>7
  <2>2. ASSUME r # s[k], InList(s, r) PROVE InList(t, r)
    <3>1. PICK i \in 1 .. Len(s) : s[i] = r
          BY <2>2 DEF InList
    <3>2. CASE i < k
      <4>1. i \in 1 .. Len(t) /\ t[i] = r
            BY <1>1, <1>7, <1>8, <3>1, <3>2
      <4> QED BY <4>1 DEF InList
    <3>3. CASE i > k
      <4>1. i - 1 \in 1 .. Len(s) - 1 /\ ~(i - 1 < k) /\ (i - 1) + 1 = i
            BY <1>1, <3>3
      <4>2. t[i - 1] = s[i]
            BY <1>8, <4>1
      <4> QED BY <1>7, <3>1, <4>1, <4>2 DEF InList
    <3> QED BY <2>2, <3>1, <3>2, <3>3, <1>1
  <2> QED BY <2>1, <2>2
<1> QED BY <1>4, <1>7, <1>8, <1>9

-----------------------------------------------------------------------------
(* The links spell lists.                                                  *)

\* Queue q of heap x is the list s.
Chain(x, q, s) ==
    /\ x.first[q] = IF Len(s) = 0 THEN None ELSE s[1]
    /\ x.last[q] = IF Len(s) = 0 THEN None ELSE s[Len(s)]
    /\ x.count[q] = Len(s)
    /\ q \in x.occupied <=> Len(s) > 0
    /\ \A i \in 1 .. Len(s) :
           /\ x.page[s[i]].next = IF i = Len(s) THEN None ELSE s[i + 1]
           /\ x.page[s[i]].prev = IF i = 1 THEN None ELSE s[i - 1]

\* A page is in at most one place of one list.
NoTwice(L) ==
    /\ \A q \in Queues : Once(L[q])
    /\ \A q, k \in Queues : \A p : InList(L[q], p) /\ InList(L[k], p) => q = k

Chains(x, L) ==
    /\ x \in Heaps /\ L \in [Queues -> Seq(Pages)]
    /\ NoTwice(L) /\ DirectShows(x)
    /\ \A q \in Queues : Chain(x, q, L[q])

\* A page in no list.
Loose(L, p) == \A q \in Queues : ~InList(L[q], p)

\* What an operation that moves page p leaves alone.
Reordered(x, y, L, p) ==
    /\ SameRest(x, y)
    /\ \A r \in Pages :
           /\ SameBody(x.page[r], y.page[r])
           /\ r # p /\ Loose(L, r) => y.page[r] = x.page[r]

LEMMA ListTypes ==
    ASSUME NEW L \in [Queues -> Seq(Pages)], NEW q \in Queues
    PROVE  /\ L[q] \in Seq(Pages) /\ Len(L[q]) \in Nat
           /\ \A i \in 1 .. Len(L[q]) : L[q][i] \in Pages /\ InList(L[q], L[q][i])
           /\ \A p : InList(L[q], p) => p \in Pages
<1>1. L[q] \in Seq(Pages)
      OBVIOUS
<1>2. Len(L[q]) \in Nat /\ \A i \in 1 .. Len(L[q]) : L[q][i] \in Pages
      BY <1>1
<1> QED BY <1>1, <1>2 DEF InList

\* The ends of a queue are in its list.
LEMMA EndsInList ==
    ASSUME NEW x, NEW L, Chains(x, L), NEW q \in Queues
    PROVE  /\ x.first[q] # None => InList(L[q], x.first[q])
           /\ x.last[q] # None => InList(L[q], x.last[q])
           /\ x.first[q] = None <=> Len(L[q]) = 0
           /\ x.last[q] = None <=> Len(L[q]) = 0
<1>1. Chain(x, q, L[q]) /\ Len(L[q]) \in Nat
      BY ListTypes DEF Chains
<1>2. CASE Len(L[q]) = 0
      BY <1>1, <1>2 DEF Chain
<1>3. CASE Len(L[q]) > 0
  <2>1. 1 \in 1 .. Len(L[q]) /\ Len(L[q]) \in 1 .. Len(L[q])
        BY <1>1, <1>3
  <2>2. x.first[q] = L[q][1] /\ x.last[q] = L[q][Len(L[q])]
        BY <1>1, <1>3 DEF Chain
  <2>3. L[q][1] \in Pages /\ L[q][Len(L[q])] \in Pages
        BY <2>1, ListTypes DEF Chains
  <2> QED BY <1>3, <2>1, <2>2, <2>3, NumberFacts DEF InList
<1> QED BY <1>1, <1>2, <1>3

\* A queue whose pages keep their links is the list it was.
LEMMA ChainStays ==
    ASSUME NEW x, NEW y, NEW q, NEW s \in Seq(Pages), Chain(x, q, s),
           y.first[q] = x.first[q], y.last[q] = x.last[q], y.count[q] = x.count[q],
           q \in y.occupied <=> q \in x.occupied,
           \A r \in Pages : InList(s, r) => /\ y.page[r].next = x.page[r].next
                                            /\ y.page[r].prev = x.page[r].prev
    PROVE  Chain(y, q, s)
<1>1. \A i \in 1 .. Len(s) : s[i] \in Pages /\ InList(s, s[i])
      BY DEF InList
<1> QED BY <1>1 DEF Chain

\* A page that joins one list.
LEMMA NoTwiceJoin ==
    ASSUME NEW L \in [Queues -> Seq(Pages)], NoTwice(L), NEW q \in Queues,
           NEW p \in Pages, Loose(L, p), NEW t \in Seq(Pages), Once(t),
           \A r : InList(t, r) <=> r = p \/ InList(L[q], r)
    PROVE  /\ [L EXCEPT ![q] = t] \in [Queues -> Seq(Pages)]
           /\ NoTwice([L EXCEPT ![q] = t])
<1> DEFINE M == [L EXCEPT ![q] = t]
<1>1. M \in [Queues -> Seq(Pages)] /\ \A k \in Queues : M[k] = IF k = q THEN t ELSE L[k]
      OBVIOUS
<1> HIDE DEF M
<1>2. \A k \in Queues : Once(M[k])
      BY <1>1 DEF NoTwice
<1>3. \A k, m \in Queues : \A r : InList(M[k], r) /\ InList(M[m], r) => k = m
      BY <1>1 DEF NoTwice, Loose
<1> QED BY <1>1, <1>2, <1>3 DEF NoTwice, M

LEMMA PushFrontChains ==
    ASSUME NEW x, NEW L, Chains(x, L), NEW q \in Queues, NEW p \in Pages, Loose(L, p)
    PROVE  LET y == PushFront(x, q, p)
           IN  Chains(y, [L EXCEPT ![q] = <<p>> \o @]) /\ Reordered(x, y, L, p)
<1> DEFINE y == PushFront(x, q, p)
           s == L[q]
           t == <<p>> \o s
           M == [L EXCEPT ![q] = t]
           f == x.first[q]
<1>1. /\ x \in Heaps /\ L \in [Queues -> Seq(Pages)] /\ DirectShows(x)
      /\ s \in Seq(Pages) /\ Len(s) \in Nat /\ Once(s) /\ Chain(x, q, s)
      /\ \A i \in 1 .. Len(s) : s[i] \in Pages /\ InList(s, s[i])
      BY ListTypes DEF Chains, NoTwice
<1>2. /\ t \in Seq(Pages) /\ Len(t) = Len(s) + 1
      /\ \A i \in 1 .. Len(s) + 1 : t[i] = IF i = 1 THEN p ELSE s[i - 1]
      /\ \A r : InList(t, r) <=> r = p \/ InList(s, r)
      BY <1>1, ConsIs
<1>3. (f # None => InList(s, f)) /\ ~InList(s, p) /\ f # p
      BY EndsInList, NumberFacts DEF Loose
<1>4. /\ Relinked(x, y, q, p, IF f = None THEN p ELSE x.last[q],
                  x.count[q] + 1, x.occupied \cup {q})
      /\ DirectShows(y)
      /\ \A r \in Pages :
             /\ y.page[r].next = IF r = p THEN f ELSE x.page[r].next
             /\ y.page[r].prev = IF r = p THEN None ELSE IF r = f THEN p ELSE x.page[r].prev
             /\ r # p /\ r # f => y.page[r] = x.page[r]
  <2>1. x.first[q] # p
        BY <1>3
  <2> HIDE DEF y
  <2>2. PushedFront(x, y, q, p)
        BY <1>1, <2>1, PushFrontIs DEF y
  <2> QED BY <2>2 DEF PushedFront
<1> HIDE DEF y, t, s, f
<1>5. /\ y \in Heaps /\ y.first[q] = p /\ y.last[q] = (IF f = None THEN p ELSE x.last[q])
      /\ y.count[q] = Len(s) + 1 /\ q \in y.occupied
      /\ \A k \in Queues : k # q =>
             /\ y.first[k] = x.first[k] /\ y.last[k] = x.last[k]
             /\ y.count[k] = x.count[k] /\ (k \in y.occupied <=> k \in x.occupied)
      BY <1>1, <1>4 DEF Relinked, Heaps, Chain
<1>6. Once(t)
  <2> SUFFICES ASSUME NEW i \in 1 .. Len(t), NEW j \in 1 .. Len(t), t[i] = t[j], i < j
               PROVE  FALSE
    <3>1. Len(t) \in Nat
          BY <1>1, <1>2
    <3> QED BY <3>1 DEF Once
  <2>1. j - 1 \in 1 .. Len(s) /\ t[j] = s[j - 1]
        BY <1>1, <1>2
  <2>2. i # 1
        BY <1>1, <1>2, <1>3, <2>1
  <2>3. i - 1 \in 1 .. Len(s) /\ t[i] = s[i - 1]
        BY <1>1, <1>2, <2>2
  <2> QED BY <1>1, <2>1, <2>3 DEF Once
<1>7. M \in [Queues -> Seq(Pages)] /\ NoTwice(M)
  <2>1. NoTwice(L) /\ \A r : InList(t, r) <=> r = p \/ InList(L[q], r)
        BY <1>2 DEF Chains, s
  <2> QED BY <1>1, <1>2, <1>6, <2>1, NoTwiceJoin
<1>8. Chain(y, q, t)
  <2>1. y.first[q] = t[1] /\ Len(t) > 0
        BY <1>1, <1>2, <1>5
  <2>2. y.last[q] = t[Len(t)]
    <3>1. CASE Len(s) = 0
          BY <1>1, <1>2, <1>5, <3>1 DEF Chain, f
    <3>2. CASE Len(s) > 0
      <4>1. x.last[q] = s[Len(s)] /\ f # None
            BY <1>1, <3>2, EndsInList DEF Chain, f, s
      <4>2. t[Len(s) + 1] = s[Len(s)]
            BY <1>1, <1>2, <3>2
      <4> QED BY <1>2, <1>5, <4>1, <4>2
    <3> QED BY <1>1, <3>1, <3>2
  <2>3. \A i \in 1 .. Len(t) :
            /\ y.page[t[i]].next = IF i = Len(t) THEN None ELSE t[i + 1]
            /\ y.page[t[i]].prev = IF i = 1 THEN None ELSE t[i - 1]
    <3> TAKE i \in 1 .. Len(t)
    <3>1. CASE i = 1
      <4>1. t[i] = p
            BY <1>1, <1>2, <3>1
      <4>2. f = IF Len(s) = 0 THEN None ELSE s[1]
            BY <1>1 DEF Chain, f
      <4>3. Len(s) > 0 => t[2] = s[1]
            BY <1>1, <1>2
      <4> QED BY <1>1, <1>2, <1>4, <3>1, <4>1, <4>2, <4>3
    <3>2. CASE i > 1
      <4> DEFINE j == i - 1
      <4>1. j \in 1 .. Len(s) /\ t[i] = s[j] /\ s[j] \in Pages /\ s[j] # p
            BY <1>1, <1>2, <1>3, <3>2, SMTT(30)
      <4>2. x.page[s[j]].next = (IF j = Len(s) THEN None ELSE s[j + 1])
            /\ x.page[s[j]].prev = (IF j = 1 THEN None ELSE s[j - 1])
            BY <1>1, <4>1 DEF Chain
      <4>3. i # Len(t) => t[i + 1] = s[j + 1]
            BY <1>1, <1>2, <3>2
      <4>4. t[i - 1] = IF j = 1 THEN p ELSE s[j - 1]
            BY <1>1, <1>2, <3>2, <4>1
      <4>5. f = s[1] /\ 1 \in 1 .. Len(s)
            BY <1>1, <4>1 DEF Chain, f
      <4>6. s[j] = f <=> j = 1
            BY <1>1, <4>1, <4>5 DEF Once
      <4> QED BY <1>1, <1>2, <1>4, <3>2, <4>1, <4>2, <4>3, <4>4, <4>6
    <3> QED BY <1>1, <1>2, <3>1, <3>2
  <2> QED BY <1>1, <1>2, <1>5, <2>1, <2>2, <2>3 DEF Chain
<1>9. ASSUME NEW k \in Queues, k # q PROVE Chain(y, k, L[k])
  <2>1. L[k] \in Seq(Pages) /\ Chain(x, k, L[k])
        BY <1>1 DEF Chains
  <2>2. \A r \in Pages : InList(L[k], r) => r # p /\ r # f
        BY <1>3, <1>9, NumberFacts DEF Chains, NoTwice, Loose, s
  <2> QED BY <1>4, <1>5, <1>9, <2>1, <2>2, ChainStays
<1>10. \A k \in Queues : Chain(y, k, M[k])
       BY <1>1, <1>8, <1>9
<1>11. Chains(y, M)
       BY <1>4, <1>5, <1>7, <1>10 DEF Chains
<1>12. Reordered(x, y, L, p)
       BY <1>3, <1>4, NumberFacts DEF Reordered, Relinked, Loose, s
<1> QED BY <1>11, <1>12 DEF y, t, s

LEMMA PushBackChains ==
    ASSUME NEW x, NEW L, Chains(x, L), NEW q \in Queues, NEW p \in Pages, Loose(L, p)
    PROVE  LET y == PushBack(x, q, p)
           IN  Chains(y, [L EXCEPT ![q] = Append(@, p)]) /\ Reordered(x, y, L, p)
<1> DEFINE y == PushBack(x, q, p)
           s == L[q]
           t == Append(s, p)
           M == [L EXCEPT ![q] = t]
           f == x.first[q]
           l == x.last[q]
<1>1. /\ x \in Heaps /\ L \in [Queues -> Seq(Pages)] /\ DirectShows(x)
      /\ s \in Seq(Pages) /\ Len(s) \in Nat /\ Once(s) /\ Chain(x, q, s)
      /\ \A i \in 1 .. Len(s) : s[i] \in Pages /\ InList(s, s[i])
      BY ListTypes DEF Chains, NoTwice
<1>2. /\ t \in Seq(Pages) /\ Len(t) = Len(s) + 1
      /\ \A i \in 1 .. Len(s) + 1 : t[i] = IF i = Len(s) + 1 THEN p ELSE s[i]
      /\ \A r : InList(t, r) <=> r = p \/ InList(s, r)
      BY <1>1, AppendIs
<1>3. (l # None => InList(s, l)) /\ ~InList(s, p) /\ l # p
      BY EndsInList, NumberFacts DEF Loose
<1>4. /\ Relinked(x, y, q, IF f = None THEN p ELSE f, p, x.count[q] + 1, x.occupied \cup {q})
      /\ DirectShows(y)
      /\ \A r \in Pages :
             /\ y.page[r].prev = IF r = p THEN l ELSE x.page[r].prev
             /\ y.page[r].next = IF r = p THEN None ELSE IF r = l THEN p ELSE x.page[r].next
             /\ r # p /\ r # l => y.page[r] = x.page[r]
  <2>1. x.last[q] # p
        BY <1>3
  <2> HIDE DEF y
  <2>2. PushedBack(x, y, q, p)
        BY <1>1, <2>1, PushBackIs DEF y
  <2> QED BY <2>2 DEF PushedBack
<1>5. f = (IF Len(s) = 0 THEN None ELSE s[1]) /\ l = (IF Len(s) = 0 THEN None ELSE s[Len(s)])
      BY <1>1 DEF Chain
<1>6. f = None <=> Len(s) = 0
      BY EndsInList
<1> HIDE DEF y, t, s, f, l
<1>7. /\ y \in Heaps /\ y.first[q] = (IF f = None THEN p ELSE f) /\ y.last[q] = p
      /\ y.count[q] = Len(s) + 1 /\ q \in y.occupied
      /\ \A k \in Queues : k # q =>
             /\ y.first[k] = x.first[k] /\ y.last[k] = x.last[k]
             /\ y.count[k] = x.count[k] /\ (k \in y.occupied <=> k \in x.occupied)
  <2>1. /\ y \in Heaps /\ \A k \in Queues :
               /\ y.first[k] = IF k = q THEN IF f = None THEN p ELSE f ELSE x.first[k]
               /\ y.last[k] = IF k = q THEN p ELSE x.last[k]
               /\ y.count[k] = IF k = q THEN x.count[q] + 1 ELSE x.count[k]
        BY <1>1, <1>4 DEF Relinked, Heaps
  <2>2. y.occupied = x.occupied \cup {q}
        BY <1>4 DEF Relinked
  <2>3. x.count[q] = Len(s)
        BY <1>1 DEF Chain
  <2> QED BY <2>1, <2>2, <2>3
<1>8. Once(t)
  <2> SUFFICES ASSUME NEW i \in 1 .. Len(t), NEW j \in 1 .. Len(t), t[i] = t[j], i < j
               PROVE  FALSE
    <3>1. Len(t) \in Nat
          BY <1>1, <1>2
    <3> QED BY <3>1 DEF Once
  <2>1. i \in 1 .. Len(s) /\ t[i] = s[i]
        BY <1>1, <1>2
  <2>2. j # Len(s) + 1
        BY <1>1, <1>2, <1>3, <2>1
  <2>3. j \in 1 .. Len(s) /\ t[j] = s[j]
        BY <1>1, <1>2, <2>2
  <2>4. s[i] = s[j]
        BY <2>1, <2>3
  <2>5. i # j
        BY <1>1, <2>1, <2>3
  <2> QED BY <1>1, <2>1, <2>3, <2>4, <2>5 DEF Once
<1>9. M \in [Queues -> Seq(Pages)] /\ NoTwice(M)
  <2>1. NoTwice(L) /\ \A r : InList(t, r) <=> r = p \/ InList(L[q], r)
        BY <1>2 DEF Chains, s
  <2> QED BY <1>1, <1>2, <1>8, <2>1, NoTwiceJoin
<1>10. Chain(y, q, t)
  <2>1. y.last[q] = t[Len(t)] /\ Len(t) > 0
        BY <1>1, <1>2, <1>7
  <2>2. y.first[q] = t[1]
        BY <1>1, <1>2, <1>5, <1>6, <1>7
  <2>3. \A i \in 1 .. Len(t) :
            /\ y.page[t[i]].next = IF i = Len(t) THEN None ELSE t[i + 1]
            /\ y.page[t[i]].prev = IF i = 1 THEN None ELSE t[i - 1]
    <3> TAKE i \in 1 .. Len(t)
    <3>1. CASE i = Len(s) + 1
      <4>1. t[i] = p
            BY <1>1, <1>2, <3>1
      <4>2. Len(s) > 0 => t[i - 1] = s[Len(s)]
            BY <1>1, <1>2, <3>1
      <4> QED BY <1>1, <1>2, <1>4, <1>5, <3>1, <4>1, <4>2
    <3>2. CASE i <= Len(s)
      <4>1. i \in 1 .. Len(s) /\ t[i] = s[i] /\ s[i] \in Pages /\ s[i] # p
            BY <1>1, <1>2, <1>3, <3>2
      <4>2. x.page[s[i]].next = (IF i = Len(s) THEN None ELSE s[i + 1])
            /\ x.page[s[i]].prev = (IF i = 1 THEN None ELSE s[i - 1])
            BY <1>1, <4>1 DEF Chain
      <4>3. t[i + 1] = IF i = Len(s) THEN p ELSE s[i + 1]
            BY <1>1, <1>2, <4>1
      <4>4. i # 1 => t[i - 1] = s[i - 1]
            BY <1>1, <1>2, <4>1
      <4>5. l = s[Len(s)] /\ Len(s) \in 1 .. Len(s)
            BY <1>1, <1>5, <4>1
      <4>6. s[i] = l <=> i = Len(s)
            BY <1>1, <4>1, <4>5 DEF Once
      <4> QED BY <1>1, <1>2, <1>4, <3>2, <4>1, <4>2, <4>3, <4>4, <4>6
    <3> QED BY <1>1, <1>2, <3>1, <3>2
  <2> QED BY <1>1, <1>2, <1>7, <2>1, <2>2, <2>3 DEF Chain
<1>11. ASSUME NEW k \in Queues, k # q PROVE Chain(y, k, L[k])
  <2>1. L[k] \in Seq(Pages) /\ Chain(x, k, L[k])
        BY <1>1 DEF Chains
  <2>2. \A r \in Pages : InList(L[k], r) => r # p /\ r # l
        BY <1>3, <1>11, NumberFacts DEF Chains, NoTwice, Loose, s
  <2> QED BY <1>4, <1>7, <1>11, <2>1, <2>2, ChainStays
<1>12. \A k \in Queues : Chain(y, k, M[k])
       BY <1>1, <1>10, <1>11
<1>13. Chains(y, M)
       BY <1>4, <1>7, <1>9, <1>12 DEF Chains
<1>14. Reordered(x, y, L, p)
       BY <1>3, <1>4, NumberFacts DEF Reordered, Relinked, Loose, s
<1> QED BY <1>13, <1>14 DEF y, t, s

LEMMA RemoveChains ==
    ASSUME NEW x, NEW L, Chains(x, L), NEW q \in Queues, NEW p \in Pages, InList(L[q], p)
    PROVE  LET y == Remove(x, q, p)
               M == [L EXCEPT ![q] = Lists!Without(@, p)]
           IN  /\ Chains(y, M) /\ Reordered(x, y, L, p) /\ Loose(M, p)
               /\ \A r \in Pages : Loose(M, r) <=> r = p \/ Loose(L, r)
<1> DEFINE y == Remove(x, q, p)
           s == L[q]
           t == Lists!Without(s, p)
           M == [L EXCEPT ![q] = t]
           b == x.page[p].prev
           n == x.page[p].next
<1>1. /\ x \in Heaps /\ L \in [Queues -> Seq(Pages)] /\ DirectShows(x)
      /\ s \in Seq(Pages) /\ Len(s) \in Nat /\ Once(s) /\ Chain(x, q, s)
      /\ \A i \in 1 .. Len(s) : s[i] \in Pages /\ InList(s, s[i])
      BY ListTypes DEF Chains, NoTwice
<1>2. PICK k \in 1 .. Len(s) : s[k] = p
      BY DEF InList
<1>3. /\ t \in Seq(Pages) /\ Len(t) = Len(s) - 1
      /\ \A i \in 1 .. Len(s) - 1 : t[i] = IF i < k THEN s[i] ELSE s[i + 1]
      /\ \A r : InList(t, r) <=> r # p /\ InList(s, r)
      BY <1>1, <1>2, WithoutIs
<1>4. /\ n = (IF k = Len(s) THEN None ELSE s[k + 1])
      /\ b = (IF k = 1 THEN None ELSE s[k - 1])
      BY <1>1, <1>2 DEF Chain
<1>5. /\ n = None <=> k = Len(s)
      /\ b = None <=> k = 1
      /\ \A i \in 1 .. Len(s) : /\ s[i] = n <=> i = k + 1
                                /\ s[i] = b <=> i = k - 1
                                /\ s[i] = p <=> i = k
  <2>1. k # Len(s) => k + 1 \in 1 .. Len(s)
        BY <1>1
  <2>2. k # 1 => k - 1 \in 1 .. Len(s)
        BY <1>1
  <2> HIDE DEF s, n, b
  <2> QED BY <1>1, <1>2, <1>4, <2>1, <2>2, NumberFacts, SMTT(30) DEF Once
<1>6. /\ x.first[q] = s[1] /\ x.last[q] = s[Len(s)] /\ x.count[q] = Len(s)
      /\ q \in x.occupied
  <2> HIDE DEF s
  <2> QED BY <1>1, <1>2 DEF Chain
<1>7. b # p /\ n # p /\ x.count[q] > 0
  <2> HIDE DEF s, b, n
  <2> QED BY <1>1, <1>2, <1>5, <1>6
<1>8. /\ Relinked(x, y, q, IF x.first[q] = p THEN n ELSE x.first[q],
                  IF x.last[q] = p THEN b ELSE x.last[q], x.count[q] - 1,
                  IF x.count[q] = 1 THEN x.occupied \ {q} ELSE x.occupied)
      /\ DirectShows(y)
      /\ \A r \in Pages :
             /\ y.page[r].next = IF r = p THEN None ELSE IF r = b THEN n ELSE x.page[r].next
             /\ y.page[r].prev = IF r = p THEN None ELSE IF r = n THEN b ELSE x.page[r].prev
             /\ r # p /\ r # b /\ r # n => y.page[r] = x.page[r]
  <2>1. x.page[p].prev # p /\ x.page[p].next # p
        BY <1>7
  <2> HIDE DEF y
  <2>2. Removed(x, y, q, p)
        BY <1>1, <1>7, <2>1, RemoveIs DEF y
  <2> QED BY <2>2 DEF Removed
<1> HIDE DEF y, t, s, b, n
<1>9. /\ y \in Heaps /\ y.count[q] = Len(s) - 1 /\ (q \in y.occupied <=> Len(s) # 1)
      /\ y.first[q] = (IF k = 1 THEN n ELSE s[1])
      /\ y.last[q] = (IF k = Len(s) THEN b ELSE s[Len(s)])
  <2>1. (s[1] = p <=> k = 1) /\ (s[Len(s)] = p <=> k = Len(s))
        BY <1>1, <1>5
  <2> QED BY <1>1, <1>6, <1>8, <2>1 DEF Relinked, Heaps
<1>10. \A j \in Queues : j # q =>
             /\ y.first[j] = x.first[j] /\ y.last[j] = x.last[j]
             /\ y.count[j] = x.count[j] /\ (j \in y.occupied <=> j \in x.occupied)
      BY <1>1, <1>8 DEF Relinked, Heaps
<1>11. M \in [Queues -> Seq(Pages)] /\ \A j \in Queues : M[j] = IF j = q THEN t ELSE L[j]
       BY <1>1, <1>3
<1>12. Once(t)
  <2> SUFFICES ASSUME NEW i \in 1 .. Len(t), NEW j \in 1 .. Len(t), t[i] = t[j], i < j
               PROVE  FALSE
    <3>1. Len(t) \in Nat
          BY <1>1, <1>3
    <3> QED BY <3>1 DEF Once
  <2> DEFINE u == IF i < k THEN i ELSE i + 1
             v == IF j < k THEN j ELSE j + 1
  <2>1. u \in 1 .. Len(s) /\ v \in 1 .. Len(s) /\ u < v
        BY <1>1, <1>3
  <2>2. t[i] = s[u] /\ t[j] = s[v]
        BY <1>1, <1>3
  <2> HIDE DEF u, v
  <2>3. s[u] = s[v]
        BY <2>2
  <2>4. u # v
        BY <1>1, <2>1
  <2> QED BY <1>1, <2>1, <2>3, <2>4 DEF Once
<1>13. NoTwice(M)
  <2> HIDE DEF M
  <2>1. \A j \in Queues : Once(M[j])
        BY <1>11, <1>12 DEF NoTwice, Chains
  <2>2. \A j, m \in Queues : \A r : InList(M[j], r) /\ InList(M[m], r) => j = m
    <3>1. \A j \in Queues : \A r : InList(M[j], r) => InList(L[j], r)
          BY <1>3, <1>11 DEF s
    <3> QED BY <3>1 DEF NoTwice, Chains
  <2> QED BY <2>1, <2>2 DEF NoTwice
<1>14. Chain(y, q, t)
  <2>1. y.first[q] = IF Len(t) = 0 THEN None ELSE t[1]
        BY <1>1, <1>3, <1>4, <1>9
  <2>2. y.last[q] = IF Len(t) = 0 THEN None ELSE t[Len(t)]
    <3>1. CASE k = Len(s)
      <4>1. k # 1 => t[k - 1] = s[k - 1]
            BY <1>1, <1>3, <3>1
      <4> QED BY <1>1, <1>3, <1>4, <1>9, <3>1, <4>1
    <3>2. CASE k < Len(s)
      <4>1. t[Len(s) - 1] = s[Len(s)]
            BY <1>1, <1>3, <3>2
      <4> QED BY <1>1, <1>3, <1>9, <3>2, <4>1
    <3> QED BY <1>1, <3>1, <3>2
  <2>3. \A i \in 1 .. Len(t) :
            /\ y.page[t[i]].next = IF i = Len(t) THEN None ELSE t[i + 1]
            /\ y.page[t[i]].prev = IF i = 1 THEN None ELSE t[i - 1]
    <3> TAKE i \in 1 .. Len(t)
    <3> DEFINE u == IF i < k THEN i ELSE i + 1
    <3>1. u \in 1 .. Len(s) /\ t[i] = s[u] /\ s[u] \in Pages /\ u # k
          BY <1>1, <1>3
    <3>2. x.page[s[u]].next = (IF u = Len(s) THEN None ELSE s[u + 1])
          /\ x.page[s[u]].prev = (IF u = 1 THEN None ELSE s[u - 1])
          BY <1>1, <3>1 DEF Chain
    <3>3. (s[u] = b <=> u = k - 1) /\ (s[u] = n <=> u = k + 1) /\ s[u] # p
          BY <1>5, <3>1
    <3>4. i # Len(t) => t[i + 1] = IF i + 1 < k THEN s[i + 1] ELSE s[i + 2]
      <4>1. i # Len(t) => i + 1 \in 1 .. Len(s) - 1 /\ i + 1 + 1 = i + 2
            BY <1>1, <1>3
      <4> QED BY <1>3, <4>1
    <3>5. i # 1 => t[i - 1] = IF i - 1 < k THEN s[i - 1] ELSE s[i]
      <4>1. i # 1 => i - 1 \in 1 .. Len(s) - 1 /\ i - 1 + 1 = i
            BY <1>1, <1>3
      <4> QED BY <1>3, <4>1
    <3>6. /\ y.page[s[u]].next = (IF u = k - 1 THEN n ELSE IF u = Len(s) THEN None ELSE s[u + 1])
          /\ y.page[s[u]].prev = (IF u = k + 1 THEN b ELSE IF u = 1 THEN None ELSE s[u - 1])
          BY <1>8, <3>1, <3>2, <3>3
    <3>7. CASE i < k
          BY <1>1, <1>2, <1>3, <1>4, <3>1, <3>4, <3>5, <3>6, <3>7
    <3>8. CASE i >= k
      <4>1. u = i + 1
            BY <3>8
      <4> HIDE DEF u
      <4>2. y.page[t[i]].next = IF i = Len(t) THEN None ELSE t[i + 1]
            BY <1>1, <1>2, <1>3, <3>1, <3>4, <3>6, <3>8, <4>1
      <4>3. y.page[t[i]].prev = IF i = 1 THEN None ELSE t[i - 1]
            BY <1>1, <1>2, <1>4, <3>1, <3>5, <3>6, <3>8, <4>1
      <4> QED BY <4>2, <4>3
    <3> QED BY <3>7, <3>8, <1>1, <1>3
  <2> QED BY <1>1, <1>3, <1>9, <2>1, <2>2, <2>3 DEF Chain
<1>15. ASSUME NEW j \in Queues, j # q PROVE Chain(y, j, L[j])
  <2>1. L[j] \in Seq(Pages) /\ Chain(x, j, L[j])
        BY <1>1 DEF Chains
  <2>2. (b # None => InList(s, b)) /\ (n # None => InList(s, n))
        BY <1>1, <1>4
  <2>3. \A r \in Pages : InList(L[j], r) => r # p /\ r # b /\ r # n
        BY <1>1, <1>2, <1>15, <2>2, NumberFacts DEF Chains, NoTwice, s
  <2> QED BY <1>8, <1>10, <1>15, <2>1, <2>3, ChainStays
<1>16. \A j \in Queues : Chain(y, j, M[j])
       BY <1>11, <1>14, <1>15
<1>17. Chains(y, M)
       BY <1>8, <1>9, <1>11, <1>13, <1>16 DEF Chains
<1>18. Reordered(x, y, L, p)
  <2>1. (b # None => InList(s, b)) /\ (n # None => InList(s, n))
        BY <1>1, <1>4
  <2>2. \A r \in Pages : Loose(L, r) => r # b /\ r # n
        BY <2>1, NumberFacts DEF Loose, s
  <2> QED BY <1>8, <2>2 DEF Reordered, Relinked
<1>19. Loose(M, p) /\ \A r \in Pages : Loose(M, r) <=> r = p \/ Loose(L, r)
  <2> HIDE DEF M
  <2>1. \A j \in Queues : \A r : InList(M[j], r) <=> InList(L[j], r) /\ (j = q => r # p)
        BY <1>3, <1>11 DEF s
  <2>2. \A j \in Queues : InList(L[j], p) => j = q
        BY DEF Chains, NoTwice
  <2> QED BY <2>1, <2>2 DEF Loose
<1> QED BY <1>17, <1>18, <1>19 DEF y, t, s

-----------------------------------------------------------------------------
(* The operations, as what they do to the lists and to the page they move. *)

\* Page p is in list q and in no other.
OnlyIn(L, p, q) == \A k \in Queues : InList(L[k], p) <=> k = q

\* An operation on page p, which takes lists L to M, leaves the others alone.
Did(x, y, L, M, p) ==
    /\ Chains(y, M)
    /\ \A r \in Pages : r # p =>
           /\ SameBody(x.page[r], y.page[r])
           /\ Loose(L, r) => y.page[r] = x.page[r]
           /\ r \in y.avail <=> r \in x.avail
           /\ r \in y.ahead <=> r \in x.ahead
           /\ r \in y.runs <=> r \in x.runs
           /\ \A q \in Queues : InList(M[q], r) <=> InList(L[q], r)

\* One that moves the page and leaves its header alone but for the links.
Moved(x, y, L, M, p) ==
    Did(x, y, L, M, p) /\ SameRest(x, y) /\ SameBody(x.page[p], y.page[p])

LEMMA DidThenDid ==
    ASSUME NEW x, NEW y, NEW z, NEW L, NEW M, NEW N, NEW p \in Pages,
           Did(x, y, L, M, p), Did(y, z, M, N, p)
    PROVE  Did(x, z, L, N, p)
BY DEF Did, SameBody, Loose

LEMMA MovedThenMoved ==
    ASSUME NEW x, NEW y, NEW z, NEW L, NEW M, NEW N, NEW p \in Pages,
           Moved(x, y, L, M, p), Moved(y, z, M, N, p)
    PROVE  Moved(x, z, L, N, p)
BY DidThenDid DEF Moved, SameRest, SameBody

LEMMA ReorderedIsMoved ==
    ASSUME NEW x, NEW y, NEW L, NEW M, NEW p \in Pages, Chains(y, M),
           Reordered(x, y, L, p),
           \A q \in Queues : \A r \in Pages : r # p => (InList(M[q], r) <=> InList(L[q], r))
    PROVE  Moved(x, y, L, M, p)
BY DEF Reordered, Moved, Did, SameRest

LEMMA PushFrontMoves ==
    ASSUME NEW x, NEW L, Chains(x, L), NEW q \in Queues, NEW p \in Pages, Loose(L, p)
    PROVE  LET M == [L EXCEPT ![q] = <<p>> \o @]
           IN  Moved(x, PushFront(x, q, p), L, M, p) /\ OnlyIn(M, p, q)
<1> DEFINE t == <<p>> \o L[q]
           M == [L EXCEPT ![q] = t]
           y == PushFront(x, q, p)
<1>1. Chains(y, M) /\ Reordered(x, y, L, p)
      BY PushFrontChains
<1>2. L \in [Queues -> Seq(Pages)]
      BY DEF Chains
<1>3. \A r : InList(t, r) <=> r = p \/ InList(L[q], r)
      BY <1>2, ConsIs
<1> HIDE DEF t, y
<1>4. \A k \in Queues : \A r : InList(M[k], r) <=> (k = q /\ r = p) \/ InList(L[k], r)
      BY <1>2, <1>3
<1> HIDE DEF M
<1>5. Moved(x, y, L, M, p)
      BY <1>1, <1>4, ReorderedIsMoved
<1>6. OnlyIn(M, p, q)
      BY <1>4 DEF OnlyIn, Loose
<1> QED BY <1>5, <1>6 DEF M, t, y

LEMMA PushBackMoves ==
    ASSUME NEW x, NEW L, Chains(x, L), NEW q \in Queues, NEW p \in Pages, Loose(L, p)
    PROVE  LET M == [L EXCEPT ![q] = Append(@, p)]
           IN  Moved(x, PushBack(x, q, p), L, M, p) /\ OnlyIn(M, p, q)
<1> DEFINE t == Append(L[q], p)
           M == [L EXCEPT ![q] = t]
           y == PushBack(x, q, p)
<1>1. Chains(y, M) /\ Reordered(x, y, L, p)
      BY PushBackChains
<1>2. L \in [Queues -> Seq(Pages)]
      BY DEF Chains
<1>3. \A r : InList(t, r) <=> r = p \/ InList(L[q], r)
      BY <1>2, AppendIs
<1> HIDE DEF t, y
<1>4. \A k \in Queues : \A r : InList(M[k], r) <=> (k = q /\ r = p) \/ InList(L[k], r)
      BY <1>2, <1>3
<1> HIDE DEF M
<1>5. Moved(x, y, L, M, p)
      BY <1>1, <1>4, ReorderedIsMoved
<1>6. OnlyIn(M, p, q)
      BY <1>4 DEF OnlyIn, Loose
<1> QED BY <1>5, <1>6 DEF M, t, y

LEMMA RemoveMoves ==
    ASSUME NEW x, NEW L, Chains(x, L), NEW q \in Queues, NEW p \in Pages, InList(L[q], p)
    PROVE  LET M == [L EXCEPT ![q] = Lists!Without(@, p)]
           IN  Moved(x, Remove(x, q, p), L, M, p) /\ Loose(M, p)
<1> DEFINE t == Lists!Without(L[q], p)
           M == [L EXCEPT ![q] = t]
           y == Remove(x, q, p)
<1>1. Chains(y, M) /\ Reordered(x, y, L, p) /\ Loose(M, p)
      BY RemoveChains
<1>2. L \in [Queues -> Seq(Pages)] /\ Once(L[q])
      BY DEF Chains, NoTwice
<1>3. \A r : InList(t, r) <=> r # p /\ InList(L[q], r)
  <2>1. PICK k \in 1 .. Len(L[q]) : L[q][k] = p
        BY DEF InList
  <2> QED BY <1>2, <2>1, WithoutIs
<1> HIDE DEF t, y
<1>4. \A k \in Queues : \A r : r # p => (InList(M[k], r) <=> InList(L[k], r))
      BY <1>2, <1>3
<1> HIDE DEF M
<1>5. Moved(x, y, L, M, p)
      BY <1>1, <1>4, ReorderedIsMoved
<1> QED BY <1>1, <1>5 DEF M, t, y

\* A header is written.
PageSet(x, y, p, pg) ==
    /\ y \in Heaps /\ SameButPages(x, y) /\ SameRest(x, y)
    /\ \A r \in Pages : y.page[r] = IF r = p THEN pg ELSE x.page[r]

LEMMA PageSetDid ==
    ASSUME NEW x, NEW y, NEW L, Chains(x, L), NEW p \in Pages, NEW pg, PageSet(x, y, p, pg),
           \/ Loose(L, p)
           \/ pg.next = x.page[p].next /\ pg.prev = x.page[p].prev
    PROVE  Did(x, y, L, L, p) /\ SameRest(x, y) /\ y.page[p] = pg
<1>1. /\ y \in Heaps /\ SameButPages(x, y) /\ SameRest(x, y)
      /\ \A r \in Pages : y.page[r] = IF r = p THEN pg ELSE x.page[r]
      BY DEF PageSet
<1>2. ASSUME NEW q \in Queues PROVE Chain(y, q, L[q])
  <2>1. L[q] \in Seq(Pages) /\ Chain(x, q, L[q])
        BY DEF Chains
  <2>2. /\ y.first[q] = x.first[q] /\ y.last[q] = x.last[q] /\ y.count[q] = x.count[q]
        /\ (q \in y.occupied <=> q \in x.occupied)
        BY <1>1 DEF SameButPages
  <2>3. \A r \in Pages : InList(L[q], r) => /\ y.page[r].next = x.page[r].next
                                            /\ y.page[r].prev = x.page[r].prev
        BY <1>1 DEF Loose
  <2> QED BY <2>1, <2>2, <2>3, ChainStays
<1>3. Chains(y, L)
      BY <1>1, <1>2 DEF Chains, SameButPages, DirectShows
<1> QED BY <1>1, <1>3 DEF Did, SameRest, SameBody

LEMMA WriteIs ==
    ASSUME NEW x \in Heaps, NEW p \in Pages, NEW pg \in PageRecs
    PROVE  PageSet(x, [x EXCEPT !.page[p] = pg], p, pg)
<1>1. [x.page EXCEPT ![p] = pg] \in [Pages -> PageRecs]
      BY DEF Heaps
<1>2. [x EXCEPT !.page[p] = pg] = [x EXCEPT !.page = [x.page EXCEPT ![p] = pg]]
      OBVIOUS
<1> QED BY <1>1, <1>2 DEF PageSet, SameButPages, SameRest, Heaps

LEMMA SetExpireIs ==
    ASSUME NEW x \in Heaps, NEW p \in Pages, NEW n \in Nat
    PROVE  PageSet(x, SetExpire(x, p, n), p, [x.page[p] EXCEPT !.expire = n])
<1>1. [x.page[p] EXCEPT !.expire = n] \in PageRecs
      BY DEF Heaps, PageRecs
<1>2. SetExpire(x, p, n) = [x EXCEPT !.page[p] = [x.page[p] EXCEPT !.expire = n]]
      BY DEF SetExpire
<1> QED BY <1>1, <1>2, WriteIs

LEMMA SetInFullQueueIs ==
    ASSUME NEW x \in Heaps, NEW p \in Pages, NEW b \in BOOLEAN
    PROVE  PageSet(x, SetInFullQueue(x, p, b), p, [x.page[p] EXCEPT !.full = b])
<1>1. [x.page[p] EXCEPT !.full = b] \in PageRecs
  <2>1. x.page[p] \in PageRecs
        BY DEF Heaps
  <2> QED BY <2>1 DEF PageRecs
<1>2. SetInFullQueue(x, p, b) = [x EXCEPT !.page[p] = [x.page[p] EXCEPT !.full = b]]
      BY DEF SetInFullQueue
<1> QED BY <1>1, <1>2, WriteIs

LEMMA TookIs ==
    ASSUME NEW x \in Heaps, NEW p \in Pages
    PROVE  PageSet(x, Took(x, p), p, [x.page[p] EXCEPT !.used = x.page[p].used + 1])
<1>1. [x.page[p] EXCEPT !.used = x.page[p].used + 1] \in PageRecs
      BY DEF Heaps, PageRecs
<1>2. Took(x, p) = [x EXCEPT !.page[p] = [x.page[p] EXCEPT !.used = x.page[p].used + 1]]
      BY DEF Took
<1> QED BY <1>1, <1>2, WriteIs

\* The first page of a list, taken out and put first, leaves the list as it was.
LEMMA FrontStays ==
    ASSUME NEW s \in Seq(Pages), Once(s), Len(s) > 0
    PROVE  <<s[1]>> \o Lists!Without(s, s[1]) = s
<1> DEFINE t == Lists!Without(s, s[1])
           u == <<s[1]>> \o t
<1>1. Len(s) \in Nat /\ 1 \in 1 .. Len(s) /\ s[1] \in Pages
      OBVIOUS
<1>2. /\ t \in Seq(Pages) /\ Len(t) = Len(s) - 1
      /\ \A i \in 1 .. Len(s) - 1 : t[i] = s[i + 1]
  <2>1. /\ t \in Seq(Pages) /\ Len(t) = Len(s) - 1
        /\ \A i \in 1 .. Len(s) - 1 : t[i] = IF i < 1 THEN s[i] ELSE s[i + 1]
        BY <1>1, WithoutIs
  <2> HIDE DEF t
  <2> QED BY <1>1, <2>1
<1> HIDE DEF t
<1>3. /\ u \in Seq(Pages) /\ Len(u) = Len(t) + 1
      /\ \A i \in 1 .. Len(t) + 1 : u[i] = IF i = 1 THEN s[1] ELSE t[i - 1]
      BY <1>1, <1>2, ConsIs
<1> HIDE DEF u
<1>4. Len(u) = Len(s)
      BY <1>1, <1>2, <1>3
<1>5. ASSUME NEW i \in 1 .. Len(u) PROVE u[i] = s[i]
  <2>1. i # 1 => i - 1 \in 1 .. Len(s) - 1 /\ (i - 1) + 1 = i
        BY <1>1, <1>4
  <2> QED BY <1>1, <1>2, <1>3, <1>4, <2>1
<1>6. u = s
      BY <1>3, <1>4, <1>5, SeqEqual
<1> QED BY <1>6 DEF u, t

LEMMA MoveToFrontMoves ==
    ASSUME NEW x, NEW L, Chains(x, L), NEW q \in Queues, NEW p \in Pages, InList(L[q], p)
    PROVE  LET M == [L EXCEPT ![q] = <<p>> \o Lists!Without(@, p)]
           IN  Moved(x, MoveToFront(x, q, p), L, M, p) /\ OnlyIn(M, p, q)
<1> DEFINE t == Lists!Without(L[q], p)
           u == <<p>> \o t
           M == [L EXCEPT ![q] = u]
<1>0. L \in [Queues -> Seq(Pages)] /\ Chain(x, q, L[q]) /\ Once(L[q]) /\ Len(L[q]) \in Nat
      BY ListTypes DEF Chains, NoTwice
<1>1. CASE x.first[q] = p
  <2>1. Len(L[q]) > 0 /\ L[q][1] = p
        BY <1>0, <1>1, NumberFacts DEF Chain
  <2>2. u = L[q]
        BY <1>0, <2>1, FrontStays
  <2> HIDE DEF u
  <2>3. M = L
        BY <1>0, <2>2
  <2>4. OnlyIn(L, p, q)
        BY DEF OnlyIn, Chains, NoTwice
  <2>5. Moved(x, x, L, L, p)
        BY DEF Moved, Did, SameRest, SameBody
  <2>6. MoveToFront(x, q, p) = x
        BY <1>1 DEF MoveToFront
  <2> HIDE DEF M
  <2> QED BY <2>3, <2>4, <2>5, <2>6 DEF M, u
<1>2. CASE x.first[q] # p
  <2> DEFINE y == Remove(x, q, p)
             K == [L EXCEPT ![q] = t]
             z == PushFront(y, q, p)
             N == [K EXCEPT ![q] = <<p>> \o K[q]]
  <2>1. Moved(x, y, L, K, p) /\ Loose(K, p)
        BY RemoveMoves
  <2>2. Chains(y, K)
        BY <2>1 DEF Moved, Did
  <2> HIDE DEF y, K
  <2>3. Moved(y, z, K, N, p) /\ OnlyIn(N, p, q)
        BY <2>1, <2>2, PushFrontMoves
  <2>4. N = M
    <3> HIDE DEF t
    <3> QED BY <1>0 DEF K
  <2>5. MoveToFront(x, q, p) = z
        BY <1>2 DEF MoveToFront, y
  <2> HIDE DEF z, N, M
  <2>6. Moved(x, z, L, N, p)
        BY <2>1, <2>3, MovedThenMoved
  <2> QED BY <2>3, <2>4, <2>5, <2>6 DEF M, u, t
<1> QED BY <1>1, <1>2

\* The lists after a page went from one queue to the end of another.
Requeued(L, q, k, p) == [L EXCEPT ![q] = Lists!Without(@, p), ![k] = Append(@, p)]

\* The page that moves between its queue and the full one, with its flag.
LEMMA RequeueDid ==
    ASSUME NEW x, NEW L, Chains(x, L), NEW q \in Queues, NEW k \in Queues, q # k,
           NEW p \in Pages, InList(L[q], p), NEW b \in BOOLEAN, NEW z,
           z = PushBack(SetInFullQueue(Remove(x, q, p), p, b), k, p), NEW M,
           M = Requeued(L, q, k, p)
    PROVE  /\ Did(x, z, L, M, p) /\ SameRest(x, z) /\ OnlyIn(M, p, k)
           /\ z.page[p].full = b /\ z.page[p].bin = x.page[p].bin
           /\ z.page[p].used = x.page[p].used /\ z.page[p].cap = x.page[p].cap
           /\ z.page[p].expire = x.page[p].expire
<1> DEFINE u == Remove(x, q, p)
           K == [L EXCEPT ![q] = Lists!Without(@, p)]
           pg == [u.page[p] EXCEPT !.full = b]
           v == SetInFullQueue(u, p, b)
           N == [K EXCEPT ![k] = Append(@, p)]
<1>0. L \in [Queues -> Seq(Pages)]
      BY DEF Chains
<1>1. Moved(x, u, L, K, p) /\ Loose(K, p)
      BY RemoveMoves
<1>2. Chains(u, K)
      BY <1>1 DEF Moved, Did
<1>3. u \in Heaps
      BY <1>2 DEF Chains
<1>4. N = M
      BY <1>0 DEF Requeued
<1> HIDE DEF u, K
<1>5. PageSet(u, v, p, pg)
      BY <1>3, SetInFullQueueIs
<1>6. /\ pg.full = b /\ pg.bin = u.page[p].bin /\ pg.used = u.page[p].used
      /\ pg.cap = u.page[p].cap /\ pg.expire = u.page[p].expire
      BY <1>3 DEF Heaps, PageRecs
<1> HIDE DEF pg, v
<1>7. Did(u, v, K, K, p) /\ SameRest(u, v) /\ v.page[p] = pg
      BY <1>1, <1>2, <1>5, PageSetDid
<1>8. Chains(v, K)
      BY <1>7 DEF Did
<1>9. Moved(v, z, K, N, p) /\ OnlyIn(N, p, k)
      BY <1>1, <1>8, PushBackMoves DEF v, u
<1> HIDE DEF N
<1>10. Did(x, v, L, K, p)
       BY <1>1, <1>7, DidThenDid DEF Moved
<1>11. Did(x, z, L, N, p)
       BY <1>9, <1>10, DidThenDid DEF Moved
<1>12. SameRest(x, z)
       BY <1>1, <1>7, <1>9 DEF Moved, SameRest
<1>13. /\ z.page[p].full = b /\ z.page[p].bin = x.page[p].bin
       /\ z.page[p].used = x.page[p].used /\ z.page[p].cap = x.page[p].cap
       /\ z.page[p].expire = x.page[p].expire
       BY <1>1, <1>6, <1>7, <1>9 DEF Moved, SameBody
<1> QED BY <1>4, <1>9, <1>11, <1>12, <1>13

LEMMA FreePageDid ==
    ASSUME NEW x, NEW L, Chains(x, L), NEW q \in Queues, NEW p \in Pages, InList(L[q], p)
    PROVE  LET M == [L EXCEPT ![q] = Lists!Without(@, p)]
               z == FreePage(x, q, p)
           IN  /\ Did(x, z, L, M, p) /\ Loose(M, p) /\ z.page[p] = Gone
               /\ z.avail = x.avail \cup {p} /\ z.ahead = x.ahead /\ z.runs = x.runs
               /\ z.rmin = x.rmin /\ z.rmax = x.rmax
<1> DEFINE u == Remove(x, q, p)
           K == [L EXCEPT ![q] = Lists!Without(@, p)]
           v == [u EXCEPT !.page[p] = Gone]
           z == [v EXCEPT !.avail = @ \cup {p}]
<1>1. Moved(x, u, L, K, p) /\ Loose(K, p)
      BY RemoveMoves
<1>2. Chains(u, K)
      BY <1>1 DEF Moved, Did
<1>3. u \in Heaps
      BY <1>2 DEF Chains
<1> HIDE DEF u, K
<1>4. PageSet(u, v, p, Gone)
      BY <1>3, GoneIs, WriteIs
<1>5. FreePage(x, q, p) = z
      BY <1>3 DEF FreePage, u, Heaps
<1> HIDE DEF v
<1>6. Did(u, v, K, K, p) /\ SameRest(u, v) /\ v.page[p] = Gone
      BY <1>1, <1>2, <1>4, PageSetDid
<1>7. /\ z \in Heaps /\ z.avail = v.avail \cup {p} /\ z.ahead = v.ahead /\ z.runs = v.runs
      /\ z.rmin = v.rmin /\ z.rmax = v.rmax /\ z.page = v.page /\ SameButPages(v, z)
  <2>1. v \in Heaps
        BY <1>4 DEF PageSet
  <2> QED BY <2>1 DEF Heaps, SameButPages
<1> HIDE DEF z
<1>8. Chains(z, K)
      BY <1>6, <1>7 DEF Did, Chains, Chain, SameButPages, DirectShows
<1>9. Did(v, z, K, K, p)
      BY <1>7, <1>8 DEF Did, SameBody
<1>10. Did(x, v, L, K, p)
       BY <1>1, <1>6, DidThenDid DEF Moved
<1>11. Did(x, z, L, K, p)
       BY <1>9, <1>10, DidThenDid
<1>12. /\ z.avail = x.avail \cup {p} /\ z.ahead = x.ahead /\ z.runs = x.runs
       /\ z.rmin = x.rmin /\ z.rmax = x.rmax
       BY <1>1, <1>6, <1>7 DEF Moved, SameRest
<1> QED BY <1>1, <1>5, <1>6, <1>7, <1>11, <1>12 DEF K

-----------------------------------------------------------------------------
(* The invariant of the heap.                                              *)

\* Page p belongs in queue q.
FiledAs(x, q, p) ==
    LET pg == x.page[p]
    IN  /\ pg.bin \in Bins /\ pg.used <= pg.cap /\ pg.cap <= Reserved[pg.bin]
        /\ IF q = Full THEN pg.full /\ ~HasFree(pg) /\ ~Expandable(pg)
           ELSE pg.bin = q /\ ~pg.full
        /\ p \notin x.avail /\ p \notin x.ahead /\ p \notin x.runs

\* A page is where it belongs: one that is in no queue is nobody's.
PageOk(x, L, p) ==
    /\ \A q \in Queues : InList(L[q], p) => FiledAs(x, q, p)
    /\ Loose(L, p) => x.page[p] = Gone
    /\ p \in x.runs => p \notin x.avail /\ p \notin x.ahead

\* The links of x spell the lists L, and every page is where it belongs.
Spells(x, L) == Chains(x, L) /\ \A p \in Pages : PageOk(x, L, p)

\* The same, but for a page whose header an operation is changing.
SpellsBut(x, L, p) == Chains(x, L) /\ \A r \in Pages : r # p => PageOk(x, L, r)

SameHomes(x, y)     == \A r \in Pages : y.page[r].bin = x.page[r].bin
Rehomed(x, y, p, b) == \A r \in Pages : y.page[r].bin = IF r = p THEN b ELSE x.page[r].bin

\* A step of PageLists.
ListStep(x, y, L, M) ==
    \/ M = L /\ SameHomes(x, y)
    \/ \E p \in Pages :
           \/ \E b \in Bins :
                  Loose(L, p) /\ M = [L EXCEPT ![b] = <<p>> \o @] /\ Rehomed(x, y, p, b)
           \/ \E q \in Queues :
                  /\ InList(L[q], p) /\ M = [L EXCEPT ![q] = Lists!Without(@, p)]
                  /\ Rehomed(x, y, p, None)
           \/ \E b \in Bins :
                  /\ x.page[p].bin = b /\ SameHomes(x, y)
                  /\ \/ /\ InList(L[b], p)
                        /\ M = [L EXCEPT ![b] = <<p>> \o Lists!Without(@, p)]
                     \/ /\ InList(L[b], p)
                        /\ M = [L EXCEPT ![b] = Lists!Without(@, p), ![Full] = Append(@, p)]
                     \/ /\ InList(L[Full], p)
                        /\ M = [L EXCEPT ![Full] = Lists!Without(@, p), ![b] = Append(@, p)]

LEMMA SpellsThenBut ==
    ASSUME NEW x, NEW L, Spells(x, L), NEW p \in Pages
    PROVE  SpellsBut(x, L, p)
BY DEF Spells, SpellsBut

\* The pages an operation leaves alone stay where they belong.
LEMMA DidKeeps ==
    ASSUME NEW x, NEW y, NEW L, NEW M, NEW p \in Pages, SpellsBut(x, L, p),
           Did(x, y, L, M, p)
    PROVE  SpellsBut(y, M, p)
<1> SUFFICES ASSUME NEW r \in Pages, r # p PROVE PageOk(y, M, r)
    BY DEF SpellsBut, Did
<1>1. /\ SameBody(x.page[r], y.page[r]) /\ (Loose(L, r) => y.page[r] = x.page[r])
      /\ (r \in y.avail <=> r \in x.avail) /\ (r \in y.ahead <=> r \in x.ahead)
      /\ (r \in y.runs <=> r \in x.runs)
      /\ \A q \in Queues : InList(M[q], r) <=> InList(L[q], r)
      BY DEF Did
<1>2. PageOk(x, L, r)
      BY DEF SpellsBut
<1>3. Loose(M, r) <=> Loose(L, r)
      BY <1>1 DEF Loose
<1>4. \A q \in Queues : FiledAs(x, q, r) => FiledAs(y, q, r)
      BY <1>1 DEF FiledAs, SameBody, HasFree, Expandable
<1> QED BY <1>1, <1>2, <1>3, <1>4 DEF PageOk

LEMMA ButThenSpells ==
    ASSUME NEW x, NEW L, NEW p \in Pages, SpellsBut(x, L, p), PageOk(x, L, p)
    PROVE  Spells(x, L)
BY DEF SpellsBut, Spells

LEMMA OkInQueue ==
    ASSUME NEW x, NEW L, NEW p \in Pages, NEW q \in Queues, OnlyIn(L, p, q), FiledAs(x, q, p)
    PROVE  PageOk(x, L, p)
BY DEF OnlyIn, PageOk, Loose, FiledAs

LEMMA OkLoose ==
    ASSUME NEW x, NEW L, NEW p \in Pages, Loose(L, p), x.page[p] = Gone,
           p \in x.runs => p \notin x.avail /\ p \notin x.ahead
    PROVE  PageOk(x, L, p)
BY DEF PageOk, Loose

\* What is known of a page of a list.
LEMMA PageOfList ==
    ASSUME NEW x, NEW L, Spells(x, L), NEW q \in Queues, NEW p, InList(L[q], p)
    PROVE  /\ p \in Pages /\ p # None /\ x.page[p] \in PageRecs /\ FiledAs(x, q, p)
           /\ x.page[p].bin \in Bins /\ OnlyIn(L, p, q)
           /\ q # Full => x.page[p].bin = q
           /\ x.page[p].used \in Nat /\ x.page[p].cap \in Nat
           /\ Reserved[x.page[p].bin] \in Nat \ {0}
<1>1. p \in Pages /\ p # None
      BY ListTypes, NumberFacts DEF Spells, Chains
<1>2. FiledAs(x, q, p)
      BY <1>1 DEF Spells, PageOk
<1>3. x.page[p] \in PageRecs
      BY <1>1 DEF Spells, Chains, Heaps
<1>4. OnlyIn(L, p, q)
      BY DEF Spells, Chains, NoTwice, OnlyIn
<1>5. x.page[p].used \in Nat /\ x.page[p].cap \in Nat
      BY <1>3 DEF PageRecs
<1> QED BY <1>1, <1>2, <1>3, <1>4, <1>5, PolicyFacts DEF FiledAs

\* A page in use is in a list.
LEMMA UsedInList ==
    ASSUME NEW x, NEW L, Spells(x, L), NEW p \in Pages, x.page[p] # Gone
    PROVE  \E q \in Queues : InList(L[q], p)
BY DEF Spells, PageOk, Loose

\* The page after one of a list is in the list too, and is another.
LEMMA NextInList ==
    ASSUME NEW x, NEW L, Chains(x, L), NEW q \in Queues, NEW p, InList(L[q], p),
           x.page[p].next # None
    PROVE  InList(L[q], x.page[p].next) /\ x.page[p].next # p
<1>1. /\ Chain(x, q, L[q]) /\ Len(L[q]) \in Nat /\ Once(L[q])
      /\ \A i \in 1 .. Len(L[q]) : InList(L[q], L[q][i])
      BY ListTypes DEF Chains, NoTwice
<1>2. PICK i \in 1 .. Len(L[q]) : L[q][i] = p
      BY DEF InList
<1>3. x.page[p].next = IF i = Len(L[q]) THEN None ELSE L[q][i + 1]
      BY <1>1, <1>2 DEF Chain
<1>4. i + 1 \in 1 .. Len(L[q]) /\ x.page[p].next = L[q][i + 1] /\ i # i + 1
      BY <1>1, <1>3
<1>5. L[q][i + 1] # L[q][i]
      BY <1>1, <1>4 DEF Once
<1> QED BY <1>1, <1>2, <1>4, <1>5

\* The first page of a queue is in its list.
LEMMA FirstInList ==
    ASSUME NEW x, NEW L, Chains(x, L), NEW q \in Queues, x.first[q] # None
    PROVE  InList(L[q], x.first[q])
BY EndsInList

-----------------------------------------------------------------------------
(* What each operation keeps.                                              *)

\* A header written without its links.
LEMMA WriteKeeps ==
    ASSUME NEW x, NEW y, NEW L, Spells(x, L), NEW q \in Queues, NEW p, InList(L[q], p),
           NEW pg, PageSet(x, y, p, pg),
           pg.next = x.page[p].next, pg.prev = x.page[p].prev, pg.bin = x.page[p].bin,
           pg.full = x.page[p].full, pg.used <= pg.cap, pg.cap <= Reserved[pg.bin],
           q = Full => ~HasFree(pg) /\ ~Expandable(pg)
    PROVE  Spells(y, L) /\ SameHomes(x, y)
<1>1. p \in Pages /\ FiledAs(x, q, p) /\ OnlyIn(L, p, q) /\ Chains(x, L)
      BY PageOfList DEF Spells
<1>2. Did(x, y, L, L, p) /\ SameRest(x, y) /\ y.page[p] = pg
      BY <1>1, PageSetDid
<1>3. SpellsBut(y, L, p)
      BY <1>1, <1>2, SpellsThenBut, DidKeeps
<1>4. FiledAs(y, q, p)
      BY <1>1, <1>2 DEF FiledAs, SameRest
<1>5. Spells(y, L)
      BY <1>1, <1>3, <1>4, OkInQueue, ButThenSpells
<1>6. SameHomes(x, y)
      BY <1>1, <1>2 DEF SameHomes, Did, SameBody
<1> QED BY <1>5, <1>6

LEMMA SetExpireKeeps ==
    ASSUME NEW x, NEW L, Spells(x, L), NEW q \in Queues, NEW p, InList(L[q], p), NEW n \in Nat
    PROVE  LET y == SetExpire(x, p, n)
           IN  /\ Spells(y, L) /\ SameHomes(x, y) /\ SameRest(x, y) /\ SameButPages(x, y)
               /\ \A r \in Pages : /\ y.page[r].used = x.page[r].used
                                   /\ y.page[r].cap = x.page[r].cap
                                   /\ y.page[r].next = x.page[r].next
<1> DEFINE y == SetExpire(x, p, n)
           pg == [x.page[p] EXCEPT !.expire = n]
<1>1. /\ p \in Pages /\ FiledAs(x, q, p) /\ x.page[p] \in PageRecs /\ x \in Heaps
      BY PageOfList DEF Spells, Chains
<1>2. PageSet(x, y, p, pg)
      BY <1>1, SetExpireIs
<1>3. /\ pg.next = x.page[p].next /\ pg.prev = x.page[p].prev /\ pg.bin = x.page[p].bin
      /\ pg.full = x.page[p].full /\ pg.used = x.page[p].used /\ pg.cap = x.page[p].cap
      BY <1>1 DEF PageRecs
<1> HIDE DEF y, pg
<1>4. /\ pg.used <= pg.cap /\ pg.cap <= Reserved[pg.bin]
      /\ (q = Full => ~HasFree(pg) /\ ~Expandable(pg))
      BY <1>1, <1>3 DEF FiledAs, HasFree, Expandable
<1>5. Spells(y, L) /\ SameHomes(x, y)
      BY <1>2, <1>3, <1>4, WriteKeeps
<1> QED BY <1>2, <1>3, <1>5 DEF PageSet, y

LEMMA FreePageKeeps ==
    ASSUME NEW x, NEW L, Spells(x, L), NEW q \in Queues, NEW p, InList(L[q], p)
    PROVE  LET M == [L EXCEPT ![q] = Lists!Without(@, p)]
               y == FreePage(x, q, p)
           IN  /\ Spells(y, M) /\ Rehomed(x, y, p, None)
               /\ y.rmin = x.rmin /\ y.rmax = x.rmax
<1> DEFINE M == [L EXCEPT ![q] = Lists!Without(@, p)]
           y == FreePage(x, q, p)
<1>1. p \in Pages /\ FiledAs(x, q, p) /\ Chains(x, L)
      BY PageOfList DEF Spells
<1>2. /\ Did(x, y, L, M, p) /\ Loose(M, p) /\ y.page[p] = Gone
      /\ y.avail = x.avail \cup {p} /\ y.ahead = x.ahead /\ y.runs = x.runs
      /\ y.rmin = x.rmin /\ y.rmax = x.rmax
      BY <1>1, FreePageDid
<1> HIDE DEF y, M
<1>3. SpellsBut(y, M, p)
      BY <1>1, <1>2, SpellsThenBut, DidKeeps
<1>4. PageOk(y, M, p)
      BY <1>1, <1>2, OkLoose DEF FiledAs
<1>5. Gone.bin = None
      BY DEF Gone
<1>6. Rehomed(x, y, p, None)
      BY <1>2, <1>5 DEF Rehomed, Did, SameBody
<1> QED BY <1>1, <1>2, <1>3, <1>4, <1>6, ButThenSpells DEF y, M

LEMMA MoveToFullKeeps ==
    ASSUME NEW x, NEW L, Spells(x, L), NEW q \in Bins, NEW p, InList(L[q], p),
           ~HasFree(x.page[p]), ~Expandable(x.page[p])
    PROVE  LET M == [L EXCEPT ![q] = Lists!Without(@, p), ![Full] = Append(@, p)]
               y == MoveToFull(x, q, p)
           IN  /\ Spells(y, M) /\ SameHomes(x, y) /\ OnlyIn(M, p, Full) /\ Did(x, y, L, M, p)
<1> DEFINE M == [L EXCEPT ![q] = Lists!Without(@, p), ![Full] = Append(@, p)]
           y == MoveToFull(x, q, p)
           parked == TRUE
<1>1. q \in Queues /\ Full \in Queues /\ q # Full /\ parked \in BOOLEAN
      BY NumberFacts
<1>2. p \in Pages /\ FiledAs(x, q, p) /\ Chains(x, L)
      BY <1>1, PageOfList DEF Spells
<1>3. y = PushBack(SetInFullQueue(Remove(x, q, p), p, parked), Full, p)
      BY DEF MoveToFull
<1>0. M = Requeued(L, q, Full, p)
      BY DEF Requeued
<1> HIDE DEF y, parked, M
<1>4. /\ Did(x, y, L, M, p) /\ SameRest(x, y) /\ OnlyIn(M, p, Full)
      /\ y.page[p].full = parked /\ y.page[p].bin = x.page[p].bin
      /\ y.page[p].used = x.page[p].used /\ y.page[p].cap = x.page[p].cap
      BY <1>0, <1>1, <1>2, <1>3, RequeueDid
<1>5. SpellsBut(y, M, p)
      BY <1>2, <1>4, SpellsThenBut, DidKeeps
<1>6. FiledAs(y, Full, p)
      BY <1>1, <1>2, <1>4 DEF FiledAs, SameRest, HasFree, Expandable, parked
<1>7. SameHomes(x, y)
      BY <1>4 DEF SameHomes, Did, SameBody
<1> QED BY <1>1, <1>2, <1>4, <1>5, <1>6, <1>7, OkInQueue, ButThenSpells DEF y, M

LEMMA WithoutAppended ==
    ASSUME NEW s \in Seq(Pages), NEW p \in Pages, Once(s), ~InList(s, p)
    PROVE  Lists!Without(Append(s, p), p) = s
<1> DEFINE t == Append(s, p)
           u == Lists!Without(t, p)
<1>1. /\ t \in Seq(Pages) /\ Len(t) = Len(s) + 1 /\ Len(s) \in Nat
      /\ \A i \in 1 .. Len(s) + 1 : t[i] = IF i = Len(s) + 1 THEN p ELSE s[i]
      BY AppendIs
<1> HIDE DEF t
<1>2. ASSUME NEW i \in 1 .. Len(s) PROVE s[i] # p
      BY DEF InList
<1>3. Once(t)
  <2> SUFFICES ASSUME NEW i \in 1 .. Len(t), NEW j \in 1 .. Len(t), t[i] = t[j]
               PROVE  i = j
      BY DEF Once
  <2>1. CASE i \in 1 .. Len(s) /\ j \in 1 .. Len(s)
    <3>1. s[i] = s[j]
          BY <1>1, <2>1
    <3> QED BY <2>1, <3>1 DEF Once
  <2>2. CASE i = Len(s) + 1 \/ j = Len(s) + 1
    <3>1. i # Len(s) + 1 => i \in 1 .. Len(s)
          BY <1>1
    <3>2. j # Len(s) + 1 => j \in 1 .. Len(s)
          BY <1>1
    <3> QED BY <1>1, <1>2, <2>2, <3>1, <3>2
  <2> QED BY <1>1, <2>1, <2>2
<1>4. Len(t) \in 1 .. Len(t) /\ t[Len(t)] = p
      BY <1>1
<1>5. /\ u \in Seq(Pages) /\ Len(u) = Len(t) - 1
      /\ \A i \in 1 .. Len(t) - 1 : u[i] = IF i < Len(t) THEN t[i] ELSE t[i + 1]
      BY <1>1, <1>3, <1>4, WithoutIs
<1> HIDE DEF u
<1>6. Len(u) = Len(s)
      BY <1>1, <1>5
<1>7. ASSUME NEW i \in 1 .. Len(u) PROVE u[i] = s[i]
      BY <1>1, <1>5, <1>6
<1> QED BY <1>5, <1>6, <1>7, SeqEqual DEF u, t

\* An empty page is given a countdown, or is freed.
LEMMA RetireKeeps ==
    ASSUME NEW x, NEW L, Spells(x, L), NEW q \in Bins, NEW p, InList(L[q], p)
    PROVE  LET M == [L EXCEPT ![q] = Lists!Without(@, p)]
               y == Retire(x, p)
           IN  \/ Spells(y, L) /\ SameHomes(x, y)
               \/ Spells(y, M) /\ Rehomed(x, y, p, None)
<1> DEFINE keep == /\ x.count[q] <= RetireMaxPages
                   /\ x.count[q] = 1 \/ q \in BelowDirect
           n == RetireCycles[q]
           z == SetExpire(x, p, n)
           lo == IF q < x.rmin THEN q ELSE x.rmin
           hi == IF q > x.rmax THEN q ELSE x.rmax
           y == [z EXCEPT !.rmin = lo, !.rmax = hi]
<1>1. q \in Queues /\ q # Full /\ n \in Nat
      BY NumberFacts, PolicyFacts
<1>2. p \in Pages /\ x.page[p].bin = q /\ x \in Heaps
      BY <1>1, PageOfList DEF Spells, Chains
<1>3. CASE ~keep
  <2>1. Retire(x, p) = FreePage(x, q, p)
        BY <1>2, <1>3 DEF Retire
  <2> QED BY <1>1, <2>1, FreePageKeeps
<1>4. CASE keep
  <2>1. Spells(z, L) /\ SameHomes(x, z) /\ SameRest(x, z)
    <3> HIDE DEF n
    <3> QED BY <1>1, SetExpireKeeps
  <2>2. z \in Heaps
        BY <2>1 DEF Spells, Chains
  <2>3. Retire(x, p) = y
    <3>1. Retire(x, p) = [x EXCEPT !.page[p].expire = n,
                                   !.rmin = IF q < @ THEN q ELSE @,
                                   !.rmax = IF q > @ THEN q ELSE @]
          BY <1>2, <1>4 DEF Retire
    <3> HIDE DEF n
    <3> QED BY <1>2, <3>1 DEF SetExpire, Heaps
  <2> HIDE DEF z
  <2>4. lo \in Bins \cup {QueueCount} /\ hi \in Bins \cup {0}
        BY <1>2 DEF Heaps
  <2> HIDE DEF lo, hi
  <2>5. /\ y \in Heaps /\ SameButPages(z, y) /\ y.page = z.page
        /\ y.avail = z.avail /\ y.ahead = z.ahead /\ y.runs = z.runs
        BY <2>2, <2>4 DEF Heaps, SameButPages
  <2> HIDE DEF y
  <2>6. Chains(y, L)
        BY <2>1, <2>5 DEF Spells, Chains, Chain, SameButPages, DirectShows
  <2>7. \A r \in Pages : PageOk(z, L, r) => PageOk(y, L, r)
        BY <2>5 DEF PageOk, FiledAs
  <2>8. Spells(y, L)
        BY <2>1, <2>6, <2>7 DEF Spells
  <2>9. SameHomes(x, y)
        BY <2>1, <2>5 DEF SameHomes
  <2> QED BY <2>3, <2>8, <2>9
<1> QED BY <1>3, <1>4

\* A page that has just lost a block: it leaves the full queue, and an empty
\* one is retired.
LEMMA TransitionKeeps ==
    ASSUME NEW x, NEW L, NEW p \in Pages, NEW q \in Queues, SpellsBut(x, L, p),
           InList(L[q], p), x.page[p].bin \in Bins, x.page[p].used < x.page[p].cap,
           x.page[p].cap <= Reserved[x.page[p].bin],
           x.page[p].full <=> q = Full, q # Full => x.page[p].bin = q,
           p \notin x.avail, p \notin x.ahead, p \notin x.runs
    PROVE  \E M : Spells(Transition(x, p), M) /\ ListStep(x, Transition(x, p), L, M)
<1> DEFINE b == x.page[p].bin
           K == IF q = Full THEN Requeued(L, Full, b, p) ELSE L
           y == IF x.page[p].full THEN Unfull(x, p) ELSE x
<1>0. /\ b \in Bins /\ b \in Queues /\ b # Full /\ Full \in Queues
      /\ Chains(x, L) /\ L \in [Queues -> Seq(Pages)]
      /\ x.page[p] \in PageRecs
      BY NumberFacts DEF SpellsBut, Chains, Heaps
<1>1. /\ Did(x, y, L, K, p) /\ SameRest(x, y) /\ OnlyIn(K, p, b)
      /\ ~y.page[p].full /\ y.page[p].bin = b
      /\ y.page[p].used = x.page[p].used /\ y.page[p].cap = x.page[p].cap
  <2>1. CASE q = Full
    <3> DEFINE open == FALSE
               z == Unfull(x, p)
               N == Requeued(L, Full, b, p)
    <3>1. y = z /\ K = N
          BY <2>1
    <3>2. z = PushBack(SetInFullQueue(Remove(x, Full, p), p, open), b, p)
          BY DEF Unfull
    <3>3. open \in BOOLEAN /\ InList(L[Full], p)
          BY <2>1
    <3> HIDE DEF open, z, N, b
    <3>4. /\ Did(x, z, L, N, p) /\ SameRest(x, z) /\ OnlyIn(N, p, b)
          /\ z.page[p].full = open /\ z.page[p].bin = x.page[p].bin
          /\ z.page[p].used = x.page[p].used /\ z.page[p].cap = x.page[p].cap
          BY <1>0, <3>2, <3>3, RequeueDid DEF N
    <3> HIDE DEF y, K
    <3> QED BY <3>1, <3>4 DEF open, b
  <2>2. CASE q # Full
    <3>1. y = x /\ K = L /\ b = q
          BY <2>2
    <3>2. Did(x, x, L, L, p) /\ SameRest(x, x)
          BY <1>0 DEF Did, SameRest, SameBody
    <3>3. OnlyIn(L, p, q)
          BY DEF OnlyIn, SpellsBut, Chains, NoTwice
    <3> HIDE DEF y, K
    <3> QED BY <2>2, <3>1, <3>2, <3>3
  <2> QED BY <2>1, <2>2
<1>2. \/ K = L /\ b = q
      \/ InList(L[Full], p) /\ K = Requeued(L, Full, b, p) /\ q = Full
      OBVIOUS
<1>3. Transition(x, p) = IF AllFree(y.page[p]) THEN Retire(y, p) ELSE y
      BY DEF Transition
<1> HIDE DEF y, K
<1>4. SpellsBut(y, K, p)
      BY <1>1, DidKeeps
<1>5. FiledAs(y, b, p)
  <2>1. x.page[p].used <= x.page[p].cap
        BY <1>0 DEF PageRecs
  <2> QED BY <1>0, <1>1, <2>1 DEF FiledAs, SameRest
<1>6. Spells(y, K) /\ InList(K[b], p)
      BY <1>0, <1>1, <1>4, <1>5, OkInQueue, ButThenSpells DEF OnlyIn
<1>7. SameHomes(x, y)
      BY <1>1 DEF SameHomes, Did, SameBody
<1> HIDE DEF b
<1>b. b = x.page[p].bin
      BY DEF b
\* The page stays in its queue.
<1>8. ASSUME NEW z, Spells(z, K), SameHomes(y, z)
      PROVE  Spells(z, K) /\ ListStep(x, z, L, K)
  <2>1. SameHomes(x, z)
        BY <1>7, <1>8 DEF SameHomes
  <2> QED BY <1>0, <1>2, <1>8, <1>b, <2>1 DEF ListStep, Requeued
\* The page is freed, from the queue it came to last.
<1>9. ASSUME NEW z, NEW N, N = [K EXCEPT ![b] = Lists!Without(@, p)],
             Spells(z, N), Rehomed(y, z, p, None)
      PROVE  Spells(z, N) /\ ListStep(x, z, L, N)
  <2>1. Rehomed(x, z, p, None)
        BY <1>7, <1>9 DEF SameHomes, Rehomed
  <2>2. N = [L EXCEPT ![q] = Lists!Without(@, p)]
    <3>1. CASE K = L /\ b = q
          BY <1>9, <3>1
    <3>2. CASE K = Requeued(L, Full, b, p) /\ q = Full
      <4>1. Once(L[b]) /\ ~InList(L[b], p)
            BY <1>0, <3>2 DEF Chains, NoTwice
      <4>2. Lists!Without(Append(L[b], p), p) = L[b]
            BY <1>0, <4>1, WithoutAppended
      <4> QED BY <1>0, <1>9, <3>2, <4>2 DEF Requeued
    <3> QED BY <1>2, <3>1, <3>2
  <2> QED BY <1>9, <2>1, <2>2 DEF ListStep
<1>10. CASE ~AllFree(y.page[p])
  <2>1. SameHomes(y, y)
        BY DEF SameHomes
  <2> QED BY <1>3, <1>6, <1>8, <1>10, <2>1
<1>11. CASE AllFree(y.page[p])
  <2> DEFINE z == Retire(y, p)
             N == [K EXCEPT ![b] = Lists!Without(@, p)]
  <2>1. \/ Spells(z, K) /\ SameHomes(y, z)
        \/ Spells(z, N) /\ Rehomed(y, z, p, None)
        BY <1>0, <1>6, RetireKeeps
  <2>2. Transition(x, p) = z
        BY <1>3, <1>11
  <2> HIDE DEF z, N
  <2> QED BY <1>8, <1>9, <2>1, <2>2 DEF N
<1> QED BY <1>10, <1>11

LEMMA DeallocKeeps ==
    ASSUME NEW L, Spells(h, L), NEW p \in Pages, Dealloc(p)
    PROVE  \E M : Spells(h', M) /\ ListStep(h, h', L, M)
<1> DEFINE pg == [h.page[p] EXCEPT !.used = h.page[p].used - 1]
           x == [h EXCEPT !.page[p] = pg]
<1>1. h.page[p].used > 0 /\ h \in Heaps /\ h.page[p] \in PageRecs /\ Chains(h, L)
      BY DEF Dealloc, Spells, Chains, Heaps
<1>2. PICK q \in Queues : InList(L[q], p)
  <2>1. h.page[p] # Gone
        BY <1>1 DEF Gone
  <2> QED BY <2>1, UsedInList
<1>3. h' = IF NeedsTransition(x.page[p]) THEN Transition(x, p) ELSE x
  <2>1. x = [h EXCEPT !.page[p].used = @ - 1]
        OBVIOUS
  <2> QED BY <2>1 DEF Dealloc
<1>4. /\ FiledAs(h, q, p) /\ h.page[p].bin \in Bins /\ (q # Full => h.page[p].bin = q)
      BY <1>2, PageOfList
<1>5. /\ pg \in PageRecs /\ pg.used = h.page[p].used - 1 /\ pg.cap = h.page[p].cap
      /\ pg.bin = h.page[p].bin /\ pg.full = h.page[p].full
      /\ pg.next = h.page[p].next /\ pg.prev = h.page[p].prev
      BY <1>1 DEF PageRecs
<1>6. PageSet(h, x, p, pg)
  <2> HIDE DEF pg
  <2> QED BY <1>1, <1>5, WriteIs
<1> HIDE DEF pg, x
<1>7. Did(h, x, L, L, p) /\ SameRest(h, x) /\ x.page[p] = pg
      BY <1>1, <1>5, <1>6, PageSetDid
<1>8. SpellsBut(x, L, p)
      BY <1>7, SpellsThenBut, DidKeeps
<1>9. SameHomes(h, x)
      BY <1>5, <1>7 DEF SameHomes, Did, SameBody
<1>10. /\ pg.used < pg.cap /\ pg.cap <= Reserved[pg.bin] /\ pg.bin \in Bins
       /\ (pg.full <=> q = Full) /\ (q # Full => pg.bin = q)
       /\ p \notin x.avail /\ p \notin x.ahead /\ p \notin x.runs
  <2>1. h.page[p].used \in Nat /\ h.page[p].cap \in Nat /\ h.page[p].full \in BOOLEAN
        BY <1>1 DEF PageRecs
  <2>2. h.page[p].used <= h.page[p].cap
        BY <1>4 DEF FiledAs
  <2>3. pg.used < pg.cap
        BY <1>1, <1>5, <2>1, <2>2
  <2>4. h.page[p].full <=> q = Full
        BY <1>4, <2>1 DEF FiledAs
  <2>5. p \notin x.avail /\ p \notin x.ahead /\ p \notin x.runs
        BY <1>4, <1>7 DEF FiledAs, SameRest
  <2> QED BY <1>4, <1>5, <2>3, <2>4, <2>5 DEF FiledAs
<1>11. CASE NeedsTransition(x.page[p])
  <2>1. PICK M : Spells(Transition(x, p), M) /\ ListStep(x, Transition(x, p), L, M)
        BY <1>2, <1>7, <1>8, <1>10, TransitionKeeps
  <2>2. h' = Transition(x, p)
        BY <1>3, <1>11
  <2>3. ListStep(h, h', L, M)
        BY <1>9, <2>1, <2>2, SMTT(30) DEF ListStep, SameHomes, Rehomed
  <2> QED BY <2>1, <2>2, <2>3
<1>12. CASE ~NeedsTransition(x.page[p])
  <2>1. ~pg.full
        BY <1>7, <1>12 DEF NeedsTransition
  <2>2. FiledAs(x, q, p)
    <3>1. pg.used <= pg.cap
          BY <1>5, <1>10 DEF PageRecs
    <3> QED BY <1>7, <1>10, <2>1, <3>1 DEF FiledAs
  <2>3. OnlyIn(L, p, q)
        BY <1>2 DEF OnlyIn, Spells, Chains, NoTwice
  <2>4. Spells(x, L)
        BY <1>8, <2>2, <2>3, OkInQueue, ButThenSpells
  <2>5. h' = x /\ ListStep(h, x, L, L)
        BY <1>3, <1>9, <1>12 DEF ListStep
  <2> QED BY <2>4, <2>5
<1> QED BY <1>11, <1>12

LEMMA MoveToFrontKeeps ==
    ASSUME NEW x, NEW L, Spells(x, L), NEW q \in Bins, NEW p, InList(L[q], p)
    PROVE  LET M == [L EXCEPT ![q] = <<p>> \o Lists!Without(@, p)]
               y == MoveToFront(x, q, p)
           IN  /\ Spells(y, M) /\ SameHomes(x, y) /\ InList(M[q], p)
               /\ y.page[p].used = x.page[p].used /\ y.page[p].cap = x.page[p].cap
<1> DEFINE M == [L EXCEPT ![q] = <<p>> \o Lists!Without(@, p)]
           y == MoveToFront(x, q, p)
<1>1. q \in Queues
      BY NumberFacts
<1>2. p \in Pages /\ FiledAs(x, q, p) /\ Chains(x, L)
      BY <1>1, PageOfList DEF Spells
<1>3. Moved(x, y, L, M, p) /\ OnlyIn(M, p, q)
      BY <1>1, <1>2, MoveToFrontMoves
<1> HIDE DEF y, M
<1>4. SpellsBut(y, M, p)
      BY <1>2, <1>3, SpellsThenBut, DidKeeps DEF Moved
<1>5. FiledAs(y, q, p)
      BY <1>2, <1>3 DEF FiledAs, Moved, SameRest, SameBody, HasFree, Expandable
<1>6. Spells(y, M)
      BY <1>1, <1>2, <1>3, <1>4, <1>5, OkInQueue, ButThenSpells
<1>7. SameHomes(x, y)
      BY <1>3 DEF SameHomes, Moved, Did, SameBody
<1> QED BY <1>1, <1>3, <1>6, <1>7 DEF OnlyIn, Moved, SameBody, M, y

LEMMA ExtendedIs ==
    ASSUME NEW pg \in PageRecs, pg.bin \in Bins, pg.cap <= Reserved[pg.bin]
    PROVE  LET e == Extended(pg)
           IN  /\ e \in PageRecs /\ e.bin = pg.bin /\ e.used = pg.used /\ e.full = pg.full
               /\ e.next = pg.next /\ e.prev = pg.prev /\ e.expire = pg.expire
               /\ pg.cap <= e.cap /\ e.cap <= Reserved[pg.bin]
               /\ pg.cap < Reserved[pg.bin] => pg.cap < e.cap
<1> DEFINE c == IF pg.cap + Batch > Reserved[pg.bin] THEN Reserved[pg.bin] ELSE pg.cap + Batch
<1>1. Batch \in Nat \ {0} /\ Reserved[pg.bin] \in Nat \ {0} /\ pg.cap \in Nat
      BY PolicyFacts DEF PageRecs
<1>2. /\ c \in Nat /\ pg.cap <= c /\ c <= Reserved[pg.bin]
      /\ (pg.cap < Reserved[pg.bin] => pg.cap < c)
      BY <1>1
<1>3. Extended(pg) = [pg EXCEPT !.cap = c]
      BY DEF Extended
<1> HIDE DEF c
<1> QED BY <1>2, <1>3 DEF PageRecs

\* A slot of memory for a run, or for a page that serves its first block.
LEMMA GrantedKeeps ==
    ASSUME NEW x, NEW L, Spells(x, L), NEW b \in Bins \cup {Huge},
           NEW p \in x.avail \cup x.ahead
    PROVE  \E M : Spells(Granted(x, b, p), M) /\ ListStep(x, Granted(x, b, p), L, M)
<1> DEFINE y == [x EXCEPT !.avail = @ \ {p}, !.ahead = @ \ {p}]
<1>1. x \in Heaps /\ Chains(x, L) /\ p \in Pages
      BY DEF Spells, Chains, Heaps
<1>2. PageOk(x, L, p)
      BY <1>1 DEF Spells
<1>3. Loose(L, p)
      BY <1>2 DEF PageOk, FiledAs, Loose
<1>4. x.page[p] = Gone /\ p \notin x.runs
      BY <1>2, <1>3 DEF PageOk
<1>5. /\ y \in Heaps /\ SameButPages(x, y) /\ y.page = x.page
      /\ y.avail = x.avail \ {p} /\ y.ahead = x.ahead \ {p} /\ y.runs = x.runs
      BY <1>1 DEF Heaps, SameButPages
<1> HIDE DEF y
<1>6. Chains(y, L)
      BY <1>1, <1>5 DEF Chains, Chain, SameButPages, DirectShows
<1>7. Did(x, y, L, L, p)
      BY <1>5, <1>6 DEF Did, SameBody
<1>8. CASE b = Huge
  <2> DEFINE z == [y EXCEPT !.runs = @ \cup {p}]
  <2>1. Granted(x, b, p) = z
        BY <1>8 DEF Granted, y
  <2>2. /\ z \in Heaps /\ SameButPages(x, z) /\ z.page = x.page
        /\ z.avail = x.avail \ {p} /\ z.ahead = x.ahead \ {p} /\ z.runs = x.runs \cup {p}
        BY <1>1, <1>5 DEF Heaps, SameButPages
  <2> HIDE DEF z
  <2>3. Chains(z, L)
        BY <1>1, <2>2 DEF Chains, Chain, SameButPages, DirectShows
  <2>4. Did(x, z, L, L, p)
        BY <2>2, <2>3 DEF Did, SameBody
  <2>5. PageOk(z, L, p)
        BY <1>1, <1>3, <1>4, <2>2, OkLoose
  <2>6. Spells(z, L)
        BY <1>1, <2>4, <2>5, SpellsThenBut, DidKeeps, ButThenSpells
  <2>7. SameHomes(x, z)
        BY <2>2 DEF SameHomes
  <2>8. ListStep(x, z, L, L)
        BY <2>7 DEF ListStep
  <2> QED BY <2>1, <2>6, <2>8
<1>9. CASE b # Huge
  <2> DEFINE u == [y EXCEPT !.page[p] = Fresh(b)]
             z == PushFront(u, b, p)
             e == Extended(z.page[p])
             v == [z EXCEPT !.page[p] = e]
             pg == [v.page[p] EXCEPT !.used = v.page[p].used + 1]
             t == Took(v, p)
             M == [L EXCEPT ![b] = <<p>> \o @]
  <2>0. b \in Bins /\ b \in Queues /\ b # Full
        BY <1>9, NumberFacts
  <2>1. Granted(x, b, p) = t
        BY <1>9 DEF Granted, y
  <2>2. /\ Fresh(b) \in PageRecs /\ Fresh(b).bin = b /\ Fresh(b).used = 0
        /\ Fresh(b).cap = 0 /\ Fresh(b).full = FALSE
        BY <2>0, GoneIs DEF Fresh, Gone, PageRecs
  <2>3. PageSet(y, u, p, Fresh(b))
        BY <1>1, <1>5, <2>2, WriteIs
  <2> HIDE DEF u
  <2>4. Did(y, u, L, L, p) /\ SameRest(y, u) /\ u.page[p] = Fresh(b)
        BY <1>1, <1>3, <1>6, <2>3, PageSetDid
  <2>5. Moved(u, z, L, M, p) /\ OnlyIn(M, p, b)
        BY <1>1, <1>3, <2>0, <2>4, PushFrontMoves DEF Did
  <2> HIDE DEF z, M
  <2>6. Chains(z, M) /\ z \in Heaps /\ z.page[p] \in PageRecs
        BY <1>1, <2>5 DEF Moved, Did, Chains, Heaps
  <2>7. z.page[p].bin = b /\ z.page[p].used = 0 /\ z.page[p].cap = 0 /\ ~z.page[p].full
        BY <2>2, <2>4, <2>5 DEF Moved, SameBody
  <2>8. Reserved[b] \in Nat \ {0}
        BY <2>0, PolicyFacts
  <2>9. /\ e \in PageRecs /\ e.bin = b /\ e.used = 0 /\ ~e.full
        /\ e.next = z.page[p].next /\ e.prev = z.page[p].prev
        /\ 0 < e.cap /\ e.cap <= Reserved[b]
    <3>1. z.page[p].cap <= Reserved[z.page[p].bin] /\ z.page[p].cap < Reserved[z.page[p].bin]
          BY <2>7, <2>8
    <3> QED BY <2>0, <2>6, <2>7, <3>1, ExtendedIs
  <2> HIDE DEF e
  <2>10. PageSet(z, v, p, e)
         BY <1>1, <2>6, <2>9, WriteIs
  <2> HIDE DEF v
  <2>11. Did(z, v, M, M, p) /\ SameRest(z, v) /\ v.page[p] = e
         BY <1>1, <2>6, <2>9, <2>10, PageSetDid
  <2>12. v \in Heaps /\ Chains(v, M)
         BY <2>11 DEF Did, Chains
  <2>13. PageSet(v, t, p, pg)
         BY <1>1, <2>12, TookIs
  <2>14. /\ pg.bin = b /\ pg.used = 1 /\ ~pg.full /\ pg.cap = e.cap
         /\ pg.next = e.next /\ pg.prev = e.prev
         BY <2>9, <2>11 DEF PageRecs
  <2> HIDE DEF pg, t
  <2>15. Did(v, t, M, M, p) /\ SameRest(v, t) /\ t.page[p] = pg
         BY <1>1, <2>11, <2>12, <2>13, <2>14, PageSetDid
  <2>16. Did(x, t, L, M, p)
    <3>1. Did(x, u, L, L, p)
          BY <1>1, <1>7, <2>4, DidThenDid
    <3>2. Did(x, z, L, M, p)
          BY <1>1, <2>5, <3>1, DidThenDid DEF Moved
    <3>3. Did(x, v, L, M, p)
          BY <1>1, <2>11, <3>2, DidThenDid
    <3> QED BY <1>1, <2>15, <3>3, DidThenDid
  <2>17. t.avail = x.avail \ {p} /\ t.ahead = x.ahead \ {p} /\ t.runs = x.runs
         BY <1>5, <2>4, <2>5, <2>11, <2>15 DEF Moved, SameRest
  <2>18. 1 <= pg.cap
         BY <2>9, <2>14 DEF PageRecs
  <2>19. FiledAs(t, b, p)
         BY <1>4, <2>0, <2>9, <2>14, <2>15, <2>17, <2>18 DEF FiledAs
  <2>20. Spells(t, M)
         BY <1>1, <2>0, <2>5, <2>16, <2>19, SpellsThenBut, DidKeeps, OkInQueue, ButThenSpells
  <2>21. Rehomed(x, t, p, b)
         BY <2>14, <2>15, <2>16 DEF Rehomed, Did, SameBody
  <2>22. ListStep(x, t, L, M)
         BY <1>1, <1>3, <2>0, <2>21 DEF ListStep, M
  <2> QED BY <2>1, <2>20, <2>22
<1> QED BY <1>8, <1>9

-----------------------------------------------------------------------------
(* The invariant of the loops, and their steps.                            *)

\* What loop v keeps for later is still there: the page it visits next is in
\* the list it walks, and its candidate has room there.
WalkOk(x, v, L) ==
    /\ v \in Walks
    /\ v.cur # None => /\ v.pc \in {"search", "collect", "release"}
                       /\ v.q \in Bins /\ InList(L[v.q], v.cur)
    /\ v.pc = "search" => v.bin \in Bins /\ v.q = v.bin
    /\ v.cand # None => /\ v.pc = "search" /\ InList(L[v.q], v.cand)
                        /\ HasFree(x.page[v.cand]) \/ Expandable(x.page[v.cand])
    /\ v.pc = "collect" /\ v.then = "search" => v.bin \in Bins

\* Some lists are spelled by the links, and what the loop keeps is in them.
Inv == \E L : Spells(h, L) /\ WalkOk(h, w, L)

\* A loop that keeps no page.
LEMMA QuietOk ==
    ASSUME NEW x, NEW v \in Walks, NEW L, v.cur = None, v.cand = None,
           v.pc # "search", v.pc # "collect"
    PROVE  WalkOk(x, v, L)
BY DEF WalkOk

LEMMA IdleIs ==
    /\ Idle \in Walks /\ Idle.pc = "idle" /\ Idle.cur = None /\ Idle.cand = None
    /\ \A x, L : WalkOk(x, Idle, L)
<1>1. Idle \in Walks
  <2> DEFINE e == {}
  <2>1. /\ 0 \in Nat /\ 0 \in Int /\ None \in Nat /\ None \in Places /\ Huge \in {Huge}
        /\ e \in SUBSET Bins
        BY DEF None, Places
  <2>2. Idle = [pc |-> "idle", bin |-> Huge, q |-> None, cur |-> None, cand |-> None,
                limit |-> 0, seen |-> 0, pending |-> e, min |-> QueueCount, max |-> 0,
                then |-> "idle"]
        BY DEF Idle
  <2> HIDE DEF e
  <2> QED BY <2>1, <2>2 DEF Walks
<1>2. Idle.pc = "idle" /\ Idle.cur = None /\ Idle.cand = None
      BY DEF Idle
<1> QED BY <1>1, <1>2, QuietOk

LEMMA AcquiringOk ==
    ASSUME NEW b \in Bins \cup {Huge}, NEW x, NEW L
    PROVE  WalkOk(x, Acquiring(b), L)
<1>1. /\ Acquiring(b) \in Walks /\ Acquiring(b).pc = "acquire"
      /\ Acquiring(b).cur = None /\ Acquiring(b).cand = None
      BY IdleIs DEF Acquiring, Walks
<1> QED BY <1>1, QuietOk

LEMMA SearchingOk ==
    ASSUME NEW x, NEW L, Spells(x, L), NEW b \in Bins
    PROVE  WalkOk(x, Searching(x, b), L)
<1> DEFINE v == Searching(x, b)
<1>1. x \in Heaps /\ b \in Queues /\ b \in Nat /\ MaxCandidates \in Int
      BY NumberFacts, PolicyFacts DEF Spells, Chains
<1>2. x.first[b] \in Places
      BY <1>1 DEF Heaps
<1>3. /\ v \in Walks /\ v.pc = "search" /\ v.bin = b /\ v.q = b /\ v.cur = x.first[b]
      /\ v.cand = None
      BY <1>1, <1>2, IdleIs DEF Searching, Walks
<1>4. x.first[b] # None => InList(L[b], x.first[b])
      BY <1>1, FirstInList DEF Spells
<1> HIDE DEF v
<1> QED BY <1>3, <1>4 DEF WalkOk, v

LEMMA CollectingOk ==
    ASSUME NEW x, NEW L, Spells(x, L), NEW b \in Bins \cup {Huge},
           NEW then \in {"search", "acquire"}, then = "search" => b \in Bins
    PROVE  WalkOk(x, Collecting(x, b, then), L)
<1> DEFINE v == Collecting(x, b, then)
           c == IF x.rmin \in Bins THEN x.first[x.rmin] ELSE None
<1>1. x \in Heaps
      BY DEF Spells, Chains
<1>2. x.rmin \in Bins \cup {QueueCount} /\ x.rmin \in Nat
      BY <1>1, NumberFacts DEF Heaps
<1>3. c \in Places
      BY <1>1, NumberFacts DEF Heaps, Places
<1>4. v = [Idle EXCEPT !.pc = "collect", !.bin = b, !.then = then, !.q = x.rmin, !.cur = c]
      BY DEF Collecting
<1>5. c # None => x.rmin \in Bins /\ InList(L[x.rmin], c)
      BY NumberFacts, FirstInList DEF Spells
<1> HIDE DEF c, v
<1>6. /\ v \in Walks /\ v.pc = "collect" /\ v.bin = b /\ v.q = x.rmin /\ v.cur = c
      /\ v.cand = None /\ v.then = then
      BY <1>2, <1>3, <1>4, IdleIs DEF Walks
<1> QED BY <1>5, <1>6 DEF WalkOk, v

\* An iteration: the page it looked at is p, the lists and the heap are now M
\* and y, and what the loop visits next is still there.
LEMMA CurAfter ==
    ASSUME NEW x, NEW L, Spells(x, L), NEW q \in Bins, NEW p, InList(L[q], p)
    PROVE  /\ x.page[p].next \in Places
           /\ x.page[p].next # None => InList(L[q], x.page[p].next) /\ x.page[p].next # p
<1>1. q \in Queues
      BY NumberFacts
<1>2. x.page[p] \in PageRecs
      BY <1>1, PageOfList
<1> QED BY <1>1, <1>2, NextInList DEF Spells, PageRecs

LEMMA WithoutOthers ==
    ASSUME NEW L, L \in [Queues -> Seq(Pages)], NEW q \in Queues, Once(L[q]), NEW p,
           InList(L[q], p), NEW r, r # p, InList(L[q], r)
    PROVE  InList(Lists!Without(L[q], p), r)
<1>1. PICK k \in 1 .. Len(L[q]) : L[q][k] = p
      BY DEF InList
<1>2. L[q] \in Seq(Pages)
      OBVIOUS
<1> QED BY <1>1, <1>2, WithoutIs

-----------------------------------------------------------------------------
(* The calls.                                                              *)

LEMMA SameStep == ASSUME NEW x, NEW y, NEW L, SameHomes(x, y) PROVE ListStep(x, y, L, L)
BY DEF ListStep

LEMMA AllocFromHeadKeeps ==
    ASSUME NEW L, Spells(h, L), WalkOk(h, w, L), NEW b \in Bins, AllocFromHead(b)
    PROVE  Spells(h', L) /\ WalkOk(h', w', L) /\ ListStep(h, h', L, L)
<1> DEFINE p == QueueHead(b)
           pg == [h.page[p] EXCEPT !.used = h.page[p].used + 1]
<1>1. /\ w.pc = "idle" /\ w' = w /\ h' = Took(h, p) /\ p # None /\ HasFree(h.page[p])
      BY DEF AllocFromHead, HeadServes
<1>2. p = h.first[b] /\ b \in Queues /\ b # Full
      BY NumberFacts DEF QueueHead, Spells, Chains, DirectShows
<1> HIDE DEF p
<1>3. InList(L[b], p)
      BY <1>1, <1>2, FirstInList DEF Spells
<1>4. /\ p \in Pages /\ h.page[p] \in PageRecs /\ FiledAs(h, b, p) /\ h \in Heaps
      BY <1>2, <1>3, PageOfList DEF Spells, Chains
<1>5. PageSet(h, h', p, pg)
      BY <1>1, <1>4, TookIs
<1>6. /\ pg.next = h.page[p].next /\ pg.prev = h.page[p].prev /\ pg.bin = h.page[p].bin
      /\ pg.full = h.page[p].full /\ pg.cap = h.page[p].cap
      /\ pg.used = h.page[p].used + 1
      BY <1>4 DEF PageRecs
<1>7. h.page[p].used \in Nat /\ h.page[p].cap \in Nat
      BY <1>4 DEF PageRecs
<1>8. pg.used <= pg.cap /\ pg.cap <= Reserved[pg.bin]
      BY <1>1, <1>4, <1>6, <1>7 DEF HasFree, FiledAs
<1> HIDE DEF pg
<1>9. Spells(h', L) /\ SameHomes(h, h')
      BY <1>2, <1>3, <1>5, <1>6, <1>8, WriteKeeps
<1>10. WalkOk(h', w', L)
       BY <1>1 DEF WalkOk
<1> QED BY <1>9, <1>10, SameStep

LEMMA AllocGenericKeeps ==
    ASSUME NEW L, Spells(h, L), WalkOk(h, w, L), NEW b \in Bins, AllocGeneric(b)
    PROVE  Spells(h', L) /\ WalkOk(h', w', L) /\ ListStep(h, h', L, L)
<1> DEFINE due == h.generic + 1 >= CollectPeriod
           n == IF due THEN 0 ELSE h.generic + 1
           y == [h EXCEPT !.generic = n]
<1>1. h \in Heaps
      BY DEF Spells, Chains
<1>2. h' = y /\ w' = IF due THEN Collecting(h, b, "search") ELSE Searching(h, b)
      BY DEF AllocGeneric
<1>3. n \in Nat
      BY <1>1 DEF Heaps
<1> HIDE DEF n
<1>4. /\ y \in Heaps /\ SameButPages(h, y) /\ y.page = h.page
      /\ y.avail = h.avail /\ y.ahead = h.ahead /\ y.runs = h.runs
      BY <1>1, <1>3 DEF Heaps, SameButPages
<1> HIDE DEF y
<1>5. Chains(y, L)
      BY <1>4 DEF Spells, Chains, Chain, SameButPages, DirectShows
<1>6. \A r \in Pages : PageOk(h, L, r) => PageOk(y, L, r)
      BY <1>4 DEF PageOk, FiledAs
<1>7. Spells(y, L)
      BY <1>5, <1>6 DEF Spells
<1>8. WalkOk(h, w', L)
      BY <1>2, SearchingOk, CollectingOk
<1>9. WalkOk(y, w', L)
      BY <1>4, <1>8 DEF WalkOk
<1>10. SameHomes(h, y)
       BY <1>4 DEF SameHomes
<1> QED BY <1>2, <1>7, <1>9, <1>10, SameStep

LEMMA AllocHugeKeeps ==
    ASSUME NEW L, Spells(h, L), AllocHuge
    PROVE  Spells(h', L) /\ WalkOk(h', w', L) /\ ListStep(h, h', L, L)
<1>1. h' = h /\ w' = Acquiring(Huge)
      BY DEF AllocHuge
<1>2. SameHomes(h, h')
      BY <1>1 DEF SameHomes
<1> QED BY <1>1, <1>2, AcquiringOk, SameStep

LEMMA FreeRunKeeps ==
    ASSUME NEW L, Spells(h, L), WalkOk(h, w, L), NEW p \in Pages, FreeRun(p)
    PROVE  Spells(h', L) /\ WalkOk(h', w', L) /\ ListStep(h, h', L, L)
<1>1. /\ h \in Heaps /\ Chains(h, L) /\ PageOk(h, L, p) /\ p \in h.runs
      /\ w.pc = "idle" /\ w' = w
      BY DEF Spells, Chains, FreeRun
<1>2. /\ h' \in Heaps /\ SameButPages(h, h') /\ h'.page = h.page
      /\ h'.avail = h.avail \cup {p} /\ h'.ahead = h.ahead /\ h'.runs = h.runs \ {p}
      BY <1>1 DEF FreeRun, Heaps, SameButPages
<1>3. Chains(h', L)
      BY <1>1, <1>2 DEF Chains, Chain, SameButPages, DirectShows
<1>4. Did(h, h', L, L, p)
      BY <1>2, <1>3 DEF Did, SameBody
<1>5. Loose(L, p)
      BY <1>1 DEF PageOk, FiledAs, Loose
<1>6. PageOk(h', L, p)
      BY <1>1, <1>2, <1>5, OkLoose DEF PageOk
<1>7. Spells(h', L)
      BY <1>4, <1>6, SpellsThenBut, DidKeeps, ButThenSpells
<1>8. WalkOk(h', w', L)
      BY <1>1 DEF WalkOk
<1>9. SameHomes(h, h')
      BY <1>2 DEF SameHomes
<1> QED BY <1>7, <1>8, <1>9, SameStep

-----------------------------------------------------------------------------
(* The loops.                                                              *)

\* A heap that differs in the retired range, or in the count of the calls.
LEMMA SameQueues ==
    ASSUME NEW x, NEW y \in Heaps, NEW L, Spells(x, L), SameButPages(x, y),
           y.page = x.page, y.avail = x.avail, y.ahead = x.ahead, y.runs = x.runs
    PROVE  Spells(y, L) /\ SameHomes(x, y)
<1>1. Chains(y, L)
      BY DEF Spells, Chains, Chain, SameButPages, DirectShows
<1>2. \A r \in Pages : PageOk(x, L, r) => PageOk(y, L, r)
      BY DEF PageOk, FiledAs
<1> QED BY <1>1, <1>2 DEF Spells, SameHomes

LEMMA UnchangedHeap == ASSUME NEW L, h' = h PROVE ListStep(h, h', L, L)
BY DEF ListStep, SameHomes

\* A page with no room is parked, behind the loop; any other stays.
LEMMA SearchStepKeeps ==
    ASSUME NEW L, Spells(h, L), WalkOk(h, w, L), SearchStep
    PROVE  \E M : Spells(h', M) /\ WalkOk(h', w', M) /\ ListStep(h, h', L, M)
<1> DEFINE p == w.cur
           q == w.q
           pg == h.page[p]
           n == pg.next
           room == HasFree(pg) \/ Expandable(pg)
           cand == IF w.cand = None \/ (pg.used >= h.page[w.cand].used /\ ~MostlyUsed(pg))
                   THEN p ELSE w.cand
           limit == IF w.cand = None THEN MaxCandidates ELSE w.limit
           cur == IF HasFree(pg) \/ limit <= 0 THEN None ELSE n
<1>1. /\ w \in Walks /\ w.pc = "search" /\ p # None /\ q \in Bins /\ q \in Queues /\ q # Full
      /\ w.bin \in Bins /\ q = w.bin /\ InList(L[q], p) /\ p \in Places
      /\ Full \in Queues /\ h \in Heaps /\ Chains(h, L)
      BY NumberFacts DEF SearchStep, WalkOk, Walks, Spells, Chains
<1>2. p \in Pages /\ pg \in PageRecs /\ OnlyIn(L, p, q)
      BY <1>1, PageOfList
<1>3. n \in Places /\ (n # None => InList(L[q], n) /\ n # p)
      BY <1>1, CurAfter
<1>4. w.cand # None => /\ InList(L[q], w.cand)
                       /\ HasFree(h.page[w.cand]) \/ Expandable(h.page[w.cand])
      BY DEF WalkOk
<1>5. CASE room
  <2>1. /\ h' = h /\ w' = [w EXCEPT !.cand = cand, !.limit = limit - 1, !.cur = cur]
        BY <1>5 DEF SearchStep
  <2>2. /\ cand \in Places /\ cur \in Places /\ limit \in Int /\ limit - 1 \in Int
        BY <1>1, <1>3, NumberFacts, PolicyFacts DEF Walks, Places
  <2>3. /\ cand # None => /\ InList(L[q], cand)
                          /\ HasFree(h.page[cand]) \/ Expandable(h.page[cand])
        /\ cur # None => InList(L[q], cur)
        BY <1>1, <1>3, <1>4, <1>5
  <2> HIDE DEF cand, cur, limit
  <2>4. /\ w' \in Walks /\ w'.pc = "search" /\ w'.q = q /\ w'.bin = w.bin
        /\ w'.cur = cur /\ w'.cand = cand
        BY <1>1, <2>1, <2>2 DEF Walks
  <2>5. WalkOk(h', w', L)
        BY <1>1, <2>1, <2>3, <2>4 DEF WalkOk
  <2> QED BY <2>1, <2>5, UnchangedHeap
<1>6. CASE ~room
  <2> DEFINE x == SetExpire(h, p, 0)
             y == MoveToFull(x, q, p)
             M == [L EXCEPT ![q] = Lists!Without(@, p), ![Full] = Append(@, p)]
             zero == 0
  <2>1. /\ h' = y /\ w' = [w EXCEPT !.limit = w.limit - 1, !.cur = n]
        BY <1>6 DEF SearchStep
  <2>2. /\ Spells(x, L) /\ SameHomes(h, x)
        /\ \A r \in Pages : x.page[r].used = h.page[r].used /\ x.page[r].cap = h.page[r].cap
    <3>1. zero \in Nat /\ x = SetExpire(h, p, zero)
          OBVIOUS
    <3> HIDE DEF zero, x
    <3> QED BY <1>1, <3>1, SetExpireKeeps
  <2>3. ~HasFree(x.page[p]) /\ ~Expandable(x.page[p])
        BY <1>2, <1>6, <2>2 DEF HasFree, Expandable, SameHomes
  <2> HIDE DEF x
  <2>4. /\ Spells(y, M) /\ SameHomes(x, y) /\ Did(x, y, L, M, p)
        BY <1>1, <2>2, <2>3, MoveToFullKeeps
  <2>5. \A r \in Pages : r # p => /\ InList(M[q], r) <=> InList(L[q], r)
                                  /\ SameBody(x.page[r], y.page[r])
        BY <1>1, <2>4 DEF Did
  <2> HIDE DEF y, n
  <2>6. SameHomes(h, y)
        BY <2>2, <2>4 DEF SameHomes
  <2>7. ListStep(h, y, L, M)
    <3>1. h.page[p].bin = q
          BY <1>1, PageOfList
    <3> HIDE DEF p, q
    <3> QED BY <1>1, <1>2, <2>6, <3>1 DEF ListStep
  <2> HIDE DEF M
  <2>8. w.limit - 1 \in Int /\ w.cand \in Places
        BY <1>1 DEF Walks
  <2>9. /\ w' \in Walks /\ w'.pc = "search" /\ w'.q = q /\ w'.bin = w.bin
        /\ w'.cur = n /\ w'.cand = w.cand
        BY <1>1, <1>3, <2>1, <2>8 DEF Walks
  <2>10. n # None => InList(M[q], n)
         BY <1>3, <2>5 DEF Places
  <2>11. w.cand # None => /\ InList(M[q], w.cand)
                          /\ HasFree(y.page[w.cand]) \/ Expandable(y.page[w.cand])
    <3> SUFFICES ASSUME w.cand # None
                 PROVE  /\ InList(M[q], w.cand)
                        /\ HasFree(y.page[w.cand]) \/ Expandable(y.page[w.cand])
        OBVIOUS
    <3>1. w.cand \in Pages /\ w.cand # p
          BY <1>4, <1>6, <2>8 DEF Places
    <3>2. /\ y.page[w.cand].used = h.page[w.cand].used
          /\ y.page[w.cand].cap = h.page[w.cand].cap
          /\ y.page[w.cand].bin = h.page[w.cand].bin
          BY <2>2, <2>5, <2>6, <3>1 DEF SameBody, SameHomes
    <3> QED BY <1>4, <2>5, <3>1, <3>2 DEF HasFree, Expandable
  <2>12. WalkOk(y, w', M)
         BY <1>1, <2>9, <2>10, <2>11 DEF WalkOk
  <2> QED BY <2>1, <2>4, <2>7, <2>12
<1> QED BY <1>5, <1>6

\* The candidate becomes the first of its queue and gives a block.
LEMMA ChooseKeeps ==
    ASSUME NEW L, Spells(h, L), WalkOk(h, w, L), Choose
    PROVE  \E M : Spells(h', M) /\ WalkOk(h', w', M) /\ ListStep(h, h', L, M)
<1>1. CASE w.cand = None
  <2>1. h' = h /\ w' = Collecting(h, w.bin, "acquire")
        BY <1>1 DEF Choose
  <2>2. w.bin \in Bins \cup {Huge}
        BY DEF WalkOk, Walks
  <2>3. WalkOk(h, w', L)
        BY <2>1, <2>2, CollectingOk
  <2> QED BY <2>1, <2>3, UnchangedHeap
<1>2. CASE w.cand # None
  <2> DEFINE p == w.cand
             q == w.q
             pg == h.page[p]
             e == IF HasFree(pg) THEN pg ELSE Extended(pg)
             x == [h EXCEPT !.page[p] = e]
             y == MoveToFront(x, q, p)
             zero == 0
             z == SetExpire(y, p, zero)
             t == [z.page[p] EXCEPT !.used = z.page[p].used + 1]
             M == [L EXCEPT ![q] = <<p>> \o Lists!Without(@, p)]
  <2>1. /\ q \in Bins /\ q \in Queues /\ q # Full /\ InList(L[q], p)
        /\ HasFree(pg) \/ Expandable(pg)
        BY <1>2, NumberFacts DEF Choose, WalkOk
  <2>2. h' = Took(z, p) /\ w' = Idle
        BY <1>2 DEF Choose
  <2>3. /\ p \in Pages /\ pg \in PageRecs /\ FiledAs(h, q, p) /\ pg.bin = q /\ h \in Heaps
        /\ pg.used \in Nat /\ pg.cap \in Nat
        BY <2>1, PageOfList DEF Spells, Chains
  <2>4. /\ e \in PageRecs /\ e.bin = pg.bin /\ e.full = pg.full /\ e.next = pg.next
        /\ e.prev = pg.prev /\ e.used = pg.used /\ e.cap <= Reserved[e.bin] /\ e.used < e.cap
        /\ e.cap \in Nat
    <3>1. pg.used <= pg.cap /\ pg.cap <= Reserved[pg.bin] /\ pg.bin \in Bins
          BY <2>3 DEF FiledAs
    <3>2. CASE HasFree(pg)
          BY <2>3, <3>1, <3>2 DEF HasFree
    <3>3. CASE ~HasFree(pg)
      <4> DEFINE f == Extended(pg)
      <4>1. /\ f \in PageRecs /\ f.bin = pg.bin /\ f.used = pg.used /\ f.full = pg.full
            /\ f.next = pg.next /\ f.prev = pg.prev
            /\ f.cap <= Reserved[pg.bin] /\ pg.cap < f.cap
            BY <2>1, <2>3, <3>1, <3>3, ExtendedIs DEF Expandable
      <4>2. e = f
            BY <3>3
      <4> HIDE DEF f, e
      <4>3. f.cap \in Nat
            BY <4>1 DEF PageRecs
      <4> QED BY <2>3, <3>1, <4>1, <4>2, <4>3
    <3> QED BY <3>2, <3>3
  <2> HIDE DEF e
  <2>5. PageSet(h, x, p, e)
        BY <2>3, <2>4, WriteIs
  <2>6. e.used <= e.cap
        BY <2>3, <2>4
  <2> HIDE DEF x
  <2>7. Spells(x, L) /\ SameHomes(h, x)
        BY <2>1, <2>4, <2>5, <2>6, WriteKeeps
  <2>8. x.page[p] = e
        BY <2>3, <2>5 DEF PageSet
  <2>9. /\ Spells(y, M) /\ SameHomes(x, y) /\ InList(M[q], p)
        /\ y.page[p].used = e.used /\ y.page[p].cap = e.cap
    <3> HIDE DEF p, q
    <3>1. /\ Spells(y, M) /\ SameHomes(x, y) /\ InList(M[q], p)
          /\ y.page[p].used = x.page[p].used /\ y.page[p].cap = x.page[p].cap
          BY <2>1, <2>7, MoveToFrontKeeps
    <3> QED BY <2>8, <3>1
  <2>10. zero \in Nat
         OBVIOUS
  <2>11. ListStep(h, h', L, M) \/ ~SameHomes(h, h')
    <3> HIDE DEF p, q
    <3> QED BY <2>1, <2>3 DEF ListStep
  <2> HIDE DEF y, M, zero
  <2>12. /\ Spells(z, M) /\ SameHomes(y, z)
         /\ \A r \in Pages : z.page[r].used = y.page[r].used /\ z.page[r].cap = y.page[r].cap
         BY <2>1, <2>9, <2>10, SetExpireKeeps
  <2> HIDE DEF z
  <2>13. PageSet(z, h', p, t) /\ z.page[p] \in PageRecs
         BY <2>2, <2>3, <2>12, TookIs DEF Spells, Chains, Heaps
  <2>14. /\ t.next = z.page[p].next /\ t.prev = z.page[p].prev /\ t.bin = z.page[p].bin
         /\ t.full = z.page[p].full /\ t.cap = z.page[p].cap
         /\ t.used = z.page[p].used + 1
         BY <2>13 DEF PageRecs
  <2> HIDE DEF t
  <2>15. z.page[p].bin = e.bin
         BY <2>3, <2>8, <2>9, <2>12 DEF SameHomes
  <2>16. t.used <= t.cap /\ t.cap <= Reserved[t.bin]
         BY <2>3, <2>4, <2>9, <2>12, <2>14, <2>15
  <2>17. Spells(h', M) /\ SameHomes(z, h')
         BY <2>1, <2>9, <2>12, <2>13, <2>14, <2>16, WriteKeeps
  <2>18. SameHomes(h, h')
         BY <2>7, <2>9, <2>12, <2>17 DEF SameHomes
  <2> QED BY <2>2, <2>11, <2>17, <2>18, IdleIs
<1> QED BY <1>1, <1>2

\* A page ages or is freed; the one after it was read first.
LEMMA FreedOrAged ==
    ASSUME NEW x, NEW L, Spells(x, L), NEW q \in Bins, NEW p, InList(L[q], p), NEW y,
           y = FreePage(x, q, p) \/ \E n \in Nat : y = SetExpire(x, p, n)
    PROVE  /\ x.page[p].next \in Places
           /\ \E M : /\ Spells(y, M) /\ ListStep(x, y, L, M)
                     /\ x.page[p].next # None => InList(M[q], x.page[p].next)
<1> DEFINE n == x.page[p].next
           K == [L EXCEPT ![q] = Lists!Without(@, p)]
<1>1. q \in Queues /\ n \in Places /\ (n # None => InList(L[q], n) /\ n # p)
      BY NumberFacts, CurAfter
<1>2. p \in Pages
      BY <1>1, PageOfList
<1>3. CASE y = FreePage(x, q, p)
  <2>1. Spells(y, K) /\ Rehomed(x, y, p, None)
        BY <1>1, <1>3, FreePageKeeps
  <2>2. ListStep(x, y, L, K)
        BY <1>1, <1>2, <2>1 DEF ListStep
  <2>3. L \in [Queues -> Seq(Pages)] /\ Once(L[q])
        BY <1>1 DEF Spells, Chains, NoTwice
  <2>4. K[q] = Lists!Without(L[q], p)
        BY <1>1, <2>3
  <2> HIDE DEF K, n
  <2>5. n # None => InList(K[q], n)
        BY <1>1, <2>3, <2>4, WithoutOthers
  <2> QED BY <1>1, <2>1, <2>2, <2>5 DEF n
<1>4. CASE \E k \in Nat : y = SetExpire(x, p, k)
  <2>1. PICK k \in Nat : y = SetExpire(x, p, k)
        BY <1>4
  <2>2. Spells(y, L) /\ SameHomes(x, y)
        BY <1>1, <2>1, SetExpireKeeps
  <2> QED BY <1>1, <2>2, SameStep
<1> QED BY <1>3, <1>4

LEMMA CollectStepKeeps ==
    ASSUME NEW L, Spells(h, L), WalkOk(h, w, L), CollectStep
    PROVE  \E M : Spells(h', M) /\ WalkOk(h', w', M) /\ ListStep(h, h', L, M)
<1> DEFINE p == w.cur
           q == w.q
           pg == h.page[p]
           n == pg.next
           ages == pg.expire # 0 /\ AllFree(pg)
           kept == ages /\ pg.expire > 1
           left == IF kept THEN pg.expire - 1 ELSE 0
           lo == IF kept /\ q < w.min THEN q ELSE w.min
           hi == IF kept /\ q > w.max THEN q ELSE w.max
<1>1. /\ w \in Walks /\ w.pc = "collect" /\ p # None /\ q \in Bins /\ q \in Queues
      /\ InList(L[q], p) /\ w.cand = None /\ (w.then = "search" => w.bin \in Bins)
      BY NumberFacts DEF CollectStep, WalkOk
<1>2. pg \in PageRecs
      BY <1>1, PageOfList
<1>3. /\ h' = IF ages /\ ~kept THEN FreePage(h, q, p) ELSE SetExpire(h, p, left)
      /\ w' = [w EXCEPT !.cur = n, !.seen = w.seen + 1, !.min = lo, !.max = hi]
      BY DEF CollectStep
<1>4. left \in Nat
      BY <1>2 DEF PageRecs
<1>5. lo \in Bins \cup {QueueCount} /\ hi \in Bins \cup {0} /\ w.seen + 1 \in Nat
      BY <1>1 DEF Walks
<1> HIDE DEF ages, kept, left, lo, hi
<1>6. h' = FreePage(h, q, p) \/ \E k \in Nat : h' = SetExpire(h, p, k)
      BY <1>3, <1>4
<1>7. /\ n \in Places
      /\ \E M : /\ Spells(h', M) /\ ListStep(h, h', L, M)
                /\ n # None => InList(M[q], n)
      BY <1>1, <1>6, FreedOrAged
<1>8. PICK M : /\ Spells(h', M) /\ ListStep(h, h', L, M)
               /\ n # None => InList(M[q], n)
      BY <1>7
<1> HIDE DEF n
<1>9. /\ w' \in Walks /\ w'.pc = "collect" /\ w'.cur = n /\ w'.q = q /\ w'.cand = None
      /\ w'.then = w.then /\ w'.bin = w.bin
      BY <1>1, <1>3, <1>5, <1>7 DEF Walks
<1>10. WalkOk(h', w', M)
       BY <1>1, <1>8, <1>9 DEF WalkOk
<1> QED BY <1>8, <1>10

LEMMA ReleaseStepKeeps ==
    ASSUME NEW L, Spells(h, L), WalkOk(h, w, L), ReleaseStep
    PROVE  \E M : Spells(h', M) /\ WalkOk(h', w', M) /\ ListStep(h, h', L, M)
<1> DEFINE p == w.cur
           q == w.q
           n == h.page[p].next
           zero == 0
<1>1. /\ w \in Walks /\ w.pc = "release" /\ p # None /\ q \in Bins /\ q \in Queues
      /\ InList(L[q], p) /\ w.cand = None
      BY NumberFacts DEF ReleaseStep, WalkOk
<1>2. /\ h' = FreePage(h, q, p) \/ h' = SetExpire(h, p, zero)
      /\ w' = [w EXCEPT !.cur = n]
      BY DEF ReleaseStep
<1>3. zero \in Nat
      OBVIOUS
<1> HIDE DEF zero
<1>4. h' = FreePage(h, q, p) \/ \E k \in Nat : h' = SetExpire(h, p, k)
      BY <1>2, <1>3
<1>5. /\ n \in Places
      /\ \E M : /\ Spells(h', M) /\ ListStep(h, h', L, M)
                /\ n # None => InList(M[q], n)
      BY <1>1, <1>4, FreedOrAged
<1>6. PICK M : /\ Spells(h', M) /\ ListStep(h, h', L, M)
               /\ n # None => InList(M[q], n)
      BY <1>5
<1> HIDE DEF n
<1>7. w' \in Walks /\ w'.pc = "release" /\ w'.cur = n /\ w'.q = q /\ w'.cand = None
      BY <1>1, <1>2, <1>5 DEF Walks
<1>8. WalkOk(h', w', M)
      BY <1>1, <1>6, <1>7 DEF WalkOk
<1> QED BY <1>6, <1>8

LEMMA CollectNextQueueKeeps ==
    ASSUME NEW L, Spells(h, L), WalkOk(h, w, L), CollectNextQueue
    PROVE  \E M : Spells(h', M) /\ WalkOk(h', w', M) /\ ListStep(h, h', L, M)
<1> DEFINE k == w.q + 1
           c == IF k \in Bins THEN h.first[k] ELSE None
           zero == 0
<1>1. /\ w \in Walks /\ w.pc = "collect" /\ w.cand = None
      /\ (w.then = "search" => w.bin \in Bins) /\ h \in Heaps
      BY DEF CollectNextQueue, WalkOk, Spells, Chains
<1>2. h' = h /\ w' = [w EXCEPT !.q = k, !.seen = zero, !.cur = c]
      BY DEF CollectNextQueue
<1>3. k \in Nat /\ c \in Places /\ zero \in Nat
      BY <1>1, NumberFacts DEF Walks, Heaps, Places
<1>4. c # None => k \in Bins /\ InList(L[k], c)
      BY NumberFacts, FirstInList DEF Spells
<1> HIDE DEF k, c, zero
<1>5. /\ w' \in Walks /\ w'.pc = "collect" /\ w'.cur = c /\ w'.q = k /\ w'.cand = None
      /\ w'.then = w.then /\ w'.bin = w.bin
      BY <1>1, <1>2, <1>3 DEF Walks
<1>6. WalkOk(h', w', L)
      BY <1>1, <1>4, <1>5 DEF WalkOk
<1> QED BY <1>2, <1>6, UnchangedHeap

\* The retired range becomes what the loop saw of it.
LEMMA CollectEndKeeps ==
    ASSUME NEW L, Spells(h, L), WalkOk(h, w, L), CollectEnd
    PROVE  \E M : Spells(h', M) /\ WalkOk(h', w', M) /\ ListStep(h, h', L, M)
<1>1. /\ w \in Walks /\ w.pc = "collect" /\ (w.then = "search" => w.bin \in Bins)
      /\ w.bin \in Bins \cup {Huge} /\ h \in Heaps
      BY DEF CollectEnd, WalkOk, Walks, Spells, Chains
<1>2. h' = [h EXCEPT !.rmin = w.min, !.rmax = w.max]
      BY DEF CollectEnd
<1>3. /\ h' \in Heaps /\ SameButPages(h, h') /\ h'.page = h.page
      /\ h'.avail = h.avail /\ h'.ahead = h.ahead /\ h'.runs = h.runs
      BY <1>1, <1>2 DEF Heaps, Walks, SameButPages
<1>4. Spells(h', L) /\ SameHomes(h, h')
      BY <1>3, SameQueues
<1>5. WalkOk(h', w', L)
  <2>1. CASE w.then = "search"
    <3>1. w' = Searching(h, w.bin) /\ w.bin \in Bins
          BY <1>1, <2>1 DEF CollectEnd
    <3>2. WalkOk(h, w', L)
          BY <3>1, SearchingOk
    <3> QED BY <1>3, <3>2 DEF WalkOk
  <2>2. CASE w.then # "search"
    <3>1. w' = Acquiring(w.bin)
          BY <2>2 DEF CollectEnd
    <3> QED BY <1>1, <3>1, AcquiringOk
  <2> QED BY <2>1, <2>2
<1> QED BY <1>4, <1>5, SameStep

\* The lowest of some numbers.
LEMMA LowestIs ==
    ASSUME NEW S \in SUBSET Nat, S # {}
    PROVE  Lowest(S) \in S /\ \A y \in S : Lowest(S) <= y
<1> DEFINE R == OpToRel(<, Nat)
<1>1. IsWellFoundedOn(R, Nat)
      BY NatLessThanWellFounded
<1>2. PICK x \in S : \A y \in S : ~(<<y, x>> \in R)
      BY <1>1, WFMin
<1>3. \A y \in S : ~(y < x)
      BY <1>2 DEF OpToRel
<1>4. x \in S /\ \A y \in S : x <= y
      BY <1>3
<1> QED BY <1>4 DEF Lowest

LEMMA AcquireKeeps ==
    ASSUME NEW L, Spells(h, L), WalkOk(h, w, L), Acquire
    PROVE  \E M : Spells(h', M) /\ WalkOk(h', w', M) /\ ListStep(h, h', L, M)
<1>1. /\ w \in Walks /\ w.pc = "acquire" /\ w.cur = None /\ w.cand = None /\ h \in Heaps
      /\ w.bin \in Bins \cup {Huge}
      BY DEF Acquire, WalkOk, Walks, Spells, Chains
<1>2. CASE h.avail # {}
  <2> DEFINE p == Lowest(h.avail)
  <2>1. h' = Granted(h, w.bin, p) /\ w' = Idle
        BY <1>2 DEF Acquire
  <2>2. p \in h.avail
        BY <1>1, <1>2, NumberFacts, LowestIs DEF Heaps
  <2> HIDE DEF p
  <2>3. PICK M : Spells(h', M) /\ ListStep(h, h', L, M)
        BY <1>1, <2>1, <2>2, GrantedKeeps
  <2> QED BY <2>1, <2>3, IdleIs
<1>3. CASE h.avail = {}
  <2> DEFINE S == h.occupied \ {Full}
  <2>1. h' = h /\ w' = [w EXCEPT !.pc = "release", !.pending = S]
        BY <1>3 DEF Acquire
  <2>2. S \in SUBSET Bins
        BY <1>1 DEF Heaps, Queues
  <2> HIDE DEF S
  <2>3. w' \in Walks /\ w'.pc = "release" /\ w'.cur = None /\ w'.cand = None
        BY <1>1, <2>1, <2>2 DEF Walks
  <2> QED BY <2>1, <2>3, QuietOk, UnchangedHeap
<1> QED BY <1>2, <1>3

LEMMA ReleaseNextQueueKeeps ==
    ASSUME NEW L, Spells(h, L), WalkOk(h, w, L), ReleaseNextQueue
    PROVE  \E M : Spells(h', M) /\ WalkOk(h', w', M) /\ ListStep(h, h', L, M)
<1> DEFINE q == Lowest(w.pending)
           c == h.first[q]
           S == w.pending \ {q}
<1>1. /\ w \in Walks /\ w.pc = "release" /\ w.cand = None /\ h \in Heaps
      /\ w.pending \in SUBSET Bins /\ w.pending # {}
      BY DEF ReleaseNextQueue, WalkOk, Walks, Spells, Chains
<1>2. h' = h /\ w' = [w EXCEPT !.q = q, !.pending = S, !.cur = c]
      BY DEF ReleaseNextQueue
<1>3. q \in Bins /\ q \in Queues /\ q \in Nat
      BY <1>1, NumberFacts, LowestIs
<1>4. c \in Places /\ S \in SUBSET Bins
      BY <1>1, <1>3 DEF Heaps
<1>5. c # None => InList(L[q], c)
      BY <1>3, FirstInList DEF Spells
<1> HIDE DEF q, c, S
<1>6. w' \in Walks /\ w'.pc = "release" /\ w'.cur = c /\ w'.q = q /\ w'.cand = None
      BY <1>1, <1>2, <1>3, <1>4 DEF Walks
<1>7. WalkOk(h', w', L)
      BY <1>3, <1>5, <1>6 DEF WalkOk
<1> QED BY <1>2, <1>7, UnchangedHeap

LEMMA ReleaseEndKeeps ==
    ASSUME NEW L, Spells(h, L), WalkOk(h, w, L), ReleaseEnd
    PROVE  \E M : Spells(h', M) /\ WalkOk(h', w', M) /\ ListStep(h, h', L, M)
<1> DEFINE zero == 0
<1>1. h \in Heaps /\ w.bin \in Bins \cup {Huge}
      BY DEF WalkOk, Walks, Spells, Chains
<1>2. h' = [h EXCEPT !.rmin = QueueCount, !.rmax = zero]
      BY DEF ReleaseEnd
<1>3. zero \in Bins \cup {0}
      OBVIOUS
<1> HIDE DEF zero
<1>4. /\ h' \in Heaps /\ SameButPages(h, h') /\ h'.page = h.page
      /\ h'.avail = h.avail /\ h'.ahead = h.ahead /\ h'.runs = h.runs
      BY <1>1, <1>2, <1>3 DEF Heaps, SameButPages
<1>5. Spells(h', L) /\ SameHomes(h, h')
      BY <1>4, SameQueues
<1>6. w' = [Idle EXCEPT !.pc = "grow", !.bin = w.bin]
      BY DEF ReleaseEnd
<1>7. w' \in Walks /\ w'.pc = "grow" /\ w'.cur = None /\ w'.cand = None
      BY <1>1, <1>6, IdleIs DEF Walks
<1>8. WalkOk(h', w', L)
      BY <1>7, QuietOk
<1> QED BY <1>5, <1>8, SameStep

LEMMA GrowKeeps ==
    ASSUME NEW L, Spells(h, L), WalkOk(h, w, L), Grow
    PROVE  \E M : Spells(h', M) /\ WalkOk(h', w', M) /\ ListStep(h, h', L, M)
<1> DEFINE S == IF h.avail # {} THEN h.avail ELSE h.ahead
           p == Lowest(S)
<1>1. w.bin \in Bins \cup {Huge} /\ h \in Heaps
      BY DEF WalkOk, Walks, Spells, Chains
<1>2. h' = Granted(h, w.bin, p) /\ w' = Idle
      BY DEF Grow
<1>3. S \in SUBSET Nat /\ S # {} /\ S \subseteq h.avail \cup h.ahead
      BY <1>1, NumberFacts DEF Heaps, Grow
<1>4. p \in S
      BY <1>3, LowestIs
<1> HIDE DEF p, S
<1>5. PICK M : Spells(h', M) /\ ListStep(h, h', L, M)
      BY <1>1, <1>2, <1>3, <1>4, GrantedKeeps
<1> QED BY <1>2, <1>5, IdleIs

LEMMA GrowRefusedKeeps ==
    ASSUME NEW L, Spells(h, L), GrowRefused
    PROVE  \E M : Spells(h', M) /\ WalkOk(h', w', M) /\ ListStep(h, h', L, M)
<1>1. h' = h /\ w' = Idle
      BY DEF GrowRefused
<1> QED BY <1>1, IdleIs, UnchangedHeap

\* Every step is a step of the lists, and keeps them spelled.
LEMMA StepKeeps ==
    ASSUME NEW L, Spells(h, L), WalkOk(h, w, L), [Next]_vars
    PROVE  \E M : Spells(h', M) /\ WalkOk(h', w', M) /\ ListStep(h, h', L, M)
<1>1. ASSUME NEW b \in Bins, AllocFromHead(b)
      PROVE  \E M : Spells(h', M) /\ WalkOk(h', w', M) /\ ListStep(h, h', L, M)
      BY <1>1, AllocFromHeadKeeps
<1>2. ASSUME NEW b \in Bins, AllocGeneric(b)
      PROVE  \E M : Spells(h', M) /\ WalkOk(h', w', M) /\ ListStep(h, h', L, M)
      BY <1>2, AllocGenericKeeps
<1>3. ASSUME AllocHuge
      PROVE  \E M : Spells(h', M) /\ WalkOk(h', w', M) /\ ListStep(h, h', L, M)
      BY <1>3, AllocHugeKeeps
<1>4. ASSUME NEW p \in Pages, Dealloc(p)
      PROVE  \E M : Spells(h', M) /\ WalkOk(h', w', M) /\ ListStep(h, h', L, M)
  <2>1. PICK M : Spells(h', M) /\ ListStep(h, h', L, M)
        BY <1>4, DeallocKeeps
  <2>2. w' = w /\ w.pc = "idle"
        BY <1>4 DEF Dealloc
  <2>3. WalkOk(h', w', M)
        BY <2>2 DEF WalkOk
  <2> QED BY <2>1, <2>3
<1>5. ASSUME NEW p \in Pages, FreeRun(p)
      PROVE  \E M : Spells(h', M) /\ WalkOk(h', w', M) /\ ListStep(h, h', L, M)
      BY <1>5, FreeRunKeeps
<1>6. ASSUME Loop
      PROVE  \E M : Spells(h', M) /\ WalkOk(h', w', M) /\ ListStep(h, h', L, M)
      BY <1>6, SearchStepKeeps, ChooseKeeps, CollectStepKeeps, CollectNextQueueKeeps,
         CollectEndKeeps, AcquireKeeps, ReleaseStepKeeps, ReleaseNextQueueKeeps,
         ReleaseEndKeeps, GrowKeeps, GrowRefusedKeeps DEF Loop
<1>7. ASSUME UNCHANGED vars
      PROVE  \E M : Spells(h', M) /\ WalkOk(h', w', M) /\ ListStep(h, h', L, M)
      BY <1>7, UnchangedHeap DEF vars
<1> QED BY <1>1, <1>2, <1>3, <1>4, <1>5, <1>6, <1>7 DEF Next, Call

-----------------------------------------------------------------------------
(* Following the links.                                                    *)

\* The recursive equation of Follow, for the links of page headers pg.
Stepping(pg, start, f) ==
    f = [n \in 1 .. (NumPages + 1) |->
            IF n = 1 THEN start ELSE IF f[n - 1] = None THEN None ELSE pg[f[n - 1]].next]

\* What it meets when the links spell s: the pages of s, and then None.
Met(s) == [n \in 1 .. (NumPages + 1) |-> IF n <= Len(s) THEN s[n] ELSE None]

\* A list with no page twice is no longer than memory.
LEMMA ShortList ==
    ASSUME NEW s \in Seq(Pages), Once(s)
    PROVE  Len(s) <= NumPages
<1>1. Len(s) \in Nat /\ s \in [1 .. Len(s) -> Pages]
      BY LenProperties
<1>2. IsFiniteSet(Pages) /\ Cardinality(Pages) = NumPages
      BY NumberFacts, FS_Interval DEF Pages
<1>3. IsFiniteSet(1 .. Len(s)) /\ Cardinality(1 .. Len(s)) = Len(s)
  <2> DEFINE k == Len(s)
  <2>1. k \in Int /\ 1 \in Int /\ k >= 0
        BY <1>1
  <2> HIDE DEF k
  <2>2. IsFiniteSet(1 .. k) /\ Cardinality(1 .. k) = IF 1 > k THEN 0 ELSE k - 1 + 1
        BY <2>1, FS_Interval
  <2>3. Cardinality(1 .. k) = k
        BY <2>1, <2>2
  <2> QED BY <2>2, <2>3 DEF k
<1> SUFFICES ASSUME NumPages < Len(s) PROVE FALSE
    BY <1>1, NumberFacts
<1>4. \E i, j \in 1 .. Len(s) : i # j /\ s[i] = s[j]
      BY <1>1, <1>2, <1>3, FS_PigeonHole
<1> QED BY <1>4 DEF Once

LEMMA MetIs ==
    ASSUME NEW s \in Seq(Pages), Once(s), NEW pg, NEW start,
           start = IF Len(s) = 0 THEN None ELSE s[1],
           \A i \in 1 .. Len(s) : pg[s[i]].next = IF i = Len(s) THEN None ELSE s[i + 1]
    PROVE  /\ Stepping(pg, start, Met(s))
           /\ \A f : Stepping(pg, start, f) => f = Met(s)
<1> DEFINE S == 1 .. (NumPages + 1)
           e == Met(s)
<1>1. Len(s) \in Nat /\ Len(s) <= NumPages /\ NumPages \in Nat
      BY ShortList, NumberFacts, LenProperties
<1>2. \A i \in 1 .. Len(s) : s[i] \in Pages /\ s[i] # None
      BY NumberFacts, ElementOfSeq
<1>3. \A n \in S : e[n] = IF n <= Len(s) THEN s[n] ELSE None
      BY DEF Met
<1>4. e \in [S -> Places]
      BY <1>1, <1>2 DEF Met, Places
<1> HIDE DEF e
\* The equation at n, from the value at n - 1.
<1>5. ASSUME NEW n \in S, NEW c, n > 1 => c = e[n - 1]
      PROVE  e[n] = IF n = 1 THEN start ELSE IF c = None THEN None ELSE pg[c].next
  <2>1. CASE n = 1
        BY <1>1, <1>3, <2>1
  <2>2. CASE n > 1
    <3>1. n - 1 \in S /\ c = e[n - 1]
          BY <1>1, <1>5, <2>2
    <3>2. CASE n - 1 <= Len(s)
      <4>1. n - 1 \in 1 .. Len(s) /\ c = s[n - 1] /\ c # None
            BY <1>1, <1>2, <1>3, <2>2, <3>1, <3>2
      <4>2. pg[c].next = IF n - 1 = Len(s) THEN None ELSE s[n]
        <5>1. pg[s[n - 1]].next = IF n - 1 = Len(s) THEN None ELSE s[(n - 1) + 1]
              BY <4>1
        <5>2. (n - 1) + 1 = n
              OBVIOUS
        <5> QED BY <4>1, <5>1, <5>2
      <4> QED BY <1>1, <1>3, <2>2, <4>1, <4>2
    <3>3. CASE n - 1 > Len(s)
      <4>1. c = None
            BY <1>1, <1>3, <3>1, <3>3
      <4> QED BY <1>1, <1>3, <2>2, <3>3, <4>1
    <3> QED BY <1>1, <3>2, <3>3
  <2> QED BY <1>1, <2>1, <2>2
<1>6. Stepping(pg, start, e)
  <2> DEFINE g == [n \in S |-> IF n = 1 THEN start
                               ELSE IF e[n - 1] = None THEN None ELSE pg[e[n - 1]].next]
  <2>1. ASSUME NEW n \in S PROVE e[n] = g[n]
    <3> DEFINE c == e[n - 1]
    <3>1. e[n] = IF n = 1 THEN start ELSE IF c = None THEN None ELSE pg[c].next
      <4> HIDE DEF c
      <4>1. n > 1 => c = e[n - 1]
            BY DEF c
      <4> QED BY <1>5, <4>1
    <3> QED BY <3>1
  <2>2. e = [n \in S |-> e[n]]
        BY <1>4
  <2>3. e = g
        BY <2>1, <2>2
  <2> QED BY <2>3 DEF Stepping
<1>7. ASSUME NEW f, Stepping(pg, start, f) PROVE f = e
  <2>1. \A n \in S : f[n] = IF n = 1 THEN start
                            ELSE IF f[n - 1] = None THEN None ELSE pg[f[n - 1]].next
        BY <1>7 DEF Stepping
  <2>2. f = [n \in S |-> f[n]]
        BY <1>7 DEF Stepping
  <2> DEFINE Differ == {n \in S : f[n] # e[n]}
  <2>3. Differ = {}
    <3> SUFFICES ASSUME Differ # {} PROVE FALSE
        OBVIOUS
    <3> DEFINE n == Lowest(Differ)
    <3>1. Differ \in SUBSET Nat
          BY <1>1
    <3>2. n \in Differ /\ \A k \in Differ : n <= k
          BY <3>1, LowestIs
    <3> HIDE DEF n
    <3>3. n \in S /\ f[n] # e[n]
          BY <3>2
    <3>4. n > 1 => f[n - 1] = e[n - 1]
      <4> SUFFICES ASSUME n > 1 PROVE f[n - 1] = e[n - 1]
          OBVIOUS
      <4>1. n - 1 \in S
            BY <1>1, <3>3
      <4>2. ~(n <= n - 1)
            BY <3>3
      <4> QED BY <3>2, <4>1, <4>2
    <3>5. e[n] = IF n = 1 THEN start ELSE IF f[n - 1] = None THEN None ELSE pg[f[n - 1]].next
      <4> DEFINE c == f[n - 1]
      <4>1. n > 1 => c = e[n - 1]
            BY <3>4
      <4> HIDE DEF c
      <4>2. e[n] = IF n = 1 THEN start ELSE IF c = None THEN None ELSE pg[c].next
            BY <1>5, <3>3, <4>1
      <4> QED BY <4>2 DEF c
    <3> QED BY <2>1, <3>3, <3>5
  <2>4. ASSUME NEW n \in S PROVE f[n] = e[n]
        BY <2>3
  <2>5. e = [n \in S |-> e[n]]
        BY <1>4
  <2> QED BY <2>2, <2>4, <2>5
<1> QED BY <1>6, <1>7 DEF e

\* Following the links of a queue meets its list.
LEMMA MeetsList ==
    ASSUME NEW x, NEW L, Spells(x, L), NEW q \in Queues, NEW at,
           at = CHOOSE f : Stepping(x.page, x.first[q], f)
    PROVE  at = Met(L[q]) /\ [n \in 1 .. Length(at) |-> at[n]] = L[q]
<1> DEFINE start == x.first[q]
           s == L[q]
           pg == x.page
<1>1. /\ s \in Seq(Pages) /\ Once(s)
      /\ start = IF Len(s) = 0 THEN None ELSE s[1]
      /\ \A i \in 1 .. Len(s) : pg[s[i]].next = IF i = Len(s) THEN None ELSE s[i + 1]
      BY DEF Spells, Chains, NoTwice, Chain
<1> HIDE DEF start, s, pg
<1>2. /\ Stepping(pg, start, Met(s))
      /\ \A f : Stepping(pg, start, f) => f = Met(s)
      BY <1>1, MetIs
<1>3. at = Met(s)
      BY <1>2 DEF start, pg
<1> DEFINE k == Len(s)
<1>4. k \in Nat /\ k <= NumPages /\ NumPages \in Nat
      BY <1>1, ShortList, NumberFacts, LenProperties
<1>5. \A n \in 1 .. k : s[n] \in Pages /\ s[n] # None
      BY <1>1, NumberFacts, ElementOfSeq
<1> HIDE DEF k
<1>6. /\ DOMAIN at = 1 .. (NumPages + 1)
      /\ \A n \in DOMAIN at : at[n] = IF n <= k THEN s[n] ELSE None
      BY <1>3 DEF Met, k
<1> DEFINE met == {n \in DOMAIN at : at[n] # None}
<1>7. met = 1 .. k
  <2>1. ASSUME NEW n \in met PROVE n \in 1 .. k
        BY <1>4, <1>6
  <2>2. ASSUME NEW n \in 1 .. k PROVE n \in met
        BY <1>4, <1>5, <1>6
  <2> QED BY <2>1, <2>2
<1>8. Length(at) = k
  <2>1. k \in Int /\ 1 \in Int
        BY <1>4
  <2>2. Cardinality(1 .. k) = IF 1 > k THEN 0 ELSE k - 1 + 1
        BY <2>1, FS_Interval
  <2>3. Cardinality(1 .. k) = k
        BY <1>4, <2>2
  <2>4. Length(at) = Cardinality(met)
        BY DEF Length
  <2> HIDE DEF met
  <2> QED BY <1>7, <2>3, <2>4
<1>9. \A n \in 1 .. k : at[n] = s[n]
      BY <1>4, <1>6
<1>10. s = [n \in 1 .. k |-> s[n]]
       BY <1>1, LenProperties DEF k
<1>11. [n \in 1 .. k |-> at[n]] = s
       BY <1>9, <1>10
<1> QED BY <1>3, <1>8, <1>11 DEF s

LEMMA MembersAre ==
    ASSUME NEW L, Spells(h, L), NEW q \in Queues
    PROVE  Members(q) = L[q]
<1> DEFINE at == Follow(h.first[q], "next")
<1>1. at = CHOOSE f : Stepping(h.page, h.first[q], f)
      BY DEF Follow, Stepping
<1>2. Members(q) = [n \in 1 .. Length(at) |-> at[n]]
      BY DEF Members
<1> HIDE DEF at
<1> QED BY <1>1, <1>2, MeetsList

LEMMA MembersBecome ==
    ASSUME NEW M, Spells(h', M), NEW q \in Queues
    PROVE  Members(q)' = M[q]
<1> DEFINE at == Follow(h.first[q], "next")'
<1>1. at = CHOOSE f : Stepping(h'.page, h'.first[q], f)
      BY DEF Follow, Stepping
<1>2. Members(q)' = [n \in 1 .. Length(at) |-> at[n]]
      BY DEF Members
<1> HIDE DEF at
<1> QED BY <1>1, <1>2, MeetsList

LEMMA InIs ==
    ASSUME NEW L, Spells(h, L), NEW q \in Queues
    PROVE  \A p : p \in In(q) <=> InList(L[q], p)
<1>1. Members(q) = L[q]
      BY MembersAre
<1>2. L[q] \in Seq(Pages)
      BY DEF Spells, Chains
<1>3. DOMAIN L[q] = 1 .. Len(L[q])
      BY <1>2, LenProperties
<1> QED BY <1>1, <1>3 DEF In, InList

-----------------------------------------------------------------------------
(* The invariants.                                                         *)

LEMMA InitInv == Init => Inv
<1> SUFFICES ASSUME Init PROVE Inv
    OBVIOUS
<1> DEFINE L == [q \in Queues |-> <<>>]
           zero == 0
           none == {}
<1>0. PICK given \in SUBSET Pages :
           h = [first |-> [q \in Queues |-> None],
                last  |-> [q \in Queues |-> None],
                count |-> [q \in Queues |-> zero],
                occupied |-> none,
                direct |-> [b \in DirectBins |-> None],
                page  |-> [p \in Pages |-> Gone],
                runs  |-> none, avail |-> given, ahead |-> Pages \ given,
                rmin  |-> QueueCount, rmax |-> zero, generic |-> zero]
      BY DEF Init
<1>1. /\ zero \in Nat /\ zero \in Bins \cup {0} /\ none \in SUBSET Pages /\ none \in SUBSET Queues
      /\ None \in Places /\ \A r : r \notin none
      BY DEF Places
<1> HIDE DEF none
<1>2. /\ [q \in Queues |-> None] \in [Queues -> Places]
      /\ [q \in Queues |-> zero] \in [Queues -> Nat]
      /\ [b \in DirectBins |-> None] \in [DirectBins -> Places]
      /\ [p \in Pages |-> Gone] \in [Pages -> PageRecs]
      /\ Pages \ given \in SUBSET Pages
      BY <1>1, GoneIs
<1>3. h \in Heaps
  <2> HIDE DEF zero
  <2> QED BY <1>0, <1>1, <1>2 DEF Heaps
<1>4. /\ \A q \in Queues : /\ h.first[q] = None /\ h.last[q] = None /\ h.count[q] = 0
                           /\ q \notin h.occupied
      /\ \A b \in DirectBins : h.direct[b] = None
      /\ \A p \in Pages : h.page[p] = Gone
      /\ \A p : p \notin h.runs
      BY <1>0, <1>1
<1>5. \A q \in Queues : L[q] \in Seq(Pages) /\ Len(L[q]) = 0 /\ \A p : ~InList(L[q], p)
      BY EmptySeq DEF InList
<1>6. L \in [Queues -> Seq(Pages)]
      BY <1>5
<1> HIDE DEF L
<1>7. NoTwice(L)
      BY <1>5 DEF NoTwice, Once
<1>8. \A q \in Queues : Chain(h, q, L[q])
      BY <1>4, <1>5 DEF Chain
<1>9. DirectShows(h)
      BY <1>4, NumberFacts DEF DirectShows
<1>10. \A p \in Pages : PageOk(h, L, p)
       BY <1>4, <1>5 DEF PageOk
<1>11. Spells(h, L)
       BY <1>3, <1>6, <1>7, <1>8, <1>9, <1>10 DEF Spells, Chains
<1>12. WalkOk(h, w, L)
       BY IdleIs DEF Init
<1> QED BY <1>11, <1>12 DEF Inv

LEMMA InvStep == Inv /\ [Next]_vars => Inv'
<1> SUFFICES ASSUME Inv, [Next]_vars PROVE Inv'
    OBVIOUS
<1>1. PICK L : Spells(h, L) /\ WalkOk(h, w, L)
      BY DEF Inv
<1>2. PICK M : Spells(h', M) /\ WalkOk(h', w', M)
      BY <1>1, StepKeeps
<1> QED BY <1>2 DEF Inv

\* Some lists are spelled by the links in both directions, by the ends, counts
\* and occupied bits, with each page in use in one of them, in the queue of its
\* bin or the full one; and the page a loop visits next, and the candidate of
\* find_page, are in the list of the queue it is in.
THEOREM QueuesInductive == Spec => []Inv
<1> QED BY InitInv, InvStep, PTL DEF Spec

LEMMA InvLinks == Inv => LinksValid
<1> SUFFICES ASSUME NEW L, Spells(h, L) PROVE LinksValid
    BY DEF Inv
<1>1. ASSUME NEW q \in Queues PROVE ValidQueue(q)
  <2> DEFINE s == L[q]
  <2>1. Members(q) = s
        BY MembersAre
  <2>2. /\ s \in Seq(Pages) /\ Chain(h, q, s) /\ h \in Heaps
        BY DEF Spells, Chains
  <2>3. Len(s) \in Nat /\ DOMAIN s = 1 .. Len(s) /\ (s = <<>> <=> Len(s) = 0)
        BY <2>2, LenProperties, EmptySeq
  <2>4. ASSUME NEW n \in 1 .. Len(s)
        PROVE  s[n] \in Pages /\ h.page[s[n]].bin \in Bins /\ ValidMember(q, s[n])
    <3> DEFINE p == s[n]
    <3>1. InList(s, p)
          BY DEF InList
    <3> HIDE DEF p
    <3>2. p \in Pages /\ FiledAs(h, q, p) /\ h.page[p].bin \in Bins
          BY <3>1, PageOfList
    <3> QED BY <3>2 DEF FiledAs, ValidMember, p
  <2> HIDE DEF s
  <2>5. /\ h.last[q] = IF Len(s) = 0 THEN None ELSE s[Len(s)]
        /\ h.count[q] = Len(s) /\ (q \in h.occupied <=> Len(s) > 0)
        /\ \A n \in 1 .. Len(s) : h.page[s[n]].prev = IF n = 1 THEN None ELSE s[n - 1]
        BY <2>2 DEF Chain
  <2>6. /\ (q \in h.occupied) <=> (h.count[q] > 0)
        /\ h.last[q] = IF s = <<>> THEN None ELSE s[Len(s)]
        BY <2>3, <2>5
  <2>7. \A n \in DOMAIN s : h.page[s[n]].prev = IF n = 1 THEN None ELSE s[n - 1]
        BY <2>3, <2>5
  <2> QED BY <2>1, <2>3, <2>4, <2>5, <2>6, <2>7 DEF ValidQueue
<1>2. ASSUME NEW b \in DirectBins PROVE ValidDirectEntry(b)
      BY DEF ValidDirectEntry, Spells, Chains, DirectShows
<1>3. ASSUME NEW p \in InUse PROVE \E q \in Queues : p \in In(q)
      BY InIs, UsedInList DEF InUse
<1>4. ASSUME NEW q \in Queues, NEW p \in In(q) PROVE p \in InUse
  <2>1. InList(L[q], p)
        BY InIs
  <2>2. p \in Pages /\ h.page[p].bin \in Bins
        BY <2>1, PageOfList
  <2> QED BY <2>2, NumberFacts DEF InUse, Gone
<1>5. InUse = UNION {In(q) : q \in Queues}
      BY <1>3, <1>4
<1> QED BY <1>1, <1>2, <1>5 DEF LinksValid

\* Between any two iterations of any loop, with any number of pages and bins,
\* what validate_queue_inner and validate_direct_entry check holds of every
\* queue, and no page in use is in none of them.
THEOREM LinksAlwaysValid == Spec => []LinksValid
<1> QED BY QueuesInductive, InvLinks, PTL

LEMMA InvCursor == Inv => CursorInQueue
<1> SUFFICES ASSUME NEW L, Spells(h, L), WalkOk(h, w, L), w.cur # None
             PROVE  w.cur \in In(w.q)
    BY DEF Inv, CursorInQueue
<1>1. w.q \in Queues /\ InList(L[w.q], w.cur)
      BY NumberFacts DEF WalkOk
<1> QED BY <1>1, InIs

\* The page find_page, collect_retired and release_empty_pages read as next
\* before they park or free the one they are at is still in the queue.
THEOREM CursorStays == Spec => []CursorInQueue
<1> QED BY QueuesInductive, InvCursor, PTL

-----------------------------------------------------------------------------
(* The lists.                                                              *)

LEMMA ListsAre ==
    ASSUME NEW L, Spells(h, L)
    PROVE  [q \in Queues |-> Members(q)] = L
<1>1. L \in [Queues -> Seq(Pages)]
      BY DEF Spells, Chains
<1> QED BY <1>1, MembersAre

LEMMA ListsBecome ==
    ASSUME NEW M, Spells(h', M)
    PROVE  [q \in Queues |-> Members(q)]' = M
<1>1. M \in [Queues -> Seq(Pages)]
      BY DEF Spells, Chains
<1>2. \A q \in Queues : Members(q)' = M[q]
      BY MembersBecome
<1> QED BY <1>1, <1>2

\* The direct table is what PageLists says it is.
LEMMA TableIs ==
    ASSUME NEW x, NEW L, Spells(x, L)
    PROVE  x.direct = [b \in DirectBins |-> Lists!FirstOf(L[b])]
<1>1. x.direct \in [DirectBins -> Places]
      BY DEF Spells, Chains, Heaps
<1>2. ASSUME NEW b \in DirectBins PROVE x.direct[b] = Lists!FirstOf(L[b])
  <2> DEFINE s == L[b]
  <2>1. /\ b \in Queues /\ s \in Seq(Pages) /\ x.direct[b] = x.first[b]
        /\ x.first[b] = IF Len(s) = 0 THEN None ELSE s[1]
        BY NumberFacts DEF Spells, Chains, DirectShows, Chain
  <2>2. s = <<>> <=> Len(s) = 0
        BY <2>1, EmptySeq
  <2> HIDE DEF s
  <2>3. s # <<>> => Head(s) = s[1]
        BY <2>1
  <2> QED BY <2>1, <2>2, <2>3 DEF Lists!FirstOf, s
<1> QED BY <1>1, <1>2

LEMMA ListsInit == Init => Lists!Init
<1> SUFFICES ASSUME Init PROVE Lists!Init
    OBVIOUS
<1> DEFINE none == <<>>
<1>1. PICK L : Spells(h, L)
      BY InitInv DEF Inv
<1>2. /\ [q \in Queues |-> Members(q)] = L
      /\ L \in [Queues -> Seq(Pages)]
      BY <1>1, ListsAre DEF Spells, Chains
<1>3. /\ \A q \in Queues : h.first[q] = None
      /\ h.direct = [b \in DirectBins |-> None]
      /\ \A p \in Pages : h.page[p].bin = None
      BY DEF Init, Gone
<1>4. ASSUME NEW q \in Queues PROVE L[q] = none
  <2>1. Len(L[q]) = 0 /\ L[q] \in Seq(Pages)
        BY <1>1, <1>3, EndsInList DEF Spells, Chains
  <2> QED BY <2>1, EmptySeq
<1> HIDE DEF none
<1>5. [q \in Queues |-> Members(q)] = [q \in Queues |-> none]
      BY <1>2, <1>4
<1>6. [p \in Pages |-> h.page[p].bin] = [p \in Pages |-> None]
      BY <1>3
<1> QED BY <1>3, <1>5, <1>6 DEF Lists!Init, Lists!Queues, Queues, none

\* A page of PageLists is in the queues of a list that is spelled.
LEMMA InLists ==
    ASSUME NEW L, Spells(h, L)
    PROVE  /\ \A q \in Queues : \A p : p \in Lists!In(q) <=> InList(L[q], p)
           /\ \A p : p \in Lists!Linked => ~Loose(L, p)
<1>1. L \in [Queues -> Seq(Pages)] /\ [q \in Queues |-> Members(q)] = L
      BY ListsAre DEF Spells, Chains
<1>2. ASSUME NEW q \in Queues, NEW p PROVE p \in Lists!In(q) <=> InList(L[q], p)
  <2>1. Lists!In(q) = {L[q][i] : i \in DOMAIN L[q]}
        BY <1>1 DEF Lists!In
  <2>2. DOMAIN L[q] = 1 .. Len(L[q])
        BY <1>1, LenProperties
  <2> QED BY <2>1, <2>2 DEF InList
<1>3. ASSUME NEW p \in Lists!Linked PROVE ~Loose(L, p)
      BY <1>2 DEF Lists!Linked, Lists!Queues, Queues, Loose
<1> QED BY <1>2, <1>3

LEMMA ListsStep == Inv /\ [Next]_vars => [Lists!Next]_Lists!vars
<1> SUFFICES ASSUME Inv, [Next]_vars PROVE [Lists!Next]_Lists!vars
    OBVIOUS
<1> DEFINE ls == [q \in Queues |-> Members(q)]
           home == [p \in Pages |-> h.page[p].bin]
<1>1. PICK L : Spells(h, L) /\ WalkOk(h, w, L)
      BY DEF Inv
<1>2. PICK M : Spells(h', M) /\ ListStep(h, h', L, M)
      BY <1>1, StepKeeps
<1>3. ls = L /\ ls' = M
      BY <1>1, <1>2, ListsAre, ListsBecome
<1>4. /\ h.direct = [b \in DirectBins |-> Lists!FirstOf(L[b])]
      /\ h'.direct = [b \in DirectBins |-> Lists!FirstOf(M[b])]
      BY <1>1, <1>2, TableIs
<1>5. L \in [Queues -> Seq(Pages)]
      BY <1>1 DEF Spells, Chains
<1>6. home' = [p \in Pages |-> h'.page[p].bin]
      OBVIOUS
<1>7. SameHomes(h, h') => home' = home
      BY <1>6 DEF SameHomes
<1>8. \A p \in Pages : \A b : Rehomed(h, h', p, b) => home' = [home EXCEPT ![p] = b]
      BY <1>6 DEF Rehomed
<1>9. h'.direct = [b \in DirectBins |-> Lists!FirstOf(ls'[b])]
      BY <1>3, <1>4
<1>10. CASE M = L /\ SameHomes(h, h')
  <2>1. ls' = ls /\ home' = home /\ h'.direct = h.direct
        BY <1>3, <1>4, <1>7, <1>10
  <2> QED BY <2>1 DEF Lists!vars
<1> HIDE DEF ls, home
<1>11. ASSUME NEW p \in Pages, NEW b \in Bins, Loose(L, p),
              M = [L EXCEPT ![b] = <<p>> \o @], Rehomed(h, h', p, b)
       PROVE  Lists!Join(p, b)
  <2>1. p \notin Lists!Linked
        BY <1>1, <1>11, InLists
  <2>2. ls' = [ls EXCEPT ![b] = <<p>> \o @] /\ home' = [home EXCEPT ![p] = b]
        BY <1>3, <1>8, <1>11
  <2> QED BY <2>1, <2>2 DEF Lists!Join, ls, home
<1>12. ASSUME NEW p \in Pages, NEW q \in Queues, InList(L[q], p),
              M = [L EXCEPT ![q] = Lists!Without(@, p)], Rehomed(h, h', p, None)
       PROVE  Lists!Leave(p, q)
  <2>1. p \in Lists!In(q)
        BY <1>1, <1>12, InLists
  <2>2. ls' = [ls EXCEPT ![q] = Lists!Without(@, p)] /\ home' = [home EXCEPT ![p] = None]
        BY <1>3, <1>8, <1>12
  <2> QED BY <2>1, <2>2 DEF Lists!Leave, ls, home
<1>13. ASSUME NEW p \in Pages, NEW b \in Bins, h.page[p].bin = b, SameHomes(h, h'),
              InList(L[b], p), M = [L EXCEPT ![b] = <<p>> \o Lists!Without(@, p)]
       PROVE  Lists!Promote(p)
  <2>1. home[p] = b /\ b # None /\ p \in Lists!In(b)
        BY <1>1, <1>13, InLists, NumberFacts DEF home
  <2>2. ls' = [ls EXCEPT ![home[p]] = <<p>> \o Lists!Without(@, p)] /\ home' = home
        BY <1>3, <1>7, <1>13, <2>1
  <2> QED BY <2>1, <2>2 DEF Lists!Promote, ls, home
<1>14. ASSUME NEW p \in Pages, NEW b \in Bins, h.page[p].bin = b, SameHomes(h, h'),
              InList(L[b], p),
              M = [L EXCEPT ![b] = Lists!Without(@, p), ![Full] = Append(@, p)]
       PROVE  Lists!Park(p)
  <2>1. home[p] = b /\ b # None /\ p \in Lists!In(b)
        BY <1>1, <1>14, InLists, NumberFacts DEF home
  <2>2. /\ ls' = [ls EXCEPT ![home[p]] = Lists!Without(@, p), ![Full] = Append(@, p)]
        /\ home' = home
        BY <1>3, <1>7, <1>14, <2>1
  <2> QED BY <2>1, <2>2 DEF Lists!Park, ls, home
<1>15. ASSUME NEW p \in Pages, NEW b \in Bins, h.page[p].bin = b, SameHomes(h, h'),
              InList(L[Full], p),
              M = [L EXCEPT ![Full] = Lists!Without(@, p), ![b] = Append(@, p)]
       PROVE  Lists!Unpark(p)
  <2>1. home[p] = b /\ p \in Lists!In(Full)
        BY <1>1, <1>15, InLists, NumberFacts DEF home
  <2>2. /\ ls' = [ls EXCEPT ![Full] = Lists!Without(@, p), ![home[p]] = Append(@, p)]
        /\ home' = home
        BY <1>3, <1>7, <1>15, <2>1
  <2> QED BY <2>1, <2>2 DEF Lists!Unpark, ls, home
<1>16. CASE \E p \in Pages :
               \/ \E b \in Bins : Lists!Join(p, b)
               \/ \E q \in Queues : Lists!Leave(p, q)
               \/ Lists!Promote(p) \/ Lists!Park(p) \/ Lists!Unpark(p)
       BY <1>9, <1>16 DEF Lists!Next, Lists!Queues, Queues, ls
<1> QED BY <1>2, <1>10, <1>11, <1>12, <1>13, <1>14, <1>15, <1>16 DEF ListStep

\* What the links spell is module PageLists: each iteration of each loop moves
\* one page of one queue and leaves the others in order, a parked page goes
\* back to the queue of its bin, and the direct table shows the first pages.
THEOREM QueuesAreLists == Spec => ListsKept
<1> QED BY QueuesInductive, ListsInit, ListsStep, PTL DEF Spec, ListsKept, Lists!Spec
=============================================================================
