----------------------------- MODULE MemoryPage ------------------------------
(***************************************************************************)
(* How a page of the memory journal is built, src/src/portal-memory-sync.mjs *)
(* (projectJournalEvents, composePage, buildMemoryPage): a binary search for *)
(* the longest prefix of the events whose projection fits the bounds, and a *)
(* trimmed page when not even one event fits.  An event is the sizes of the *)
(* items it is represented by (none: it is omitted) and the number of its   *)
(* relations that were dropped.  Items, dropped relations and bytes are     *)
(* sets of places, and their numbers are what the code counts.              *)
(***************************************************************************)
EXTENDS Naturals, Sequences, FiniteSets

CONSTANTS Shapes,     \* shapes of events: [sizes : Seq(Nat), drops : Nat]
          MaxEvents,
          MaxItems,   \* 256 in the code
          MaxBytes    \* 64 KiB in the code

PageAssumption ==
  /\ \A e \in Shapes : e.sizes \in Seq(Nat \ {0}) /\ e.drops \in Nat
  /\ MaxEvents \in Nat \ {0} /\ MaxItems \in Nat \ {0} /\ MaxBytes \in Nat \ {0}

VARIABLES events, low, high, page, pc
vars == <<events, low, high, page, pc>>

NoPage == [to |-> 0, items |-> {}, omitted |-> 0, partial |-> 0]

\* The parts of an event: its items first, then its dropped relations.
Items(i) == Len(events[i].sizes)
PartsOf(i, K) == {<<i, k>> : k \in K}
Represented(n) == {i \in 1..n : events[i].sizes # <<>>}
ItemsOf(n) == UNION {PartsOf(i, 1..Items(i)) : i \in 1..n}
PartialOf(n) == UNION {PartsOf(i, Items(i) + 1..Items(i) + events[i].drops) : i \in Represented(n)}

\* composePage of the first n events: each event is represented or counted once.
Composed(n) == [to |-> n, items |-> ItemsOf(n), partial |-> Cardinality(PartialOf(n)),
                omitted |-> Cardinality((1..n) \ Represented(n))]

BytesOf(items) == UNION {{<<it, b>> : b \in 1..events[it[1]].sizes[it[2]]} : it \in items}
\* The counters take room only when there is something to count.
Bytes(g) == Cardinality(BytesOf(g.items))
              + (IF g.omitted > 0 THEN 1 ELSE 0) + (IF g.partial > 0 THEN 1 ELSE 0)
Fits(g) == Cardinality(g.items) <= MaxItems /\ Bytes(g) <= MaxBytes

Narrowed(mid) == mid - 1
Search ==
  LET mid == (low + high) \div 2
  IN /\ pc = "search" /\ low <= high
     /\ IF Fits(Composed(mid)) THEN page' = Composed(mid) /\ low' = mid + 1 /\ UNCHANGED high
        ELSE high' = Narrowed(mid) /\ UNCHANGED <<page, low>>
     /\ UNCHANGED <<events, pc>>

Searched ==
  /\ pc = "search" /\ low > high
  /\ IF page # NoPage THEN pc' = "built" /\ UNCHANGED page ELSE pc' = "trim" /\ page' = Composed(1)
  /\ UNCHANGED <<events, low, high>>

\* The last item goes, and is counted; with the first one the event is omitted.
Trimmed(g) ==
  LET left == g.items \ {<<1, Cardinality(g.items)>>}
  IN [to |-> g.to, items |-> left, partial |-> IF left # {} THEN g.partial + 1 ELSE 0,
      omitted |-> IF left # {} THEN g.omitted ELSE g.omitted + 1]
Trim ==
  /\ pc = "trim"
  /\ IF page.items # {} /\ ~Fits(page) THEN page' = Trimmed(page) /\ UNCHANGED pc
     ELSE pc' = (IF Fits(page) THEN "built" ELSE "refused") /\ UNCHANGED page
  /\ UNCHANGED <<events, low, high>>

Init == /\ events \in UNION {[1..n -> Shapes] : n \in 1..MaxEvents}
        /\ low = 1 /\ high = Len(events) /\ page = NoPage /\ pc = "search"
Next == Search \/ Searched \/ Trim
Spec == Init /\ [][Next]_vars

-----------------------------------------------------------------------------
\* A page ends inside the history; the bisection stays inside the list.
TypeOK == /\ page.to \in 0..Len(events) /\ low \in 1..Len(events) + 1 /\ high \in 0..Len(events)
          /\ pc \in {"search", "trim", "built", "refused"}

Shown == {it[1] : it \in page.items}

\* assertPortalMemoryPageSafe accepts every page built: within the bounds, and
\* each event of its range is represented, or omitted and counted once.
EveryEventAccounted ==
  pc = "built" => Fits(page) /\ page.to > 0 /\ Cardinality(Shown) + page.omitted = page.to

\* What is missing of a represented event is counted, relation by relation and
\* item by item.
NothingDroppedSilently ==
  pc = "built" => Cardinality(page.items) + page.partial =
                    Cardinality(UNION {PartsOf(i, 1..Items(i) + events[i].drops) : i \in Shown})

\* The search by halves finds the longest prefix that fits.
LongestPrefix ==
  pc = "built" => \A n \in page.to + 1..Len(events) : ~Fits(Composed(n))
=============================================================================
