------------------------------ MODULE PagedRead ------------------------------
(***************************************************************************)
(* The second guarantee of handbook/resilient-api-call: paginate and       *)
(* unwrap of resilient.py, walking a collection that may change between    *)
(* two pages, on a server that may cap the page below the size asked for   *)
(* and may declare a total that is not there to be read.                   *)
(***************************************************************************)
EXTENDS Integers, Sequences, FiniteSets, SequencesExt

CONSTANTS
  Objects,     \* what the collection can hold
  Size,        \* the page size asked for
  MaxPages,    \* 10000 in the code: pages after the first before the walk is given up
  MaxChanges   \* bound on what happens to the collection during the walk

PageAssumption ==
  IsFiniteSet(Objects) /\ {Size, MaxPages} \subseteq Nat \ {0} /\ MaxChanges \in Nat

VARIABLES
  collection,  \* the server: the objects in the order it pages through
  server,      \* the server: its cap on a page, how it strides, what it declares beyond its total
  pc, page, items, chunk, total,   \* the walk
  steady,      \* history: the objects that have been in the collection all along
  changes

vars == <<collection, server, pc, page, items, chunk, total, steady, changes>>

NoTotal == -1

\* A collection in some order, each object once.
Orderings == {s \in SeqOf(Objects, Cardinality(Objects)) : IsInjective(s)}

TypeOK ==
  /\ collection \in Orderings
  /\ pc \in {"read", "judge", "returned", "refused"}
  /\ page \in 0 .. MaxPages /\ items \in Seq(Objects) /\ chunk \in Seq(Objects)
  /\ total \in Nat \cup {NoTotal}
  /\ pc = "judge" => Len(items) >= Len(chunk)
  /\ pc = "returned" /\ total # NoTotal => Len(items) = total

Init ==
  /\ collection \in Orderings
  /\ server \in [cap : 1 .. Size, strides : {"asked", "capped"}, beyond : 0 .. 1, declares : BOOLEAN]
  /\ pc = "read" /\ page = 0 /\ items = <<>> /\ chunk = <<>> /\ total = NoTotal
  /\ steady = Range(collection) /\ changes = 0

-----------------------------------------------------------------------------
(* The server. *)

Walking == pc \in {"read", "judge"}

Grows(o, i) ==
  /\ Walking /\ changes < MaxChanges
  /\ o \in Objects \ Range(collection) /\ i \in 1 .. Len(collection) + 1
  /\ collection' = InsertAt(collection, i, o)
  /\ changes' = changes + 1
  /\ UNCHANGED <<server, pc, page, items, chunk, total, steady>>

Shrinks(i) ==
  /\ Walking /\ changes < MaxChanges
  /\ i \in 1 .. Len(collection)
  /\ collection' = RemoveAt(collection, i)
  /\ steady' = steady \ {collection[i]}
  /\ changes' = changes + 1
  /\ UNCHANGED <<server, pc, page, items, chunk, total>>

\* Page p: as many objects as the cap allows, from where the server counts the page to begin.
PageAt(p) ==
  LET first == p * (IF server.strides = "asked" THEN Size ELSE server.cap)
      last == IF first + server.cap < Len(collection) THEN first + server.cap ELSE Len(collection)
  IN  SubSeq(collection, first + 1, last)

-----------------------------------------------------------------------------
(* The walk. *)

Reads ==
  /\ pc = "read"
  /\ chunk' = PageAt(page)
  /\ items' = items \o chunk'
  /\ total' = IF server.declares THEN Len(collection) + server.beyond ELSE NoTotal
  /\ pc' = "judge"
  /\ UNCHANGED <<collection, server, page, steady, changes>>

\* Nothing more is to be read.
Whole ==
  \/ chunk = <<>>
  \/ total # NoTotal /\ Len(items) >= total
  \/ total = NoTotal /\ Len(chunk) < Size

GoesOn ==
  /\ pc = "judge" /\ ~Whole /\ page < MaxPages
  /\ page' = page + 1 /\ pc' = "read"
  /\ UNCHANGED <<collection, server, items, chunk, total, steady, changes>>

\* Mutant: the walk gives what it has.
ReturnsShort ==
  /\ pc = "judge" /\ Whole
  /\ pc' = "returned"
  /\ UNCHANGED <<collection, server, page, items, chunk, total, steady, changes>>

Returns ==
  /\ pc = "judge" /\ Whole /\ (total = NoTotal \/ Len(items) = total)
  /\ pc' = "returned"
  /\ UNCHANGED <<collection, server, page, items, chunk, total, steady, changes>>

\* ShapeError: short of the total or past it, or too many pages.
Refuses ==
  /\ pc = "judge"
  /\ IF Whole THEN total # NoTotal /\ Len(items) # total ELSE page = MaxPages
  /\ pc' = "refused"
  /\ UNCHANGED <<collection, server, page, items, chunk, total, steady, changes>>

Ends == pc \in {"returned", "refused"} /\ UNCHANGED vars

Next ==
  \/ \E i \in 1 .. Cardinality(Objects) + 1 : Shrinks(i) \/ \E o \in Objects : Grows(o, i)
  \/ Reads \/ GoesOn \/ Returns \/ Refuses \/ Ends

Spec == Init /\ [][Next]_vars

-----------------------------------------------------------------------------
\* "reads a whole collection and refuses to stop short of the total the envelope declares": on a
\* collection that stood still, a walk that returns has each object once and in order, however the
\* server caps its pages, counts them or overstates its total.
WholeWhenStill == pc = "returned" /\ changes = 0 /\ server.declares => items = collection

\* The same of a collection that changed meanwhile: what was there all along is in the answer.
\* It does not hold: an object removed between two pages moves the others up a place, one is skipped, and
\* the count agrees with the new total.
WholeWhenChanging == pc = "returned" /\ server.declares => steady \subseteq Range(items)
=============================================================================
