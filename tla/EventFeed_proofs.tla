--------------------------- MODULE EventFeed_proofs ---------------------------
(* Proofs about EventFeed, for any number of messages, deliveries, types   *)
(* and readers, any page sizes and any bound on the clock.                 *)
EXTENDS EventFeed, FiniteSetTheorems, TLAPS

(* Types, and what a stored row has of its message.                        *)
RowsInv ==
  /\ \A d \in Deliveries : answer[d] # "none" => Stored(d)
  /\ \A d \in Deliveries : Stored(d) =>
       /\ message[d] \in Messages
       /\ event[d].type = sent[message[d]].type
       /\ FromBus(d) => event[d].stamp = sent[message[d]].at
  /\ \A d \in removed : Stored(d)

TypeInv == TypeOK /\ RowsInv

LEMMA InitTyped == Init => TypeInv
<1> SUFFICES ASSUME Init PROVE TypeInv
  OBVIOUS
<1>1. NoListing \in Listing
  BY DEF NoListing, Listing
<1>2. TypeOK
  BY <1>1 DEF Init, TypeOK
<1>3. RowsInv
  BY DEF Init, RowsInv, Stored
<1> QED BY <1>2, <1>3 DEF TypeInv

LEMMA NewRowIsTyped ==
  ASSUME TypeOK, NEW m \in Messages
  PROVE  /\ NewRow(m) \in Row /\ NewRow(m) # NoRow
         /\ NewRow(m).type = sent[m].type
         /\ sent[m].via = "bus" => NewRow(m).stamp = sent[m].at
<1>1. sent[m] \in Message /\ now \in Nat
  BY DEF TypeOK
<1>2. Stamp(m) \in Nat /\ sent[m].type \in Types
  BY <1>1, ConstantsAssumption DEF Stamp, Message
<1>3. NewRow(m) \in Row
  BY <1>2 DEF NewRow, Row
<1> QED BY <1>3, ConstantsAssumption DEF NewRow, Row, Stamp

(* What a listing becomes at a step is a listing again.                    *)
LEMMA ListingsAreTyped ==
  ASSUME TypeOK, NEW q \in Readers,
         \/ Open(q) \/ FindMany(q) \/ Count(q) \/ AskAgain(q)
  PROVE  listing' \in [Readers -> Listing]
<1> USE DEF TypeOK
<1> DEFINE l == listing[q]
<1>1. l \in Listing
  OBVIOUS
<1>2. CASE Open(q)
  <2>1. PICK f \in Types \union {Every}, n \in Limits :
          listing' = [listing EXCEPT ![q] =
            [NoListing EXCEPT
               !.step = "find", !.filter = f, !.limit = n, !.page = 1,
               !.acked = {d \in Deliveries :
                 answer[d] = "done" /\ Selects(f, sent[message[d]].type)}]]
    BY <1>2 DEF Open
  <2>2. n \in Nat
    BY ConstantsAssumption
  <2> QED BY <2>1, <2>2 DEF NoListing, Listing
<1>3. CASE FindMany(q)
  <2>1. PICK S \in SUBSET Matches(l) :
          listing' = [listing EXCEPT ![q].step = "count", ![q].data = S]
    BY <1>3 DEF FindMany
  <2>2. S \in SUBSET Deliveries
    BY <2>1 DEF Matches
  <2> QED BY <1>1, <2>1, <2>2 DEF Listing
<1>4. CASE Count(q)
  <2>1. NoListing \in Listing
    BY DEF NoListing, Listing
  <2>2. [l EXCEPT !.step = "find", !.page = NextPage(l), !.data = {},
                  !.shown = l.shown \union l.data] \in Listing
    <3>1. NextPage(l) \in Nat /\ l.shown \union l.data \in SUBSET Deliveries
      BY <1>1 DEF Listing, NextPage
    <3> HIDE DEF l
    <3> QED BY <1>1, <3>1 DEF Listing
  <2> QED BY <1>4, <2>1, <2>2 DEF Count
<1>5. CASE AskAgain(q)
  BY <1>1, <1>5 DEF AskAgain, Listing
<1> QED BY <1>2, <1>3, <1>4, <1>5

(* A row that arrives at a listing, or leaves it, keeps its type. *)
LEMMA NotedIsTyped ==
  ASSUME NEW l \in Listing, NEW d \in Deliveries
  PROVE  /\ [l EXCEPT !.arrived = @ \union {d}] \in Listing
         /\ [l EXCEPT !.left = @ \union {d}] \in Listing
<1>1. l.arrived \union {d} \in SUBSET Deliveries
  BY DEF Listing
<1>2. l.left \union {d} \in SUBSET Deliveries
  BY DEF Listing
<1> QED BY <1>1, <1>2 DEF Listing

LEMMA NextTyped == TypeInv /\ [Next]_vars => TypeInv'
<1> SUFFICES ASSUME TypeInv, [Next]_vars PROVE TypeInv'
  OBVIOUS
<1> USE DEF TypeInv, feed
<1>1. ASSUME NEW d \in Deliveries, Store(d) PROVE TypeInv'
  <2>1. message[d] \in Messages /\ ~Stored(d)
    BY <1>1 DEF Store, Inserting, TypeOK
  <2>2. /\ event' = [event EXCEPT ![d] = NewRow(message[d])]
        /\ NewRow(message[d]) \in Row /\ NewRow(message[d]) # NoRow
        /\ UNCHANGED <<now, sent, removed, message>>
    BY <1>1, <2>1, NewRowIsTyped DEF Store
  <2>3. answer' \in [Deliveries -> {"none", "done", "lost"}]
        /\ \A x \in Deliveries \ {d} : answer'[x] = answer[x]
    BY <1>1 DEF Store, TypeOK
  <2>4. listing' \in [Readers -> Listing]
    BY <1>1, NotedIsTyped DEF Store, TypeOK
  <2>5. TypeOK'
    BY <2>2, <2>3, <2>4 DEF TypeOK
  <2>6. RowsInv'
    BY <2>1, <2>2, <2>3, NewRowIsTyped DEF RowsInv, TypeOK, Stored, FromBus
  <2> QED BY <2>5, <2>6
<1>2. ASSUME NEW d \in Deliveries, Remove(d) PROVE TypeInv'
  <2>1. listing' \in [Readers -> Listing]
    BY <1>2, NotedIsTyped DEF Remove, TypeOK
  <2> QED BY <1>2, <2>1 DEF Remove, TypeOK, RowsInv, Stored, Live, FromBus
<1>3. ASSUME NEW d \in Deliveries, Deliver(d) \/ Refuse(d) PROVE TypeInv'
  <2>1. /\ UNCHANGED <<now, sent, event, removed, answer, listing>>
        /\ message' \in [Deliveries -> Messages \union {NoMessage}]
        /\ \A x \in Deliveries \ {d} : message'[x] = message[x]
    BY <1>3 DEF Deliver, Refuse, TypeOK
  <2>2. ~Stored(d)
    BY <1>3, ConstantsAssumption DEF Deliver, Refuse, Inserting, RowsInv
  <2> QED BY <2>1, <2>2 DEF TypeOK, RowsInv, Stored, FromBus
<1>4. ASSUME NEW q \in Readers, Open(q) \/ FindMany(q) \/ Count(q) \/ AskAgain(q)
      PROVE  TypeInv'
  <2>1. UNCHANGED <<now, feed>>
    BY <1>4 DEF Open, FindMany, Count, AskAgain
  <2> QED BY <1>4, <2>1, ListingsAreTyped DEF TypeOK, RowsInv, Stored, FromBus
<1>5. CASE Tick
  BY <1>5 DEF Tick, TypeOK, RowsInv, Stored, FromBus
<1>6. CASE UNCHANGED vars
  BY <1>6 DEF vars, TypeOK, RowsInv, Stored, FromBus
<1> QED BY <1>1, <1>2, <1>3, <1>4, <1>5, <1>6 DEF Next

LEMMA Typing == Spec => []TypeInv
BY InitTyped, NextTyped, PTL DEF Spec

(* The table, the deliveries and the listings keep their types.            *)
THEOREM TypeCorrect == Spec => []TypeOK
<1>1. TypeInv => TypeOK
  BY DEF TypeInv
<1> QED BY Typing, <1>1, PTL

----------------------------------------------------------------------------
(***************************************************************************)
(* Pages.  Where a row stands in a listing is the number of rows that are  *)
(* listed and newer.                                                       *)
(***************************************************************************)
Newer(q, d) == {x \in Matches(listing[q]) : event[x].stamp > event[d].stamp}
Ahead(q, d) == Cardinality(Newer(q, d))

LEMMA Smallest ==
  ASSUME NEW B \in SUBSET Deliveries, NEW A \in SUBSET B
  PROVE  /\ IsFiniteSet(A) /\ Cardinality(A) \in Nat /\ Cardinality(B) \in Nat
         /\ Cardinality(A) <= Cardinality(B)
         /\ Cardinality(A) = Cardinality(B) => A = B
<1>1. IsFiniteSet(B)
  BY ConstantsAssumption, FS_Subset
<1>2. IsFiniteSet(A) /\ Cardinality(A) <= Cardinality(B)
      /\ (Cardinality(A) = Cardinality(B) => A = B)
  BY <1>1, FS_Subset
<1> QED BY <1>1, <1>2, FS_CardinalityType

LEMMA SkipIsNatural ==
  ASSUME NEW l \in Listing, l.page \in Nat \ {0}, l.limit \in Nat \ {0}
  PROVE  /\ Skip(l) \in Nat
         /\ l.page * l.limit = Skip(l) + l.limit
         /\ l.page = 1 => Skip(l) = 0
<1> DEFINE p == l.page - 1
           n == l.limit
<1>1. p \in Nat /\ n \in Nat
  OBVIOUS
<1>2. p * n \in Nat /\ (p + 1) * n = p * n + n /\ 0 * n = 0
  <2> HIDE DEF p, n
  <2> QED BY <1>1
<1>3. p + 1 = l.page /\ (l.page = 1 => p = 0)
  OBVIOUS
<1> QED BY <1>2, <1>3 DEF Skip

(* A page against the rows listed at the moment it was read: how many are  *)
(* newer than a row before, on or after it.                                *)
LEMMA PagePlaces ==
  ASSUME TypeInv, NEW q \in Readers, NEW l, l = listing[q],
         l.page \in Nat \ {0}, l.limit \in Nat \ {0},
         NEW ahead \in SUBSET Matches(l), NEW S \in SUBSET Matches(l),
         Page(l, ahead, S), NEW d \in Matches(l)
  PROVE  /\ d \in ahead => Ahead(q, d) < Skip(l)
         /\ d \in S => Ahead(q, d) < Skip(l) + l.limit
         /\ d \in S => Tied(d) \/ Ahead(q, d) >= Skip(l)
         /\ d \notin ahead \union S =>
              /\ Tied(d) \/ Ahead(q, d) >= Skip(l) + l.limit
              /\ \A c \in S : event[c].stamp >= event[d].stamp
<1> DEFINE M == Matches(l)
           N == Newer(q, d)
           B == ahead \union S
           total == Cardinality(M)
           k == Skip(l)
           n == l.limit
<1>1. M \in SUBSET Deliveries /\ N \in SUBSET M /\ B \in SUBSET M /\ d \notin N
  <2>1. M \in SUBSET Deliveries /\ N \in SUBSET M /\ B \in SUBSET M
    BY DEF Matches, Newer
  <2>2. event[d].stamp \in Nat
    BY DEF Matches, Live, Stored, TypeInv, TypeOK, Row
  <2> QED BY <2>1, <2>2 DEF Newer
<1>2. \A x \in M : Stored(x) /\ event[x].stamp \in Nat
  BY DEF Matches, Live, Stored, TypeInv, TypeOK, Row
<1>3. k \in Nat /\ n \in Nat \ {0}
  BY SkipIsNatural DEF TypeInv, TypeOK
<1>4. /\ total \in Nat /\ Cardinality(N) \in Nat /\ Cardinality(ahead) \in Nat
      /\ Cardinality(S) \in Nat /\ Cardinality(B) \in Nat
  BY <1>1, Smallest
<1>5. Cardinality(ahead) = IF k < total THEN k ELSE total
  BY DEF Page, Smaller
<1>6. Cardinality(S) = LET left == total - Cardinality(ahead)
                       IN  IF n < left THEN n ELSE left
  BY DEF Page, Smaller
<1>7. Cardinality(B) = Cardinality(ahead) + Cardinality(S)
  <2>1. IsFiniteSet(ahead) /\ IsFiniteSet(S) /\ ahead \intersect S = {}
    BY <1>1, Smallest DEF Page
  <2>2. Cardinality(B) = Cardinality(ahead) + Cardinality(S)
                           - Cardinality(ahead \intersect S)
    BY <2>1, FS_Union
  <2>3. Cardinality(ahead \intersect S) = 0
    BY <2>1, FS_EmptySet
  <2> HIDE DEF B
  <2> QED BY <1>4, <2>2, <2>3
<1>8. \A x \in M : event[x].stamp > event[d].stamp => x \in N
  BY DEF Newer
<1>9. ~Tied(d) => \A x \in M : x # d => event[x].stamp # event[d].stamp
  BY <1>1, <1>2 DEF Tied
<1>10. \A x \in N : event[x].stamp > event[d].stamp
  BY DEF Newer
<1>11. /\ \A a \in ahead, b \in M \ ahead : event[a].stamp >= event[b].stamp
       /\ \A a \in S, b \in M \ B : event[a].stamp >= event[b].stamp
  BY DEF Page, NotBefore
<1>12. ASSUME d \in ahead PROVE Cardinality(N) < k
  <2>1. N \subseteq ahead /\ N # ahead
    BY <1>1, <1>2, <1>10, <1>11, <1>12
  <2>2. Cardinality(N) < Cardinality(ahead)
    BY <1>1, <1>4, <2>1, Smallest
  <2> HIDE DEF N, total, k
  <2> QED BY <1>3, <1>4, <1>5, <2>2
<1>13. ASSUME d \in S PROVE Cardinality(N) < k + n
  <2>1. d \notin ahead
    BY <1>13 DEF Page
  <2>2. N \subseteq B /\ N # B
    BY <1>1, <1>2, <1>10, <1>11, <1>13, <2>1
  <2>3. Cardinality(N) < Cardinality(B)
    BY <1>1, <1>4, <2>2, Smallest
  <2> HIDE DEF N, B, total, k, n
  <2> QED BY <1>3, <1>4, <1>5, <1>6, <1>7, <2>3
<1>14. ASSUME d \in S, ~Tied(d) PROVE Cardinality(N) >= k
  <2>1. d \notin ahead
    BY <1>14 DEF Page
  <2>2. ahead \subseteq N
    BY <1>2, <1>8, <1>9, <1>11, <1>14, <2>1
  <2>3. Cardinality(ahead) <= Cardinality(N)
    BY <1>1, <2>2, Smallest
  <2>4. Cardinality(ahead) # total
    BY <1>1, <2>1, Smallest
  <2> HIDE DEF N, total, k
  <2> QED BY <1>3, <1>4, <1>5, <2>3, <2>4
<1>15. ASSUME d \notin B, ~Tied(d) PROVE Cardinality(N) >= k + n
  <2>1. B \subseteq N
    BY <1>2, <1>8, <1>9, <1>11, <1>15
  <2>2. Cardinality(B) <= Cardinality(N)
    BY <1>1, <2>1, Smallest
  <2>3. Cardinality(B) # total
    BY <1>1, <1>15, Smallest
  <2> HIDE DEF N, B, total, k, n
  <2> QED BY <1>3, <1>4, <1>5, <1>6, <1>7, <2>2, <2>3
<1>16. d \notin B => \A c \in S : event[c].stamp >= event[d].stamp
  BY <1>11
<1> QED BY <1>12, <1>13, <1>14, <1>15, <1>16 DEF Ahead

----------------------------------------------------------------------------
(* What holds of an open listing.  Idle readers have the empty one.        *)
Shape(q) ==
  LET l == listing[q]
  IN  /\ l.step = "idle" => l = NoListing
      /\ l.step # "idle" => l.limit \in Nat \ {0} /\ l.page \in Nat \ {0}
      /\ l.step = "find" => l.data = {}
      /\ \A d \in l.acked \union l.shown \union l.data \union l.arrived
                 \union l.left : Stored(d)
      /\ \A d \in l.acked : Selects(l.filter, event[d].type)
      /\ \A d \in l.data \intersect removed : d \in l.left

(* A row that was there is shown, or is excused, or is still to come.      *)
Excused(q, d) ==
  d \in removed \/ Tied(d) \/ Above(listing[q].left, d)
Complete(q) ==
  LET l == listing[q]
  IN  \A d \in l.acked :
        \/ d \in l.shown \/ Excused(q, d)
        \/ /\ Ahead(q, d) >= Skip(l)
           /\ l.step = "count" =>
                d \in l.data \/ Ahead(q, d) >= Skip(l) + l.limit

(* What is shown stays behind, unless it is shifted.                       *)
Shifted(q, d) == Tied(d) \/ Above(listing[q].arrived, d)
Shifts(q) ==
  LET l == listing[q]
  IN  /\ \A d \in l.shown : Shifted(q, d) \/ Ahead(q, d) < Skip(l)
      /\ \A d \in l.data : Shifted(q, d) \/ Ahead(q, d) < Skip(l) + l.limit
      /\ \A d \in l.data \intersect l.shown : Shifted(q, d)

(* What was there and is not shown is not newer than what is.              *)
InOrder(q, c, d) == event[c].stamp >= event[d].stamp \/ Excused(q, d)
Ordered(q) ==
  LET l == listing[q]
  IN  /\ \A c \in l.shown, d \in l.acked \ l.shown : InOrder(q, c, d)
      /\ \A c \in l.data, d \in l.acked \ (l.shown \union l.data) :
           InOrder(q, c, d)

Rows == {d \in Deliveries : Stored(d)}
Earned(q) == listing[q].page > 1 => Skip(listing[q]) < Cardinality(Rows)

ListingOK(q) == Shape(q) /\ Complete(q) /\ Shifts(q) /\ Ordered(q) /\ Earned(q)
ListingInv == \A q \in Readers : ListingOK(q)

(* The empty listing needs nothing. *)
LEMMA IdleIsOK ==
  ASSUME NEW q \in Readers, listing[q] = NoListing
  PROVE  ListingOK(q)
BY DEF ListingOK, Shape, Complete, Shifts, Ordered, Earned, NoListing

LEMMA ListingsInit == Init => ListingInv
BY IdleIsOK DEF Init, ListingInv

LEMMA ListingUntouched ==
  ASSUME NEW q \in Readers, ListingOK(q), listing'[q] = listing[q],
         UNCHANGED <<event, removed>>
  PROVE  ListingOK(q)'
<1>1. \A d : Ahead(q, d)' = Ahead(q, d) /\ Stored(d)' = Stored(d)
               /\ Tied(d)' = Tied(d)
               /\ Above(listing[q].left, d)' = Above(listing[q].left, d)
               /\ Above(listing[q].arrived, d)' = Above(listing[q].arrived, d)
  BY DEF Ahead, Newer, Matches, Live, Stored, Tied, Above
<1>2. \A d : /\ Excused(q, d)' = Excused(q, d) /\ Shifted(q, d)' = Shifted(q, d)
            /\ \A c : InOrder(q, c, d)' = InOrder(q, c, d)
  BY <1>1 DEF Excused, Shifted, InOrder
<1>3. Shape(q)'
  BY <1>1 DEF ListingOK, Shape
<1>4. Complete(q)'
  BY <1>1, <1>2 DEF ListingOK, Complete
<1>5. Shifts(q)'
  BY <1>1, <1>2 DEF ListingOK, Shifts
<1>6. Ordered(q)'
  BY <1>2 DEF ListingOK, Ordered
<1>7. Earned(q)'
  BY <1>1 DEF ListingOK, Earned, Rows
<1> QED BY <1>3, <1>4, <1>5, <1>6, <1>7 DEF ListingOK

(* A step that stores or removes a row, as an open listing lives it.       *)
Evolves(q) ==
  /\ LET l == listing[q]
         m == listing'[q]
     IN  /\ m.step = l.step /\ m.filter = l.filter /\ m.limit = l.limit
         /\ m.page = l.page /\ m.data = l.data /\ m.acked = l.acked
         /\ m.shown = l.shown
         /\ l.arrived \subseteq m.arrived /\ l.left \subseteq m.left
         /\ \A x \in m.arrived \union m.left : event'[x] # NoRow
         /\ \A d \in l.data \intersect removed' : d \in m.left
         /\ \A d \in Deliveries : Stored(d) =>
              /\ \/ d \in removed' \/ Above(l.left, d)'
                 \/ Newer(q, d) \subseteq Newer(q, d)'
              /\ Above(l.arrived, d)' \/ Newer(q, d)' \subseteq Newer(q, d)
  /\ \A x \in Deliveries : Stored(x) => event'[x] = event[x]
  /\ removed \subseteq removed'

LEMMA EvolvesKeeps ==
  ASSUME TypeInv, TypeInv', NEW q \in Readers, ListingOK(q), Evolves(q),
         listing[q].step # "idle"
  PROVE  ListingOK(q)'
<1> DEFINE l == listing[q]
           m == listing'[q]
<1>1. l \in Listing /\ m \in Listing
  BY DEF TypeInv, TypeOK
<1>2. /\ m.step = l.step /\ m.filter = l.filter /\ m.limit = l.limit
      /\ m.page = l.page /\ m.data = l.data /\ m.acked = l.acked
      /\ m.shown = l.shown
      /\ l.arrived \subseteq m.arrived /\ l.left \subseteq m.left
  BY DEF Evolves
<1>3. /\ l.acked \subseteq Deliveries /\ l.shown \subseteq Deliveries
      /\ l.data \subseteq Deliveries /\ l.arrived \subseteq Deliveries
      /\ l.left \subseteq Deliveries
      /\ m.arrived \subseteq Deliveries /\ m.left \subseteq Deliveries
  BY <1>1 DEF Listing
<1>4. \A d \in l.acked \union l.shown \union l.data \union l.arrived
             \union l.left : Stored(d)
  BY DEF ListingOK, Shape
<1>5. /\ \A x \in Deliveries : Stored(x) => Stored(x)' /\ event'[x] = event[x]
      /\ removed \subseteq removed'
  BY DEF Evolves, Stored
<1>6. l.limit \in Nat \ {0} /\ l.page \in Nat \ {0} /\ Skip(l) \in Nat
      /\ Skip(m) = Skip(l)
  <2>1. l.limit \in Nat \ {0} /\ l.page \in Nat \ {0}
    BY DEF ListingOK, Shape
  <2> QED BY <1>1, <1>2, <2>1, SkipIsNatural DEF Skip
<1>7. Shape(q)'
  <2>1. \A x \in m.arrived \union m.left : Stored(x)'
    BY DEF Evolves, Stored
  <2>2. \A d \in m.acked : Selects(m.filter, event'[d].type)
    BY <1>2, <1>3, <1>4, <1>5 DEF ListingOK, Shape
  <2>3. \A d \in m.data \intersect removed' : d \in m.left
    BY <1>2 DEF Evolves
  <2>4. \A d \in m.acked \union m.shown \union m.data : Stored(d)'
    BY <1>2, <1>3, <1>4, <1>5
  <2>5. m.step = "find" => m.data = {}
    BY <1>2 DEF ListingOK, Shape
  <2> QED BY <1>2, <1>6, <2>1, <2>2, <2>3, <2>4, <2>5 DEF Shape
<1>8. ASSUME NEW d \in Deliveries, Stored(d)
      PROVE  /\ Tied(d) => Tied(d)'
             /\ Excused(q, d) => Excused(q, d)'
             /\ Shifted(q, d) => Shifted(q, d)'
             /\ Excused(q, d)' \/ Ahead(q, d)' >= Ahead(q, d)
             /\ Shifted(q, d)' \/ Ahead(q, d)' <= Ahead(q, d)
             /\ Ahead(q, d) \in Nat /\ Ahead(q, d)' \in Nat
  <2>1. Tied(d) => Tied(d)'
    BY <1>5, <1>8 DEF Tied
  <2>2. Above(l.left, d) => Above(l.left, d)'
    BY <1>2, <1>3, <1>4, <1>5, <1>8 DEF Above
  <2>3. Above(l.arrived, d) => Above(l.arrived, d)'
    BY <1>2, <1>3, <1>4, <1>5, <1>8 DEF Above
  <2>4. Excused(q, d) => Excused(q, d)'
    BY <1>5, <2>1, <2>2 DEF Excused
  <2>5. Shifted(q, d) => Shifted(q, d)'
    BY <2>1, <2>3 DEF Shifted
  <2>6. Newer(q, d) \in SUBSET Deliveries /\ Newer(q, d)' \in SUBSET Deliveries
    BY DEF Newer, Matches
  <2>7. Ahead(q, d) \in Nat /\ Ahead(q, d)' \in Nat
    BY <2>6, Smallest DEF Ahead
  <2>8. Excused(q, d)' \/ Newer(q, d) \subseteq Newer(q, d)'
    BY <1>8 DEF Evolves, Excused
  <2>9. Shifted(q, d)' \/ Newer(q, d)' \subseteq Newer(q, d)
    BY <1>8 DEF Evolves, Shifted
  <2>10. Excused(q, d)' \/ Ahead(q, d)' >= Ahead(q, d)
    BY <2>6, <2>7, <2>8, Smallest DEF Ahead
  <2>11. Shifted(q, d)' \/ Ahead(q, d)' <= Ahead(q, d)
    BY <2>6, <2>7, <2>9, Smallest DEF Ahead
  <2> QED BY <2>1, <2>4, <2>5, <2>7, <2>10, <2>11
<1>9. Complete(q)'
  <2> SUFFICES ASSUME NEW d \in l.acked, d \notin l.shown, ~Excused(q, d)'
               PROVE  /\ Ahead(q, d)' >= Skip(l)
                      /\ l.step = "count" =>
                           d \in l.data \/ Ahead(q, d)' >= Skip(l) + l.limit
    BY <1>2, <1>6 DEF Complete
  <2>1. d \in Deliveries /\ Stored(d)
    BY <1>3, <1>4
  <2>2. Ahead(q, d) >= Skip(l)
        /\ (l.step = "count" => d \in l.data \/ Ahead(q, d) >= Skip(l) + l.limit)
    BY <1>8, <2>1 DEF ListingOK, Complete
  <2>3. Ahead(q, d)' >= Ahead(q, d) /\ Ahead(q, d) \in Nat /\ Ahead(q, d)' \in Nat
    BY <1>8, <2>1
  <2> HIDE DEF l
  <2> QED BY <1>6, <2>2, <2>3
<1>10. Shifts(q)'
  <2>1. ASSUME NEW d \in l.shown PROVE Shifted(q, d)' \/ Ahead(q, d)' < Skip(l)
    <3>1. d \in Deliveries /\ Stored(d)
      BY <1>3, <1>4, <2>1
    <3>2. Shifted(q, d) \/ Ahead(q, d) < Skip(l)
      BY <2>1 DEF ListingOK, Shifts
    <3> HIDE DEF l
    <3> QED BY <1>6, <1>8, <3>1, <3>2
  <2>2. ASSUME NEW d \in l.data
        PROVE  Shifted(q, d)' \/ Ahead(q, d)' < Skip(l) + l.limit
    <3>1. d \in Deliveries /\ Stored(d)
      BY <1>3, <1>4, <2>2
    <3>2. Shifted(q, d) \/ Ahead(q, d) < Skip(l) + l.limit
      BY <2>2 DEF ListingOK, Shifts
    <3> HIDE DEF l
    <3> QED BY <1>6, <1>8, <3>1, <3>2
  <2>3. \A d \in l.data \intersect l.shown : Shifted(q, d)'
    BY <1>3, <1>4, <1>8 DEF ListingOK, Shifts
  <2> QED BY <1>2, <1>6, <2>1, <2>2, <2>3 DEF Shifts
<1>11. Ordered(q)'
  <2>1. ASSUME NEW c \in l.shown \union l.data, NEW d \in l.acked, InOrder(q, c, d)
        PROVE  InOrder(q, c, d)'
    BY <1>3, <1>4, <1>5, <1>8, <2>1 DEF InOrder
  <2> QED BY <1>2, <2>1 DEF ListingOK, Ordered
<1>12. Earned(q)'
  <2>1. Rows \subseteq Rows' /\ Rows' \in SUBSET Deliveries
    BY <1>5 DEF Rows
  <2>2. Cardinality(Rows) <= Cardinality(Rows')
        /\ Cardinality(Rows) \in Nat /\ Cardinality(Rows') \in Nat
    BY <2>1, Smallest
  <2>3. l.page > 1 => Skip(l) < Cardinality(Rows)
    BY DEF ListingOK, Earned
  <2> HIDE DEF l
  <2> QED BY <1>2, <1>6, <2>2, <2>3 DEF Earned
<1> QED BY <1>7, <1>9, <1>10, <1>11, <1>12 DEF ListingOK

----------------------------------------------------------------------------
(* The steps.  A row that comes or goes above a row of an open listing is  *)
(* one of those that came or went meanwhile.                               *)
LEMMA StoreKeeps ==
  ASSUME TypeInv, TypeInv', ListingInv, NEW d0 \in Deliveries, Store(d0)
  PROVE  ListingInv'
<1> USE DEF TypeInv, TypeOK
<1>1. /\ event' = [event EXCEPT ![d0] = NewRow(message[d0])] /\ removed' = removed
      /\ ~Stored(d0) /\ Stored(d0)'
  <2>1. message[d0] \in Messages /\ ~Stored(d0)
    BY DEF Store, Inserting
  <2> QED BY <2>1, NewRowIsTyped DEF Store, Stored
<1>2. \A x \in Deliveries : Stored(x) => x # d0 /\ event'[x] = event[x] /\ Stored(x)'
  BY <1>1 DEF Stored
<1>3. ASSUME NEW q \in Readers, listing[q].step = "idle" PROVE ListingOK(q)'
  <2>1. listing'[q] = NoListing
    BY <1>3 DEF Store, ListingInv, ListingOK, Shape
  <2> QED BY <2>1 DEF ListingOK, Shape, Complete, Shifts, Ordered, Earned, NoListing
<1>4. ASSUME NEW q \in Readers, listing[q].step # "idle" PROVE ListingOK(q)'
  <2>1. /\ listing'[q] = [listing[q] EXCEPT !.arrived = listing[q].arrived \union {d0}]
        /\ listing[q] \in Listing
    BY <1>4 DEF Store
  <2>2. listing'[q].filter = listing[q].filter
        /\ listing'[q].arrived = listing[q].arrived \union {d0}
    BY <2>1 DEF Listing
  <2>3. ASSUME NEW d \in Deliveries, Stored(d)
        PROVE  /\ Newer(q, d) \subseteq Newer(q, d)'
               /\ Above(listing[q].arrived, d)' \/ Newer(q, d)' \subseteq Newer(q, d)
    <3>1. event'[d] = event[d] /\ event[d].stamp \in Nat /\ event'[d0].stamp \in Nat
      BY <1>1, <1>2, <2>3 DEF Stored, Row
    <3>2. Newer(q, d) \subseteq Newer(q, d)'
      BY <1>1, <1>2, <2>2, <3>1 DEF Newer, Matches, Live
    <3>3. ~Above(listing[q].arrived, d)' => event'[d0].stamp < event[d].stamp
      BY <2>2, <3>1 DEF Above
    <3>4. event'[d0].stamp < event[d].stamp => Newer(q, d)' \subseteq Newer(q, d)
      BY <1>1, <1>2, <2>2, <3>1 DEF Newer, Matches, Live, Stored
    <3> QED BY <3>2, <3>3, <3>4
  <2>4. \A x \in listing'[q].arrived \union listing'[q].left : event'[x] # NoRow
    BY <1>1, <1>2, <1>4, <2>1 DEF ListingInv, ListingOK, Shape, Stored, Listing
  <2>5. \A d \in listing[q].data \intersect removed' : d \in listing'[q].left
    BY <1>1, <2>1 DEF ListingInv, ListingOK, Shape, Listing
  <2>6. Evolves(q)
    <3>1. /\ listing'[q].step = listing[q].step /\ listing'[q].limit = listing[q].limit
          /\ listing'[q].page = listing[q].page /\ listing'[q].data = listing[q].data
          /\ listing'[q].acked = listing[q].acked
          /\ listing'[q].shown = listing[q].shown
          /\ listing'[q].left = listing[q].left
      BY <2>1 DEF Listing
    <3>2. removed \subseteq removed'
      BY <1>1
    <3> QED BY <1>2, <2>2, <2>3, <2>4, <2>5, <3>1, <3>2 DEF Evolves
  <2> QED BY <1>4, <2>6, EvolvesKeeps DEF ListingInv
<1> QED BY <1>3, <1>4 DEF ListingInv

LEMMA RemoveKeeps ==
  ASSUME TypeInv, TypeInv', ListingInv, NEW d0 \in Deliveries, Remove(d0)
  PROVE  ListingInv'
<1> USE DEF TypeInv, TypeOK
<1>1. event' = event /\ removed' = removed \union {d0} /\ Stored(d0)
      /\ event[d0].stamp \in Nat
  BY DEF Remove, Live, Stored, Row
<1>2. ASSUME NEW q \in Readers, listing[q].step = "idle" PROVE ListingOK(q)'
  <2>1. listing'[q] = NoListing
    BY <1>2 DEF Remove, ListingInv, ListingOK, Shape
  <2> QED BY <2>1 DEF ListingOK, Shape, Complete, Shifts, Ordered, Earned, NoListing
<1>3. ASSUME NEW q \in Readers, listing[q].step # "idle" PROVE ListingOK(q)'
  <2>1. /\ listing'[q] = [listing[q] EXCEPT !.left = listing[q].left \union {d0}]
        /\ listing[q] \in Listing
    BY <1>3 DEF Remove
  <2>2. listing'[q].filter = listing[q].filter
        /\ listing'[q].left = listing[q].left \union {d0}
    BY <2>1 DEF Listing
  <2>3. ASSUME NEW d \in Deliveries, Stored(d)
        PROVE  /\ Newer(q, d)' \subseteq Newer(q, d)
               /\ Above(listing[q].left, d)' \/ Newer(q, d) \subseteq Newer(q, d)'
    <3>1. event[d].stamp \in Nat
      BY <2>3 DEF Stored, Row
    <3>2. Newer(q, d)' \subseteq Newer(q, d)
      BY <1>1, <2>2 DEF Newer, Matches, Live, Stored
    <3>3. ~Above(listing[q].left, d)' => event[d0].stamp < event[d].stamp
      BY <1>1, <2>2, <3>1 DEF Above
    <3>4. event[d0].stamp < event[d].stamp => Newer(q, d) \subseteq Newer(q, d)'
      BY <1>1, <2>2, <3>1 DEF Newer, Matches, Live, Stored
    <3> QED BY <3>2, <3>3, <3>4
  <2>4. \A x \in listing'[q].arrived \union listing'[q].left : event'[x] # NoRow
    <3>1. \A x \in listing[q].arrived \union listing[q].left : event[x] # NoRow
      BY <1>3 DEF ListingInv, ListingOK, Shape, Stored
    <3>2. listing'[q].arrived = listing[q].arrived
      BY <2>1 DEF Listing
    <3> QED BY ONLY <1>1, <2>2, <3>1, <3>2 DEF Stored
  <2>5. \A d \in listing[q].data \intersect removed' : d \in listing'[q].left
    <3>1. \A d \in listing[q].data \intersect removed : d \in listing[q].left
      BY DEF ListingInv, ListingOK, Shape
    <3> QED BY ONLY <1>1, <2>2, <3>1
  <2>6. Evolves(q)
    BY <1>1, <2>1, <2>3, <2>4, <2>5 DEF Evolves, Listing
  <2> QED BY <1>3, <2>6, EvolvesKeeps DEF ListingInv
<1> QED BY <1>2, <1>3 DEF ListingInv

LEMMA OpenKeeps ==
  ASSUME TypeInv, TypeInv', NEW q \in Readers, Open(q)
  PROVE  ListingOK(q)'
<1> USE DEF TypeInv, TypeOK
<1>1. PICK f \in Types \union {Every}, n \in Limits :
        listing' = [listing EXCEPT ![q] =
          [NoListing EXCEPT
             !.step = "find", !.filter = f, !.limit = n, !.page = 1,
             !.acked = {d \in Deliveries :
               answer[d] = "done" /\ Selects(f, sent[message[d]].type)}]]
  BY DEF Open
<1> DEFINE m == listing'[q]
<1>2. /\ m.step = "find" /\ m.filter = f /\ m.limit \in Nat \ {0} /\ m.page = 1
      /\ m.acked = {d \in Deliveries :
           answer[d] = "done" /\ Selects(f, sent[message[d]].type)}
      /\ m.data = {} /\ m.arrived = {} /\ m.left = {} /\ m.shown = {}
      /\ m \in Listing
  BY <1>1, ConstantsAssumption DEF NoListing
<1>3. UNCHANGED <<event, removed>>
  BY DEF Open, feed
<1>4. \A d \in m.acked : Stored(d) /\ Selects(m.filter, event[d].type)
  BY <1>2 DEF RowsInv
<1>5. Shape(q)'
  BY <1>2, <1>3, <1>4 DEF Shape, Stored
<1>6. Complete(q)'
  <2>1. Skip(m) = 0
    BY <1>2, SkipIsNatural
  <2>2. \A d : Ahead(q, d)' \in Nat
    <3>1. \A d : Newer(q, d)' \in SUBSET Deliveries
      BY DEF Newer, Matches
    <3> QED BY <3>1, Smallest DEF Ahead
  <2>3. \A d : Ahead(q, d)' >= Skip(m)
    BY <2>1, <2>2
  <2> QED BY <1>2, <2>3 DEF Complete
<1>7. Shifts(q)' /\ Ordered(q)' /\ Earned(q)'
  BY <1>2 DEF Shifts, Ordered, Earned
<1> QED BY <1>5, <1>6, <1>7 DEF ListingOK

LEMMA FindManyKeeps ==
  ASSUME TypeInv, TypeInv', NEW q \in Readers, ListingOK(q), FindMany(q)
  PROVE  ListingOK(q)'
<1> USE DEF TypeInv, TypeOK
<1> DEFINE l == listing[q]
           m == listing'[q]
<1>1. PICK ahead, S \in SUBSET Matches(l) :
        /\ Page(l, ahead, S)
        /\ listing' = [listing EXCEPT ![q].step = "count", ![q].data = S]
  BY DEF FindMany
<1>2. l \in Listing /\ l.step = "find" /\ UNCHANGED <<event, removed>>
  BY DEF FindMany, feed
<1>3. /\ m.step = "count" /\ m.data = S
      /\ m.filter = l.filter /\ m.limit = l.limit /\ m.page = l.page
      /\ m.acked = l.acked /\ m.arrived = l.arrived /\ m.left = l.left
      /\ m.shown = l.shown
  BY <1>1, <1>2 DEF Listing
<1>4. /\ l.limit \in Nat \ {0} /\ l.page \in Nat \ {0}
      /\ \A d \in l.acked \union l.shown \union l.arrived \union l.left : Stored(d)
      /\ \A d \in l.acked : Selects(l.filter, event[d].type)
  BY <1>2 DEF ListingOK, Shape
<1>5. Skip(m) = Skip(l) /\ Skip(l) \in Nat
  BY <1>2, <1>3, <1>4, SkipIsNatural DEF Skip
<1>6. \A d : /\ Ahead(q, d)' = Ahead(q, d) /\ Tied(d)' = Tied(d)
            /\ Excused(q, d)' = Excused(q, d) /\ Shifted(q, d)' = Shifted(q, d)
            /\ \A c : InOrder(q, c, d)' = InOrder(q, c, d)
  BY <1>2, <1>3 DEF Ahead, Newer, Matches, Live, Stored, Tied, Above, Excused,
                    Shifted, InOrder
<1>7. \A d \in S : d \in Matches(l) /\ Stored(d) /\ d \notin removed
  BY <1>1 DEF Matches, Live
<1>8. \A d \in Matches(l) :
        /\ d \in ahead => Ahead(q, d) < Skip(l)
        /\ d \in S => Ahead(q, d) < Skip(l) + l.limit
        /\ d \in S => Tied(d) \/ Ahead(q, d) >= Skip(l)
        /\ d \notin ahead \union S =>
             /\ Tied(d) \/ Ahead(q, d) >= Skip(l) + l.limit
             /\ \A c \in S : event[c].stamp >= event[d].stamp
  BY <1>1, <1>4, PagePlaces
<1>9. \A d : Ahead(q, d) \in Nat
  <2>1. \A d : Newer(q, d) \in SUBSET Deliveries
    BY DEF Newer, Matches
  <2> QED BY <2>1, Smallest DEF Ahead
<1>10. \A d \in l.acked : ~Excused(q, d) => d \in Matches(l)
  BY <1>2, <1>4 DEF Matches, Live, Excused, Listing
<1>11. \A d \in l.acked : d \in l.shown \/ Excused(q, d)
                            \/ Ahead(q, d) >= Skip(l)
  BY DEF ListingOK, Complete
<1>12. \A d \in l.acked : d \in l.shown \/ Excused(q, d) \/ d \notin ahead
  <2> HIDE DEF l
  <2> QED BY <1>5, <1>8, <1>9, <1>10, <1>11
<1>13. Shape(q)'
  BY <1>2, <1>3, <1>4, <1>7 DEF Shape, Stored
<1>14. Complete(q)'
  BY <1>3, <1>5, <1>6, <1>8, <1>10, <1>11, <1>12 DEF Complete, Excused
<1>15. Shifts(q)'
  <2>1. \A d \in l.shown : Shifted(q, d) \/ Ahead(q, d) < Skip(l)
    BY DEF ListingOK, Shifts
  <2>2. \A d \in S \intersect l.shown : Shifted(q, d)
    <3>1. \A d \in S : Tied(d) => Shifted(q, d)
      BY DEF Shifted
    <3> HIDE DEF l
    <3> QED BY <1>5, <1>7, <1>8, <1>9, <2>1, <3>1
  <2> QED BY <1>3, <1>5, <1>6, <1>7, <1>8, <2>1, <2>2 DEF Shifts
<1>16. Ordered(q)'
  <2>1. \A c \in S, d \in l.acked \ (l.shown \union S) : InOrder(q, c, d)
    BY <1>8, <1>10, <1>12 DEF InOrder
  <2>2. \A c \in l.shown, d \in l.acked \ l.shown : InOrder(q, c, d)
    BY DEF ListingOK, Ordered
  <2> QED BY <1>3, <1>6, <2>1, <2>2 DEF Ordered
<1>17. Earned(q)'
  BY <1>2, <1>3, <1>5 DEF ListingOK, Earned, Rows, Stored
<1> QED BY <1>13, <1>14, <1>15, <1>16, <1>17 DEF ListingOK

LEMMA CountKeeps ==
  ASSUME TypeInv, TypeInv', NEW q \in Readers, ListingOK(q), Count(q)
  PROVE  ListingOK(q)'
<1> USE DEF TypeInv, TypeOK
<1> DEFINE l == listing[q]
           m == listing'[q]
<1>1. l \in Listing /\ m \in Listing /\ l.step = "count"
      /\ UNCHANGED <<event, removed>>
  BY DEF Count, feed
<1>2. CASE ~HasMore(l)
  <2>1. m = NoListing
    BY <1>2 DEF Count
  <2> QED BY <2>1 DEF ListingOK, Shape, Complete, Shifts, Ordered, Earned, NoListing
<1>3. CASE HasMore(l)
  <2>1. m = [l EXCEPT !.step = "find", !.page = NextPage(l), !.data = {},
                      !.shown = l.shown \union l.data]
    BY <1>3 DEF Count
  <2>2. /\ m.step = "find" /\ m.data = {} /\ m.page = l.page + 1
        /\ m.filter = l.filter /\ m.limit = l.limit
        /\ m.acked = l.acked /\ m.arrived = l.arrived /\ m.left = l.left
        /\ m.shown = l.shown \union l.data
    BY <1>1, <2>1 DEF Listing, NextPage
  <2>3. /\ l.limit \in Nat \ {0} /\ l.page \in Nat \ {0}
        /\ \A d \in l.acked \union l.shown \union l.data \union l.arrived
                   \union l.left : Stored(d)
        /\ \A d \in l.acked : Selects(l.filter, event[d].type)
    BY <1>1 DEF ListingOK, Shape
  <2>4. Skip(l) \in Nat /\ Skip(m) = Skip(l) + l.limit
    <3>1. m.page - 1 = l.page /\ Skip(m) = (m.page - 1) * m.limit
      BY <2>2, <2>3 DEF Skip
    <3> HIDE DEF m
    <3> QED BY <1>1, <2>2, <2>3, <3>1, SkipIsNatural
  <2>5. \A d : /\ Ahead(q, d)' = Ahead(q, d)
              /\ Excused(q, d)' = Excused(q, d) /\ Shifted(q, d)' = Shifted(q, d)
              /\ \A c : InOrder(q, c, d)' = InOrder(q, c, d)
    BY <1>1, <2>2 DEF Ahead, Newer, Matches, Live, Stored, Tied, Above, Excused,
                      Shifted, InOrder
  <2>6. \A d : Ahead(q, d) \in Nat
    <3>1. \A d : Newer(q, d) \in SUBSET Deliveries
      BY DEF Newer, Matches
    <3> QED BY <3>1, Smallest DEF Ahead
  <2>7. Shape(q)'
    BY <1>1, <2>2, <2>3 DEF Shape, Stored
  <2>8. Complete(q)'
    <3>1. \A d \in l.acked : \/ d \in l.shown \union l.data \/ Excused(q, d)
                             \/ Ahead(q, d) >= Skip(m)
      BY <1>1, <2>4 DEF ListingOK, Complete
    <3> QED BY <2>2, <2>5, <3>1 DEF Complete
  <2>9. Shifts(q)'
    <3>1. \A d \in l.shown \union l.data : Shifted(q, d) \/ Ahead(q, d) < Skip(m)
      <4>1. /\ \A d \in l.shown : Shifted(q, d) \/ Ahead(q, d) < Skip(l)
            /\ \A d \in l.data : Shifted(q, d) \/ Ahead(q, d) < Skip(l) + l.limit
        BY DEF ListingOK, Shifts
      <4> HIDE DEF l, m
      <4> QED BY <2>3, <2>4, <2>6, <4>1
    <3> QED BY <2>2, <2>5, <3>1 DEF Shifts
  <2>10. Ordered(q)'
    <3>1. \A c \in l.shown \union l.data, d \in l.acked \ (l.shown \union l.data) :
            InOrder(q, c, d)
      BY DEF ListingOK, Ordered
    <3> QED BY <2>2, <2>5, <3>1 DEF Ordered
  <2>11. Earned(q)'
    <3>1. Rows' = Rows /\ Rows \in SUBSET Deliveries /\ Matches(l) \in SUBSET Rows
      BY <1>1 DEF Rows, Stored, Matches, Live
    <3>2. Total(l) <= Cardinality(Rows)
          /\ Total(l) \in Nat /\ Cardinality(Rows) \in Nat
      BY <3>1, Smallest DEF Total
    <3>3. Skip(l) + l.limit < Total(l)
      BY <1>3 DEF HasMore
    <3>4. Skip(m) < Cardinality(Rows)
      <4> HIDE DEF l, m
      <4> QED BY <2>3, <2>4, <3>2, <3>3
    <3> QED BY <3>1, <3>4 DEF Earned
  <2> QED BY <2>7, <2>8, <2>9, <2>10, <2>11 DEF ListingOK
<1> QED BY <1>2, <1>3

LEMMA AskAgainKeeps ==
  ASSUME TypeInv, TypeInv', NEW q \in Readers, ListingOK(q), AskAgain(q)
  PROVE  ListingOK(q)'
<1> USE DEF TypeInv, TypeOK
<1> DEFINE l == listing[q]
           m == listing'[q]
<1>1. l \in Listing /\ l.step = "count" /\ UNCHANGED <<event, removed>>
  BY DEF AskAgain, feed
<1>2. /\ m.step = "find" /\ m.data = {}
      /\ m.filter = l.filter /\ m.limit = l.limit /\ m.page = l.page
      /\ m.acked = l.acked /\ m.arrived = l.arrived /\ m.left = l.left
      /\ m.shown = l.shown
  BY <1>1 DEF AskAgain, Listing
<1>3. \A d : /\ Ahead(q, d)' = Ahead(q, d)
            /\ Excused(q, d)' = Excused(q, d) /\ Shifted(q, d)' = Shifted(q, d)
            /\ \A c : InOrder(q, c, d)' = InOrder(q, c, d)
  BY <1>1, <1>2 DEF Ahead, Newer, Matches, Live, Stored, Tied, Above, Excused,
                    Shifted, InOrder
<1>4. Skip(m) = Skip(l)
  BY <1>2 DEF Skip
<1>5. Shape(q)'
  BY <1>1, <1>2 DEF ListingOK, Shape, Stored
<1>6. Complete(q)' /\ Shifts(q)' /\ Ordered(q)' /\ Earned(q)'
  BY <1>1, <1>2, <1>3, <1>4
     DEF ListingOK, Complete, Shifts, Ordered, Earned, Rows, Stored
<1> QED BY <1>5, <1>6 DEF ListingOK

LEMMA ListingsNext == TypeInv /\ ListingInv /\ [Next]_vars => ListingInv'
<1> SUFFICES ASSUME TypeInv, ListingInv, [Next]_vars PROVE ListingInv'
  OBVIOUS
<1>1. TypeInv'
  BY NextTyped
<1>2. ASSUME NEW d \in Deliveries, Store(d) \/ Remove(d) PROVE ListingInv'
  BY <1>1, <1>2, StoreKeeps, RemoveKeeps
<1>3. ASSUME NEW q \in Readers, Open(q) \/ FindMany(q) \/ Count(q) \/ AskAgain(q)
      PROVE  ListingInv'
  <2>1. ListingOK(q)'
    BY <1>1, <1>3, OpenKeeps, FindManyKeeps, CountKeeps, AskAgainKeeps DEF ListingInv
  <2>2. ASSUME NEW p \in Readers, p # q PROVE ListingOK(p)'
    <3>1. listing'[p] = listing[p] /\ UNCHANGED <<event, removed>>
      BY <1>3, <2>2 DEF Open, FindMany, Count, AskAgain, feed, TypeInv, TypeOK
    <3> QED BY <3>1, ListingUntouched DEF ListingInv
  <2> QED BY <2>1, <2>2 DEF ListingInv
<1>4. CASE UNCHANGED <<event, removed, listing>>
  BY <1>4, ListingUntouched DEF ListingInv
<1> QED BY <1>2, <1>3, <1>4 DEF Next, Tick, Deliver, Refuse, vars, feed

LEMMA Listings == Spec => []ListingInv
BY InitTyped, NextTyped, ListingsInit, ListingsNext, Typing, PTL DEF Spec

----------------------------------------------------------------------------
(* A client that follows hasMore asks for no page past all there ever was. *)
THEOREM PagesEarned == Spec => []PagesAreEarned
<1>1. ListingInv => PagesAreEarned
  BY DEF ListingInv, ListingOK, Earned, PagesAreEarned, Skip, Rows
<1> QED BY Listings, <1>1, PTL

(* A page repeats a row only where a tie, or a row that arrived during the *)
(* listing and is not older, accounts for it.                              *)
THEOREM RepeatsExplained == Spec => []RepeatsAreShifts
<1>1. ListingInv => RepeatsAreShifts
  BY DEF ListingInv, ListingOK, Shifts, Shifted, RepeatsAreShifts
<1> QED BY Listings, <1>1, PTL

(* What was reported before a listing began comes newest first, whatever   *)
(* the order and the number of its deliveries.                             *)
THEOREM ListingsOrdered == Spec => []ListingIsOrdered
<1>1. TypeInv /\ ListingInv => ListingIsOrdered
  <2> SUFFICES ASSUME TypeInv, ListingInv, NEW q \in Readers,
                      NEW c \in listing[q].shown,
                      NEW d \in listing[q].data \ listing[q].shown,
                      {c, d} \subseteq listing[q].acked, FromBus(c), FromBus(d)
               PROVE  \/ sent[message[c]].at >= sent[message[d]].at
                      \/ Tied(d) \/ Above(listing[q].left, d)
    BY DEF ListingIsOrdered
  <2>1. ListingOK(q) /\ listing[q] \in Listing
    BY DEF ListingInv, TypeInv, TypeOK
  <2>2. /\ c \in Deliveries /\ Stored(c) /\ d \in Deliveries /\ Stored(d)
    BY <2>1 DEF ListingOK, Shape, Listing
  <2>3. /\ event[c].stamp = sent[message[c]].at /\ event[d].stamp = sent[message[d]].at
        /\ event[d].stamp \in Nat
    BY <2>2 DEF TypeInv, TypeOK, RowsInv, Stored, Row
  <2>4. InOrder(q, c, d)
    BY <2>1 DEF ListingOK, Ordered
  <2>5. d \in removed => Above(listing[q].left, d)
    BY <2>1, <2>3 DEF ListingOK, Shape, Above
  <2> QED BY <2>3, <2>4, <2>5 DEF InOrder, Excused
<1> QED BY Listings, Typing, <1>1, PTL

(* No listing ends without an event that was acknowledged when it began,   *)
(* unless a removal or a tie accounts for it: for any number of pages and  *)
(* of rows stored between its statements.                                  *)
THEOREM ListingsComplete == Spec => ListingIsComplete
<1> DEFINE Answers(q) ==
      Ends(q) => \A d \in listing[q].acked :
        \/ d \in listing[q].shown \union listing[q].data \union removed
        \/ Tied(d) \/ Above(listing[q].left, d)
<1>1. TypeInv /\ ListingInv /\ [Next]_vars => [\A q \in Readers : Answers(q)]_vars
  <2> SUFFICES ASSUME TypeInv, ListingInv, Next, NEW q \in Readers, Ends(q),
                      NEW d \in listing[q].acked,
                      d \notin listing[q].shown \union listing[q].data,
                      ~Excused(q, d)
               PROVE  FALSE
    BY DEF Excused
  <2> DEFINE l == listing[q]
  <2>1. l \in Listing /\ l.step = "count" /\ ListingOK(q)
    BY DEF TypeInv, TypeOK, ListingInv, Ends
  <2>2. ~HasMore(l)
    <3>1. Count(q)
      <4>1. listing'[q] # listing[q] /\ listing'[q].step = "idle" /\ l.step = "count"
        BY DEF Ends
      <4>2. CASE \E p \in Readers : Open(p) \/ FindMany(p) \/ AskAgain(p)
        <5>1. PICK p \in Readers : Open(p) \/ FindMany(p) \/ AskAgain(p)
          BY <4>2
        <5>2. p # q => listing'[q] = listing[q]
          BY <5>1 DEF Open, FindMany, AskAgain, TypeInv, TypeOK
        <5>3. Open(p) => listing'[p].step = "find"
          BY DEF Open, NoListing, TypeInv, TypeOK
        <5>4. FindMany(p) => listing'[p].step = "count"
          BY DEF FindMany, TypeInv, TypeOK, Listing
        <5>5. AskAgain(p) => listing'[p].step = "find"
          BY DEF AskAgain, TypeInv, TypeOK, Listing
        <5> QED BY <4>1, <5>1, <5>2, <5>3, <5>4, <5>5
      <4>3. CASE \E x \in Deliveries : Store(x) \/ Remove(x)
        BY <2>1, <4>1, <4>3 DEF Store, Remove, TypeInv, TypeOK, Listing
      <4>4. CASE \E p \in Readers : Count(p)
        BY <4>1, <4>4 DEF Count, TypeInv, TypeOK
      <4> QED BY <4>1, <4>2, <4>3, <4>4 DEF Next, Tick, Deliver, Refuse
    <3>2. HasMore(l) => listing'[q].step = "find"
      BY <2>1, <3>1 DEF Count, TypeInv, TypeOK, Listing
    <3> QED BY <3>2 DEF Ends
  <2>3. Ahead(q, d) >= Skip(l) + l.limit
    BY <2>1 DEF ListingOK, Complete
  <2>4. /\ d \in Matches(l) /\ event[d].stamp \in Nat
    BY <2>1 DEF ListingOK, Shape, Matches, Live, Excused, Listing, Stored,
                TypeInv, TypeOK, Row
  <2>5. /\ Newer(q, d) \in SUBSET Matches(l) /\ Matches(l) \in SUBSET Deliveries
        /\ Newer(q, d) # Matches(l)
    BY <2>4 DEF Newer, Matches
  <2>6. /\ Ahead(q, d) < Total(l) /\ Ahead(q, d) \in Nat /\ Total(l) \in Nat
    BY <2>5, Smallest DEF Ahead, Total
  <2>7. Skip(l) \in Nat /\ l.limit \in Nat
    BY <2>1, SkipIsNatural DEF ListingOK, Shape
  <2> HIDE DEF l
  <2> QED BY <2>2, <2>3, <2>6, <2>7 DEF HasMore
<1> QED BY Typing, Listings, <1>1, PTL DEF Spec, ListingIsComplete

----------------------------------------------------------------------------
(***************************************************************************)
(* What a row tells, and that it tells it for good.                        *)
(***************************************************************************)
Tells(d) ==
  /\ Stored(d) /\ message[d] \in Messages
  /\ event[d].type = sent[message[d]].type
  /\ FromBus(d) => event[d].stamp = sent[message[d]].at

(* A message that was acknowledged has a row with its type and, if the bus *)
(* brought it, the time it occurred: whatever other deliveries of it were  *)
(* refused, lost or stored twice.                                          *)
AcknowledgedHasRow ==
  \A m \in Messages : Acknowledged(m) =>
    \E d \in Deliveries : message[d] = m /\ Tells(d)

(* Events are only added and removed: no delivery, repeated or late,       *)
(* changes a row, gives it to another message or brings it back, and an    *)
(* answer is not taken back.                                               *)
RowsStand ==
  [][/\ removed \subseteq removed'
     /\ \A d \in Deliveries : Stored(d) =>
          /\ event'[d] = event[d] /\ message'[d] = message[d]
          /\ answer'[d] = answer[d]]_vars

(* Every row a listing shows, on any page, tells of a message of the type  *)
(* it was asked for.                                                       *)
ListingsAnswerTheirFilter ==
  \A q \in Readers : \A d \in listing[q].shown \union listing[q].data :
    Tells(d) /\ Selects(listing[q].filter, sent[message[d]].type)

LEMMA StoredTell ==
  ASSUME TypeInv, NEW d \in Deliveries, Stored(d)
  PROVE  Tells(d)
BY DEF TypeInv, RowsInv, Tells

(* What was acknowledged is in the feed, as it was reported.               *)
THEOREM AcknowledgedIsStored == Spec => []AcknowledgedHasRow
<1>1. TypeInv => AcknowledgedHasRow
  BY StoredTell DEF TypeInv, RowsInv, Acknowledged, AcknowledgedHasRow
<1> QED BY Typing, <1>1, PTL

LEMMA RowsUntouched ==
  ASSUME TypeInv, [Next]_vars
  PROVE  /\ removed \subseteq removed'
         /\ \A d \in Deliveries : Stored(d) =>
              /\ event'[d] = event[d] /\ message'[d] = message[d]
              /\ answer'[d] = answer[d]
<1> USE DEF TypeInv, TypeOK
<1>1. ASSUME NEW x \in Deliveries, Deliver(x)
      PROVE  /\ UNCHANGED <<removed, event, answer>>
             /\ \A d \in Deliveries : Stored(d) => message'[d] = message[d]
  BY <1>1, ConstantsAssumption DEF Deliver, RowsInv
<1>2. ASSUME NEW x \in Deliveries, Store(x)
      PROVE  /\ UNCHANGED <<removed, message>>
             /\ \A d \in Deliveries : Stored(d) =>
                  event'[d] = event[d] /\ answer'[d] = answer[d]
  BY <1>2 DEF Store, Inserting
<1>3. ASSUME NEW x \in Deliveries, Refuse(x)
      PROVE  /\ UNCHANGED <<removed, event, answer>>
             /\ \A d \in Deliveries : Stored(d) => message'[d] = message[d]
  BY <1>3 DEF Refuse, Inserting
<1>4. ASSUME NEW x \in Deliveries, Remove(x)
      PROVE  removed \subseteq removed' /\ UNCHANGED <<event, message, answer>>
  BY <1>4 DEF Remove
<1>5. \/ UNCHANGED <<removed, event, message, answer>>
      \/ \E x \in Deliveries : Deliver(x) \/ Store(x) \/ Refuse(x) \/ Remove(x)
  BY DEF Next, Tick, Open, FindMany, Count, AskAgain, vars, feed
<1> QED BY <1>1, <1>2, <1>3, <1>4, <1>5

(* No delivery changes what an earlier one stored.                         *)
THEOREM EventsAreForGood == Spec => RowsStand
<1>1. TypeInv /\ [Next]_vars =>
        [/\ removed \subseteq removed'
         /\ \A d \in Deliveries : Stored(d) =>
              /\ event'[d] = event[d] /\ message'[d] = message[d]
              /\ answer'[d] = answer[d]]_vars
  BY RowsUntouched
<1> QED BY Typing, <1>1, PTL DEF Spec, RowsStand

(* What a page holds was selected, and its type does not change.           *)
Selected ==
  \A q \in Readers : \A d \in listing[q].shown \union listing[q].data :
    Stored(d) /\ Selects(listing[q].filter, event[d].type)

LEMMA SelectedNext == TypeInv /\ Selected /\ [Next]_vars => Selected'
<1> SUFFICES ASSUME TypeInv, Selected, [Next]_vars PROVE Selected'
  OBVIOUS
<1>1. \A d \in Deliveries : Stored(d) => Stored(d)' /\ event'[d] = event[d]
  BY RowsUntouched DEF Stored
<1> USE DEF TypeInv, TypeOK
<1>2. ASSUME NEW q \in Readers
      PROVE  /\ listing[q] \in Listing
             /\ \A d \in listing[q].shown \union listing[q].data : d \in Deliveries
  BY DEF Listing
<1>3. ASSUME NEW q \in Readers,
             /\ listing'[q].filter = listing[q].filter
             /\ listing'[q].shown \union listing'[q].data
                  \subseteq listing[q].shown \union listing[q].data
      PROVE  \A d \in listing'[q].shown \union listing'[q].data :
               Stored(d)' /\ Selects(listing'[q].filter, event'[d].type)
  <2> SUFFICES ASSUME NEW d \in listing[q].shown \union listing[q].data
               PROVE  Stored(d)' /\ Selects(listing[q].filter, event'[d].type)
    BY <1>3
  <2>1. d \in Deliveries /\ Stored(d) /\ Selects(listing[q].filter, event[d].type)
    BY <1>2 DEF Selected
  <2> QED BY <1>1, <2>1
<1>4. ASSUME NEW q \in Readers, listing'[q].shown = {}, listing'[q].data = {}
      PROVE  \A d \in listing'[q].shown \union listing'[q].data :
               Stored(d)' /\ Selects(listing'[q].filter, event'[d].type)
  BY <1>4
<1>5. ASSUME NEW x \in Deliveries, Store(x) \/ Remove(x), NEW q \in Readers
      PROVE  /\ listing'[q].filter = listing[q].filter
             /\ listing'[q].shown \union listing'[q].data
                  \subseteq listing[q].shown \union listing[q].data
  <2>1. \/ listing'[q] = listing[q]
        \/ listing'[q] = [listing[q] EXCEPT !.arrived = @ \union {x}]
        \/ listing'[q] = [listing[q] EXCEPT !.left = @ \union {x}]
    BY <1>5 DEF Store, Remove
  <2> QED BY <1>2, <2>1 DEF Listing
<1>6. ASSUME NEW p \in Readers, Open(p), NEW q \in Readers
      PROVE  \/ listing'[q] = listing[q]
             \/ listing'[q].shown = {} /\ listing'[q].data = {}
  BY <1>6 DEF Open, NoListing
<1>7. ASSUME NEW p \in Readers, Count(p) \/ AskAgain(p), NEW q \in Readers
      PROVE  \/ listing'[q].shown = {} /\ listing'[q].data = {}
             \/ /\ listing'[q].filter = listing[q].filter
                /\ listing'[q].shown \union listing'[q].data
                     \subseteq listing[q].shown \union listing[q].data
  <2>1. \/ listing'[q] = listing[q] \/ listing'[q] = NoListing
        \/ listing'[q] = [listing[q] EXCEPT
             !.step = "find", !.page = NextPage(listing[q]), !.data = {},
             !.shown = @ \union listing[q].data]
        \/ listing'[q] = [listing[q] EXCEPT !.step = "find", !.data = {}]
    <3>1. p # q => listing'[q] = listing[q]
      BY <1>7 DEF Count, AskAgain
    <3>2. CASE p = q /\ Count(p)
      BY <3>2 DEF Count
    <3>3. CASE p = q /\ AskAgain(p)
      BY <3>3 DEF AskAgain
    <3> QED BY <1>7, <3>1, <3>2, <3>3
  <2>2. listing[q] \in Listing
    BY <1>2
  <2> HIDE DEF TypeOK, TypeInv
  <2>3. ASSUME listing'[q] = NoListing
        PROVE  listing'[q].shown = {} /\ listing'[q].data = {}
    BY <2>3 DEF NoListing
  <2> QED BY <2>1, <2>2, <2>3 DEF Listing
<1>8. ASSUME NEW p \in Readers, FindMany(p) PROVE Selected'
  <2>1. UNCHANGED event
    BY <1>8 DEF FindMany, feed
  <2>2. PICK ahead, S \in SUBSET Matches(listing[p]) :
          /\ Page(listing[p], ahead, S)
          /\ listing' = [listing EXCEPT ![p].step = "count", ![p].data = S]
    BY ONLY <1>8 DEF FindMany
  <2>3. /\ listing'[p].filter = listing[p].filter
        /\ listing'[p].shown = listing[p].shown /\ listing'[p].data = S
        /\ \A q \in Readers \ {p} : listing'[q] = listing[q]
    BY <1>2, <2>2 DEF Listing
  <2>4. \A d \in S : Stored(d) /\ Selects(listing[p].filter, event[d].type)
    BY DEF Matches, Live
  <2> QED BY <2>1, <2>3, <2>4 DEF Selected, Stored
<1>9. CASE UNCHANGED listing
  BY <1>3, <1>9 DEF Selected
<1> HIDE DEF TypeInv, TypeOK
<1> QED
  BY <1>3, <1>4, <1>5, <1>6, <1>7, <1>8, <1>9
     DEF Selected, Next, Tick, Deliver, Refuse, vars

(* On every page of every listing, while rows come and go.                 *)
THEOREM ListingsAnswerWhatWasAsked == Spec => []ListingsAnswerTheirFilter
<1>1. Init => Selected
  BY DEF Init, Selected, NoListing
<1>2. TypeInv /\ Selected => ListingsAnswerTheirFilter
  <2> SUFFICES ASSUME TypeInv, Selected, NEW q \in Readers,
                      NEW d \in listing[q].shown \union listing[q].data
               PROVE  Tells(d) /\ Selects(listing[q].filter, sent[message[d]].type)
    BY DEF ListingsAnswerTheirFilter
  <2>1. d \in Deliveries
    BY DEF TypeInv, TypeOK, Listing
  <2>2. Stored(d) /\ Selects(listing[q].filter, event[d].type)
    BY DEF Selected
  <2>3. Tells(d)
    BY <2>1, <2>2, StoredTell
  <2> QED BY <2>2, <2>3 DEF Tells
<1> QED BY Typing, SelectedNext, <1>1, <1>2, PTL DEF Spec
=============================================================================
