------------------------------ MODULE EventFeed -------------------------------
(***************************************************************************)
(* The events of one tenant: messages arrive, by POST /events or from the  *)
(* event bus, more than once if an answer was lost, late and in any order, *)
(* while readers list the events page by page, all of them or those of one *)
(* type.  Each statement is one action; the two of a page are sent in one  *)
(* $transaction, which PostgreSQL runs READ COMMITTED: each sees the table *)
(* of its own moment.                                                      *)
(***************************************************************************)
EXTENDS Integers, FiniteSets

CONSTANTS Messages,    \* what other services have to report
          Deliveries,  \* attempts to store one; also the id of its row
          Types,       \* event types
          Readers,     \* clients that list events
          Limits,      \* page sizes they ask for
          MaxTime,     \* bound on the clock
          Failures,    \* whether statements may fail and answers be lost
          NoMessage, NoRow, Every

ASSUME ConstantsAssumption ==
  /\ Limits \subseteq Nat \ {0}
  /\ MaxTime \in Nat
  /\ Failures \in BOOLEAN
  /\ NoMessage \notin Messages
  /\ Every \notin Types
  /\ NoRow \notin [stamp: Nat, type: Types]
  /\ IsFiniteSet(Deliveries)

(* A POST carries no time: at counts for the bus alone. *)
Message == [via: {"post"}, at: {0}, type: Types]
             \union [via: {"bus"}, at: 0..MaxTime, type: Types]
Row == [stamp: Nat, type: Types]

VARIABLES
  now,      \* the clock of the database
  sent,     \* the messages
  event,    \* table Event; a row that is removed stays here
  removed,  \* the rows that are removed
  message, answer,  \* per delivery
  listing   \* per reader

feed == <<sent, event, removed, message, answer>>
vars == <<now, feed, listing>>

(* What a reader has asked for and the rows found for its page; and, only  *)
(* recorded: deliveries answered before it began, rows stored and removed  *)
(* since, rows it was shown.                                               *)
Listing == [step: {"idle", "find", "count"}, filter: Types \union {Every},
            limit: Nat, page: Nat, data: SUBSET Deliveries,
            acked: SUBSET Deliveries, arrived: SUBSET Deliveries,
            left: SUBSET Deliveries, shown: SUBSET Deliveries]
NoListing == [step |-> "idle", filter |-> Every, limit |-> 0, page |-> 0,
              data |-> {}, acked |-> {}, arrived |-> {}, left |-> {},
              shown |-> {}]

Stored(d) == event[d] # NoRow
Live(d) == Stored(d) /\ d \notin removed
Selects(f, type) == f = Every \/ f = type
Matches(l) == {d \in Deliveries : Live(d) /\ Selects(l.filter, event[d].type)}

Init ==
  /\ now = 0
  /\ sent \in [Messages -> Message]
  /\ event = [d \in Deliveries |-> NoRow]
  /\ removed = {}
  /\ message = [d \in Deliveries |-> NoMessage]
  /\ answer = [d \in Deliveries |-> "none"]
  /\ listing = [q \in Readers |-> NoListing]

----------------------------------------------------------------------------
Tick ==
  /\ now < MaxTime
  /\ now' = now + 1
  /\ UNCHANGED <<feed, listing>>

(* A message is delivered until a delivery of it is answered; a second one *)
(* may start while the first is under way.                                 *)
Acknowledged(m) == \E d \in Deliveries : message[d] = m /\ answer[d] = "done"
Deliver(d) ==
  /\ message[d] = NoMessage
  /\ \E m \in Messages :
       /\ ~Acknowledged(m)
       /\ message' = [message EXCEPT ![d] = m]
  /\ UNCHANGED <<now, sent, event, removed, answer, listing>>

(* Operators named Bad... are slips this code could have made; nothing     *)
(* uses them, each breaks some property below.                             *)
BadStamp(m) == now                 \* the bus's timestamp dropped
BadTime(m) == IF sent[m].via = "bus" THEN sent[m].at ELSE -1  \* no default
(* ingestEvent of the repository keeps the time the bus gives; that of the *)
(* service has none and the column defaults to now().                      *)
Stamp(m) == IF sent[m].via = "bus" THEN sent[m].at ELSE now
NewRow(m) == [stamp |-> Stamp(m), type |-> sent[m].type]

Inserting(d) == message[d] # NoMessage /\ ~Stored(d)

(* The insert is answered, or the answer is lost.                          *)
Store(d) ==
  /\ Inserting(d)
  /\ event' = [event EXCEPT ![d] = NewRow(message[d])]
  /\ \E a \in {"done"} \union (IF Failures THEN {"lost"} ELSE {}) :
       answer' = [answer EXCEPT ![d] = a]
  /\ listing' = [q \in Readers |->
       IF listing[q].step = "idle" THEN listing[q]
       ELSE [listing[q] EXCEPT !.arrived = @ \union {d}]]
  /\ UNCHANGED <<now, sent, removed, message>>

(* The insert is refused, or the process ends before it: nothing is left.  *)
Refuse(d) ==
  /\ Failures
  /\ Inserting(d)
  /\ message' = [message EXCEPT ![d] = NoMessage]
  /\ UNCHANGED <<now, sent, event, removed, answer, listing>>

(* eventRepository.delete *)
Remove(d) ==
  /\ Live(d)
  /\ removed' = removed \union {d}
  /\ listing' = [q \in Readers |->
       IF listing[q].step = "idle" THEN listing[q]
       ELSE [listing[q] EXCEPT !.left = @ \union {d}]]
  /\ UNCHANGED <<now, sent, event, message, answer>>

Open(q) ==
  /\ listing[q].step = "idle"
  /\ \E f \in Types \union {Every}, n \in Limits :
       listing' = [listing EXCEPT ![q] =
         [NoListing EXCEPT
            !.step = "find", !.filter = f, !.limit = n, !.page = 1,
            !.acked = {d \in Deliveries :
              answer[d] = "done" /\ Selects(f, sent[message[d]].type)}]]
  /\ UNCHANGED <<now, feed>>

(* ORDER BY timestamp DESC, skip, take: rows of one timestamp come in any  *)
(* order, which need not be that of the page before.                       *)
NotBefore(A, B) == \A a \in A, b \in B : event[a].stamp >= event[b].stamp
Smaller(m, n) == IF m < n THEN m ELSE n
Skip(l) == (l.page - 1) * l.limit
Page(l, ahead, S) ==
  LET total == Cardinality(Matches(l))
  IN  /\ ahead \intersect S = {}
      /\ Cardinality(ahead) = Smaller(Skip(l), total)
      /\ Cardinality(S) = Smaller(l.limit, total - Cardinality(ahead))
      /\ NotBefore(ahead, Matches(l) \ ahead)
      /\ NotBefore(S, Matches(l) \ (ahead \union S))

FindMany(q) ==
  /\ listing[q].step = "find"
  /\ \E ahead, S \in SUBSET Matches(listing[q]) :
       /\ Page(listing[q], ahead, S)
       /\ listing' = [listing EXCEPT ![q].step = "count", ![q].data = S]
  /\ UNCHANGED <<now, feed>>

BadTotal(l) == Cardinality(l.acked)     \* counted once, when it began
Total(l) == Cardinality(Matches(l))
BadHasMore(l) == Skip(l) + l.limit <= Total(l)
(* page * limit < total; getEventsByType has skip + limit < total.         *)
HasMore(l) == Skip(l) + l.limit < Total(l)
BadNextPage(l) == l.page
NextPage(l) == l.page + 1

(* The count completes the answer; a client that is told there is more     *)
(* asks for the next page.                                                 *)
Count(q) ==
  LET l == listing[q]
  IN  /\ l.step = "count"
      /\ listing' = [listing EXCEPT ![q] =
           IF HasMore(l)
           THEN [l EXCEPT !.step = "find", !.page = NextPage(l), !.data = {},
                          !.shown = @ \union l.data]
           ELSE NoListing]
      /\ UNCHANGED <<now, feed>>

(* A statement fails or the answer is lost: the client asks for the page   *)
(* again.                                                                  *)
AskAgain(q) ==
  /\ Failures
  /\ listing[q].step = "count"
  /\ listing' = [listing EXCEPT ![q].step = "find", ![q].data = {}]
  /\ UNCHANGED <<now, feed>>

Next ==
  \/ Tick
  \/ \E d \in Deliveries : Deliver(d) \/ Store(d) \/ Refuse(d) \/ Remove(d)
  \/ \E q \in Readers : Open(q) \/ FindMany(q) \/ Count(q) \/ AskAgain(q)

Spec == Init /\ [][Next]_vars

----------------------------------------------------------------------------
(* The table, the deliveries and the listings keep their types. *)
TypeOK ==
  /\ now \in Nat
  /\ sent \in [Messages -> Message]
  /\ event \in [Deliveries -> Row \union {NoRow}]
  /\ removed \subseteq Deliveries
  /\ message \in [Deliveries -> Messages \union {NoMessage}]
  /\ answer \in [Deliveries -> {"none", "done", "lost"}]
  /\ listing \in [Readers -> Listing]

(* What may disturb the place of row d in a listing: another row of the    *)
(* same time, or one not older that came, or went, meanwhile.              *)
Tied(d) == \E x \in Deliveries \ {d} :
             Stored(x) /\ event[x].stamp = event[d].stamp
Above(D, d) == \E x \in D : event[x].stamp >= event[d].stamp

(* A listing that ends has answered every event whose delivery had been    *)
(* answered when it began, whatever is stored between its statements: it   *)
(* misses one only for a removal or a tie.                                 *)
Ends(q) == listing[q].step = "count" /\ listing'[q].step = "idle"
ListingIsComplete ==
  [][\A q \in Readers : Ends(q) =>
       \A d \in listing[q].acked :
         \/ d \in listing[q].shown \union listing[q].data \union removed
         \/ Tied(d) \/ Above(listing[q].left, d)]_vars

(* A page repeats a row shown before only for a tie or because a row not   *)
(* older arrived meanwhile; removals never make a listing repeat one.      *)
RepeatsAreShifts ==
  \A q \in Readers : \A d \in listing[q].data \intersect listing[q].shown :
    Tied(d) \/ Above(listing[q].arrived, d)

(* However late, out of order or often the bus delivers, a listing answers *)
(* what it reported in the order it occurred, newest first: of two events  *)
(* there when it began, the one shown first is not the older one, unless a *)
(* tie or a removal has moved the pages.                                   *)
FromBus(d) == message[d] # NoMessage /\ sent[message[d]].via = "bus"
ListingIsOrdered ==
  \A q \in Readers :
    \A c \in listing[q].shown, d \in listing[q].data \ listing[q].shown :
      {c, d} \subseteq listing[q].acked /\ FromBus(c) /\ FromBus(d) =>
        \/ sent[message[c]].at >= sent[message[d]].at
        \/ Tied(d) \/ Above(listing[q].left, d)

(* A reader that follows hasMore makes no endless or empty trip: it asks   *)
(* for a further page only while the pages before it cannot have held all  *)
(* the rows there ever were.                                               *)
PagesAreEarned ==
  \A q \in Readers : listing[q].page > 1 =>
    (listing[q].page - 1) * listing[q].limit
      < Cardinality({d \in Deliveries : Stored(d)})

============================================================================
