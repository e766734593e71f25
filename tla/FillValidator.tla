--------------------------- MODULE FillValidator ---------------------------
(***************************************************************************)
(* The order book and the fill validator of the ingester                   *)
(* (apps/ingester/internal/correctness): Validate replays the orders of a  *)
(* run in the order in which they were sent, and judges every fill that    *)
(* was reported, and every market order, against the book of that replay.  *)
(* Nothing ever leaves that book by a fill: only a cancel removes.         *)
(*                                                                         *)
(* A book is kept per symbol, and the books do not meet: one symbol stands *)
(* for all.  Of a resting order, its id and price are used; quantities     *)
(* never are.                                                              *)
(***************************************************************************)
EXTENDS Integers, SequencesExt

Types == {"limit", "market", "cancel"}
Sides == {"buy", "sell"}
Other(side) == IF side = "buy" THEN "sell" ELSE "buy"

\* A price that an order of this side prefers to find in the book.
Prefers(side, p, q) == IF side = "buy" THEN p < q ELSE p > q

\* An order of this side and price may trade with one resting at price q.
Crosses(side, price, q) == price = q \/ Prefers(side, q, price)

\* sort.Slice: the elements in an order in which none comes before a smaller one.
Sort(s, less(_,_)) ==
    LET p == CHOOSE p \in [DOMAIN s -> DOMAIN s] :
                \A i, j \in DOMAIN s : i < j => p[i] # p[j] /\ ~less(s[p[j]], s[p[i]])
    IN [i \in DOMAIN s |-> s[p[i]]]

---------------------------------------------------------------------------
(* OrderBook: for each side, the price levels, best first *)

EmptyBook == [side \in Sides |-> <<>>]

insertLevel_AtTheEnd(levels, id, price, side) ==     \* mutant: a new level is not sorted in
    LET i == SelectInSeq(levels, LAMBDA l : l.price = price)
    IN IF i # 0 THEN [levels EXCEPT ![i].orders = Append(@, id)]
       ELSE Append(levels, [price |-> price, orders |-> <<id>>])

insertLevel(levels, id, price, side) ==
    LET i == SelectInSeq(levels, LAMBDA l : l.price = price)
    IN IF i # 0 THEN [levels EXCEPT ![i].orders = Append(@, id)]
       ELSE Sort(Append(levels, [price |-> price, orders |-> <<id>>]),
                 LAMBDA l, m : Prefers(Other(side), l.price, m.price))

removeFromLevels(levels, id) ==
    LET i == SelectInSeq(levels, LAMBDA l : Contains(l.orders, id))
    IN IF i = 0 THEN levels
       ELSE IF Len(levels[i].orders) = 1 THEN RemoveAt(levels, i)
       ELSE [levels EXCEPT ![i].orders = RemoveFirst(@, id)]

AddLimit(book, e) ==
    [book EXCEPT ![e.side] = insertLevel(@, e.id, e.price, e.side)]

\* Both sides are searched, whatever the side of the cancel.
RemoveOrder(book, id) == [side \in Sides |-> removeFromLevels(book[side], id)]

hasLiquidity(book, side) == book[Other(side)] # <<>>

shouldFill(book, e) ==
    /\ hasLiquidity(book, e.side)
    /\ Crosses(e.side, e.price, book[Other(e.side)][1].price)

---------------------------------------------------------------------------
(* Validate *)

\* One turn of the loop, on the book and the events counted and judged correct.
Judge(v, e) ==
    CASE e.type = "limit" ->
           LET book == AddLimit(v.book, e) IN
           [book    |-> book,
            total   |-> IF e.filled THEN v.total \cup {e.sentAt} ELSE v.total,
            correct |-> IF e.filled /\ shouldFill(book, e) THEN v.correct \cup {e.sentAt}
                        ELSE v.correct]
      [] e.type = "market" ->
           [v EXCEPT !.total = @ \cup {e.sentAt},
                     !.correct = IF e.filled <=> hasLiquidity(v.book, e.side)
                                 THEN @ \cup {e.sentAt} ELSE @]
      [] e.type = "cancel" ->
           [v EXCEPT !.book = RemoveOrder(@, e.id)]

\* The loop: what it has come to after each of the events.
Replay(events) ==
    LET v[n \in 0..Len(events)] ==
            IF n = 0 THEN [book |-> EmptyBook, total |-> {}, correct |-> {}]
            ELSE Judge(v[n-1], events[n])
    IN v

Validate_AsReceived(events) ==     \* mutant: the events are not sorted first
    Replay(events)[Len(events)]

\* The ratio of correct to total, or 1 if nothing counts, is the correctness of the run.
Validate(events) ==
    Replay(Sort(events, LAMBDA e, f : e.sentAt < f.sentAt))[Len(events)]
=============================================================================
