------------------------------- MODULE BotRun -------------------------------
(***************************************************************************)
(* One run, from the orders of its bots to the verdict on the contestant:  *)
(* the workers of the orchestrator (apps/bots), the contestant's engine,   *)
(* the bounded telemetry channel, its publisher, the topic telemetry.raw,  *)
(* and the fill list of the run's window in the ingester with the          *)
(* validator that judges it.                                               *)
(*                                                                         *)
(* The engine is the contestant's, and external: here it is a correct one, *)
(* which matches an order against what rests and crosses, and rests what   *)
(* is left.  What it does with quantities is left open: a match may leave  *)
(* what it hit, or a rest of the order that hit.                           *)
(*                                                                         *)
(* An order is named by its place among the SentAtNs stamps of the run.    *)
(* Its answer may be lost, come too late or be cut off, and the engine may *)
(* get the order long after the client gave it up, or never.  An order and *)
(* its answer are one step: when the answer arrives makes no difference to *)
(* the engine, and its worker may take any time to go on.                  *)
(*                                                                         *)
(* The service runs on: what its end does to a run is in BotFleet.         *)
(***************************************************************************)
EXTENDS FillValidator, FiniteSets

CONSTANTS
    Bots,          \* the workers of the run
    MaxOrders,     \* bound: orders sent in the run
    Drawn,         \* bound: what Generate draws but the id: a type, a side and a price
    ChannelCap,    \* the capacity of telemetryCh, 1000
    MaxFaults      \* bound: answers and events that do not arrive as they were sent

ASSUME ConstantsAssumption ==
    /\ MaxOrders \in Nat
    /\ Drawn \subseteq [type : Types, side : Sides, price : Nat]
    /\ ChannelCap \in Nat
    /\ MaxFaults \in Nat

VARIABLES
    orders,      \* the orders stamped so far, in the order of their stamps
    bot,         \* what a worker is doing, and with which order
    overdue,     \* orders reported as rejected that the engine may get yet
    resting,     \* limit orders that rest in the engine's book
    hit,         \* the resting order that an order was reported to have traded with
    answer,      \* what the telemetry of an order says
    channel,     \* telemetryCh
    closed,      \* it is closed
    topic,       \* events in telemetry.raw, in whichever partition
    missed       \* events that the asynchronous writer lost

pathVars == <<channel, closed, topic, missed>>
vars == <<orders, bot, overdue, resting, hit, answer, pathVars>>

At(b) == bot[b].at
Doing(at, n) == [at |-> at, order |-> n]

Init ==
    /\ orders = <<>>
    /\ bot = [b \in Bots |-> Doing("idle", 0)]
    /\ overdue = {} /\ resting = {}
    /\ hit = <<>>
    /\ answer = <<>>
    /\ channel = <<>> /\ closed = FALSE
    /\ topic = {} /\ missed = {}

---------------------------------------------------------------------------
(* A worker *)

\* Generate draws a fresh id; the eight characters kept of it may be those of an
\* earlier order, which matters to a cancel.
Generate(b) ==
    LET n == Len(orders) + 1
        draws == {d \in Drawn \X (1..n) : d[1].type = "cancel" \/ d[2] = n}
    IN {[type |-> d[1].type, side |-> d[1].side, price |-> d[1].price, id |-> d[2], bot |-> b] :
           d \in draws}

\* A tick: the order is stamped, and the request goes out.
SendOrder(b) ==
    /\ At(b) = "idle"
    /\ Len(orders) < MaxOrders
    /\ \E o \in Generate(b) : orders' = Append(orders, o)
    /\ bot' = [bot EXCEPT ![b] = Doing("calling", Len(orders) + 1)]
    /\ hit' = Append(hit, 0)
    /\ answer' = Append(answer, "none")
    /\ UNCHANGED <<overdue, resting, pathVars>>

\* The event is made, and the worker goes on to hand it to the channel.
Report(b, a, x) ==
    /\ At(b) = "calling"
    /\ answer' = [answer EXCEPT ![bot[b].order] = a]
    /\ hit' = [hit EXCEPT ![bot[b].order] = x]
    /\ bot' = [bot EXCEPT ![b].at = "sending"]
    /\ UNCHANGED <<orders, pathVars>>

\* Answers that are not the engine's, and events that were lost.
Faults ==
    Cardinality({n \in DOMAIN orders : \/ n \in missed
                                       \/ answer[n] = "rejected"
                                       \/ answer[n] = "filled" /\ hit[n] = 0})

\* What an order may trade with.
Crossing(o) ==
    {x \in resting : /\ orders[x].side # o.side
                     /\ o.type = "market" \/ Crosses(o.side, o.price, orders[x].price)}

\* The engine matches order n as a correct one does: x is what it traded with first,
\* or 0.
Match(n, x) ==
    LET o == orders[n]
        found == {y \in resting : orders[y].id = o.id}
    IN
    \/ /\ o.type = "cancel" /\ x = 0
       /\ IF found = {} THEN UNCHANGED resting
          ELSE \E y \in found : resting' = resting \ {y}
    \/ /\ o.type # "cancel" /\ Crossing(o) = {} /\ x = 0
       /\ resting' = IF o.type = "limit" THEN resting \cup {n} ELSE resting
    \/ /\ o.type # "cancel" /\ x \in Crossing(o)
       /\ \/ \E gone \in SUBSET Crossing(o) : resting' = resting \ gone
          \/ o.type = "limit" /\ resting' = (resting \ Crossing(o)) \cup {n}

\* The answer arrives whole; or its body does not decode or has no correct_fill, which
\* counts as a fill.
Answered(b) ==
    \E x \in {0} \cup resting :
       /\ At(b) = "calling"
       /\ Match(bot[b].order, x)
       /\ \/ Report(b, IF x > 0 THEN "filled" ELSE "unfilled", x)
          \/ Faults < MaxFaults /\ Report(b, "filled", x)
       /\ UNCHANGED overdue

\* An error, a timeout, a status of 400 or more, or "rejected": the engine may get the
\* order yet, or never.
Refused(b) ==
    /\ Faults < MaxFaults
    /\ Report(b, "rejected", 0)
    /\ overdue' = overdue \cup {bot[b].order}
    /\ UNCHANGED resting

\* The engine gets an order that nobody waits for.
MatchOverdue(n) ==
    /\ n \in overdue
    /\ overdue' = overdue \ {n}
    /\ \E x \in {0} \cup resting : Match(n, x)
    /\ UNCHANGED <<orders, bot, hit, answer, pathVars>>

Deliver_OrDrop(b) ==     \* mutant: the select has a default, a full channel drops the event
    /\ At(b) = "sending"
    /\ channel' = IF Len(channel) < ChannelCap THEN Append(channel, bot[b].order) ELSE channel
    /\ bot' = [bot EXCEPT ![b] = Doing("idle", 0)]
    /\ UNCHANGED <<orders, overdue, resting, hit, answer, closed, topic, missed>>

Deliver_Unbounded(b) ==     \* mutant: the channel is a list that grows
    /\ At(b) = "sending"
    /\ channel' = Append(channel, bot[b].order)
    /\ bot' = [bot EXCEPT ![b] = Doing("idle", 0)]
    /\ UNCHANGED <<orders, overdue, resting, hit, answer, closed, topic, missed>>

\* The channel has room.
Deliver(b) ==
    /\ At(b) = "sending"
    /\ Len(channel) < ChannelCap
    /\ channel' = Append(channel, bot[b].order)
    /\ bot' = [bot EXCEPT ![b] = Doing("idle", 0)]
    /\ UNCHANGED <<orders, overdue, resting, hit, answer, closed, topic, missed>>

\* A tick from after the end of the run.
Return(b) ==
    /\ At(b) = "idle"
    /\ bot' = [bot EXCEPT ![b] = Doing("done", 0)]
    /\ UNCHANGED <<orders, overdue, resting, hit, answer, pathVars>>

---------------------------------------------------------------------------
(* From the channel to the window *)

Publish_StopsOnError ==     \* mutant: the goroutine returns when WriteMessages fails
    /\ channel # <<>> /\ missed = {}
    /\ channel' = Tail(channel)
    /\ \/ /\ topic' = topic \cup {Head(channel)}
          /\ UNCHANGED missed
       \/ /\ Faults < MaxFaults
          /\ missed' = missed \cup {Head(channel)}
          /\ UNCHANGED topic
    /\ UNCHANGED <<orders, bot, overdue, resting, hit, answer, closed>>

\* The publisher writes the next event, to any partition, and does not learn whether it
\* arrived.
Publish ==
    /\ channel # <<>>
    /\ channel' = Tail(channel)
    /\ \/ /\ topic' = topic \cup {Head(channel)}
          /\ UNCHANGED missed
       \/ /\ Faults < MaxFaults
          /\ missed' = missed \cup {Head(channel)}
          /\ UNCHANGED topic
    /\ UNCHANGED <<orders, bot, overdue, resting, hit, answer, closed>>

\* wg.Wait returns: every worker has, and the channel is closed.
Close ==
    /\ ~ closed
    /\ \A b \in Bots : At(b) = "done"
    /\ closed' = TRUE
    /\ UNCHANGED <<orders, bot, overdue, resting, hit, answer, channel, topic, missed>>

---------------------------------------------------------------------------
Worker(b) == SendOrder(b) \/ Answered(b) \/ Refused(b) \/ Deliver(b) \/ Return(b)

Next ==
    \/ \E b \in Bots : Worker(b)
    \/ \E n \in overdue : MatchOverdue(n)
    \/ Publish
    \/ Close

Spec == Init /\ [][Next]_vars

\* The client's timeout ends a request, answered or not.
RequestEnds(b) == At(b) = "calling" /\ bot' = [bot EXCEPT ![b].at = "sending"]

\* Requests time out, the end of the run comes, and the goroutines of the service run.
Fairness ==
    /\ \A b \in Bots : WF_bot(RequestEnds(b)) /\ WF_vars(Deliver(b)) /\ WF_vars(Return(b))
    /\ WF_vars(Publish) /\ WF_vars(Close)

FairSpec == Spec /\ Fairness

---------------------------------------------------------------------------
(* Properties *)

\* The events of the window that are on its fill list: a rejected order is not.
Listed == {n \in topic : answer[n] # "rejected"}

\* The fill list, the events having been received in this order.
fills(received) ==
    [i \in DOMAIN received |->
       LET o == orders[received[i]] IN
       [id |-> o.id, side |-> o.side, type |-> o.type, price |-> o.price,
        sentAt |-> received[i], filled |-> answer[received[i]] = "filled"]]

TypeOK ==
    /\ Len(orders) <= MaxOrders
    /\ \A n \in DOMAIN orders :
          orders[n] \in [type : Types, id : 1..n, side : Sides, price : Nat, bot : Bots]
    /\ bot \in [Bots -> [at : {"idle", "calling", "sending", "done"}, order : 0..Len(orders)]]
    /\ overdue \cup resting \cup missed \subseteq DOMAIN orders
    /\ hit \in [DOMAIN orders -> 0..Len(orders)]
    /\ answer \in [DOMAIN orders -> {"none", "filled", "unfilled", "rejected"}]
    /\ Len(channel) <= ChannelCap
    /\ ToSet(channel) \cup topic \subseteq DOMAIN orders
    /\ closed \in BOOLEAN

\* A fill that a correct engine made and the ingester judges wrong has a cause other than
\* the engine: the order it traded with has no event in the window (lost, late or
\* rejected), or was stamped later, by another bot, and overtook; or a cancel that shares
\* its id took it from the replay's book.  In particular a run of one bot whose events all
\* arrive has none (validator.go:31-105, orderbook.go:29-86, bot.go:37-97, window.go:95-106).
WrongFillsHaveACause ==
    \A received \in SetToSeqs(Listed) :
        LET list == fills(received)
            On(n) == \E i \in DOMAIN list : list[i].sentAt = n
            Wrong(e) == e.filled /\ e.sentAt \notin Validate(list).correct
        IN \A i \in DOMAIN list :
              LET e == list[i]
                  x == hit[e.sentAt]
              IN x > 0 /\ Wrong(e) =>
                    \/ ~ On(x)
                    \/ x > e.sentAt /\ orders[x].bot # orders[e.sentAt].bot
                    \/ \E j \in DOMAIN list : /\ list[j].type = "cancel"
                                              /\ list[j].id = orders[x].id
                                              /\ list[j].sentAt \in x..e.sentAt

\* The first level of each side of the replay's book is its best price, and offers an
\* order, whatever was added and removed: BestBid and BestAsk look no further
\* (orderbook.go:37-86).
FirstLevelIsBest ==
    LET book == Validate(fills(SetToSeq(Listed))).book IN
    \A side \in Sides : \A i \in DOMAIN book[side] :
        /\ book[side][i].orders # <<>>
        /\ i > 1 => Prefers(Other(side), book[side][1].price, book[side][i].price)

\* The event of every order is in exactly one place: with its worker, in the channel, in
\* the topic, or lost by the writer; a full channel holds its worker up instead
\* (orchestrator.go:58-63, publisher/kafka.go:30-57).
EventsAreConserved ==
    LET busy == {b \in Bots : At(b) \in {"calling", "sending"}}
    IN /\ {bot[b].order : b \in busy} \cup ToSet(channel) \cup topic \cup missed
            = DOMAIN orders
       /\ Cardinality(busy) + Len(channel) + Cardinality(topic) + Cardinality(missed) = Len(orders)

\* The run ends: its workers return, the channel is closed after the last of them, and
\* the publisher drains it and returns, so that the run gives its slot back and leaves no
\* goroutine behind (orchestrator.go:69, consumer/kafka.go:100-109, publisher/kafka.go:40).
RunDrains == <>[](closed /\ channel = <<>>)
=============================================================================
