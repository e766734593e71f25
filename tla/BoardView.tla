----------------------------- MODULE BoardView -----------------------------
(***************************************************************************)
(* How a browser comes to show the leaderboard: the consumer of            *)
(* score.updated, which writes to Redis and then broadcasts; the hub       *)
(* (apps/leaderboard/internal/hub), whose one goroutine owns the set of    *)
(* clients; the websocket handler (apps/leaderboard/cmd/main.go), which    *)
(* registers a connection, sends it a snapshot and starts its writer and   *)
(* its reader; and the hook (useLeaderboard.ts) that applies what arrives. *)
(*                                                                         *)
(* A score with its metrics is named by the run that earned it.  The       *)
(* channels Register and Unregister are unbuffered: a send on them is one  *)
(* step with the hub's receive.  Contestants are fewer than 50, so that    *)
(* Top50 returns them all, and a connection that the browser opens after   *)
(* one was closed is another member of Conns: the entries of the old one   *)
(* last until the snapshot of the new one replaces them.                   *)
(***************************************************************************)
EXTENDS Integers, Sequences

CONSTANTS
    Runs,            \* the runs of score.updated
    Contestants,
    ContestantOf,
    Conns,           \* the connections, each with its hub.Client
    SendCap,         \* capacity of Client.Send (256)
    BroadcastCap,    \* capacity of Hub.Broadcast (256)
    None

ASSUME ConstantsAssumption ==
    /\ ContestantOf \in [Runs -> Contestants]
    /\ SendCap \in Nat \ {0}
    /\ BroadcastCap \in Nat \ {0}
    /\ None \notin Runs \cup [run : Runs, next : {"update", "broadcast"}]

\* What a row shows: the run its score is of, and the run its metrics are of.
Row(score, metrics) == [score |-> score, metrics |-> metrics]

VARIABLES
    taken,       \* runs the consumer has read
    handling,    \* the run it is at, and the call it makes next
    board,       \* the run written to Redis last, for each contestant
    stale,       \* contestants whose last UpdateScore failed (history)
    broadcast,   \* Hub.Broadcast
    clients,     \* Hub.clients
    handler,     \* how far the handler of each connection is
    ranged,      \* the scores it has read for the snapshot
    snapshot,    \* connections whose snapshot was read and written whole (history)
    send,        \* Client.Send
    closes,      \* how often Client.Send was closed
    dropping,    \* goroutines blocked on Unregister for a slow client
    missed,      \* connections that were not sent a message (history)
    writer,      \* the writer goroutine of each connection
    reader,      \* its reader goroutine
    view         \* entries of the hook

consumerVars == <<taken, handling, board, stale>>
hubVars == <<clients, closes, dropping, missed>>
connVars == <<handler, ranged, snapshot, writer, reader, view>>
vars == <<consumerVars, broadcast, hubVars, send, connVars>>

Nothing == [c \in Contestants |-> None]

Init ==
    /\ taken = {} /\ handling = None /\ board = Nothing /\ stale = {}
    /\ broadcast = <<>>
    /\ clients = {} /\ closes = [k \in Conns |-> 0] /\ dropping = [k \in Conns |-> 0]
    /\ missed = {}
    /\ send = [k \in Conns |-> <<>>]
    /\ handler = [k \in Conns |-> "new"] /\ ranged = [k \in Conns |-> Nothing]
    /\ snapshot = {}
    /\ writer = [k \in Conns |-> "off"] /\ reader = [k \in Conns |-> "off"]
    /\ view = [k \in Conns |-> Nothing]

---------------------------------------------------------------------------
(* The consumer *)

ReadScore(r) ==
    /\ handling = None /\ r \notin taken
    /\ taken' = taken \cup {r}
    /\ handling' = [run |-> r, next |-> "update"]
    /\ UNCHANGED <<board, stale, broadcast, hubVars, send, connVars>>

\* UpdateScore, whose error is logged.
UpdateScore(ok) ==
    /\ handling # None /\ handling.next = "update"
    /\ LET c == ContestantOf[handling.run] IN
        /\ board' = IF ok THEN [board EXCEPT ![c] = handling.run] ELSE board
        /\ stale' = IF ok THEN stale \ {c} ELSE stale \cup {c}
    /\ handling' = [handling EXCEPT !.next = "broadcast"]
    /\ UNCHANGED <<taken, broadcast, hubVars, send, connVars>>

\* BroadcastJSON, which blocks while the channel is full.
BroadcastJSON ==
    /\ handling # None /\ handling.next = "broadcast"
    /\ Len(broadcast) < BroadcastCap
    /\ broadcast' = Append(broadcast, handling.run)
    /\ handling' = None
    /\ UNCHANGED <<taken, board, stale, hubVars, send, connVars>>

---------------------------------------------------------------------------
(* The handler *)

\* The browser connects, and the handler is about to register the connection.
Connect(k) ==
    /\ handler[k] = "new"
    /\ handler' = [handler EXCEPT ![k] = "upgraded"]
    /\ UNCHANGED <<consumerVars, broadcast, hubVars, send, ranged, snapshot, writer, reader, view>>

\* Mutant: the writer starts with the registration, ahead of the snapshot.
Register_Writing(k) ==
    /\ handler[k] = "upgraded"
    /\ handler' = [handler EXCEPT ![k] = "registered"]
    /\ clients' = clients \cup {k}
    /\ writer' = [writer EXCEPT ![k] = "writing"]
    /\ UNCHANGED <<consumerVars, broadcast, closes, dropping, missed, send, ranged, snapshot,
                   reader, view>>

\* h.Register <- client, and its case of the hub.
Register(k) ==
    /\ handler[k] = "upgraded"
    /\ handler' = [handler EXCEPT ![k] = "registered"]
    /\ clients' = clients \cup {k}
    /\ UNCHANGED <<consumerVars, broadcast, closes, dropping, missed, send, ranged, snapshot,
                   writer, reader, view>>

StartGoroutines(k) ==
    /\ handler' = [handler EXCEPT ![k] = "done"]
    /\ writer' = [writer EXCEPT ![k] = "writing"]
    /\ reader' = [reader EXCEPT ![k] = "reading"]

\* Top50, the range over the scores.  On an error there is no snapshot.
RangeScores(k, ok) ==
    /\ handler[k] = "registered"
    /\ IF ok
       THEN /\ ranged' = [ranged EXCEPT ![k] = board]
            /\ handler' = [handler EXCEPT ![k] = "ranged"]
            /\ UNCHANGED <<writer, reader>>
       ELSE UNCHANGED ranged /\ StartGoroutines(k)
    /\ UNCHANGED <<consumerVars, broadcast, hubVars, send, snapshot, view>>

\* Mutant: the snapshot has a row for a contestant without a score.
SendSnapshot_All(k, read, written) ==
    /\ handler[k] = "ranged"
    /\ view' = IF written
               THEN [view EXCEPT ![k] = [c \in Contestants |->
                                           Row(ranged[k][c], IF read THEN board[c] ELSE None)]]
               ELSE view
    /\ snapshot' = IF read /\ written THEN snapshot \cup {k} ELSE snapshot
    /\ StartGoroutines(k)
    /\ UNCHANGED <<consumerVars, broadcast, hubVars, send, ranged>>

\* Top50, the metrics of the contestants found, whose errors leave them empty, and the
\* write of the snapshot, which replaces the entries of the hook.
SendSnapshot(k, read, written) ==
    /\ handler[k] = "ranged"
    /\ view' = IF written
               THEN [view EXCEPT ![k] =
                       [c \in Contestants |->
                          IF ranged[k][c] = None THEN None
                          ELSE Row(ranged[k][c], IF read THEN board[c] ELSE None)]]
               ELSE view
    /\ snapshot' = IF read /\ written THEN snapshot \cup {k} ELSE snapshot
    /\ StartGoroutines(k)
    /\ UNCHANGED <<consumerVars, broadcast, hubVars, send, ranged>>

---------------------------------------------------------------------------
(* The hub *)

\* Mutant: a slow client is passed over, and stays.
Deliver_PassOver ==
    /\ broadcast # <<>>
    /\ broadcast' = Tail(broadcast)
    /\ LET slow == {k \in clients : Len(send[k]) >= SendCap} IN
        /\ send' = [k \in Conns |-> IF k \in clients \ slow THEN Append(send[k], Head(broadcast))
                                    ELSE send[k]]
        /\ missed' = missed \cup slow
    /\ UNCHANGED <<consumerVars, clients, closes, dropping, connVars>>

\* The case of Broadcast: a client whose channel is full is not sent the message, and a
\* goroutine of its own waits to unregister it.
Deliver ==
    /\ broadcast # <<>>
    /\ broadcast' = Tail(broadcast)
    /\ LET slow == {k \in clients : Len(send[k]) >= SendCap} IN
        /\ send' = [k \in Conns |-> IF k \in clients \ slow THEN Append(send[k], Head(broadcast))
                                    ELSE send[k]]
        /\ dropping' = [k \in Conns |-> IF k \in slow THEN dropping[k] + 1 ELSE dropping[k]]
        /\ missed' = missed \cup slow
    /\ UNCHANGED <<consumerVars, clients, closes, connVars>>

\* Mutant: the channel is closed without a look at the set of clients.
Unregister_Unchecked(k) ==
    /\ clients' = clients \ {k}
    /\ closes' = [closes EXCEPT ![k] = @ + 1]

\* The case of Unregister.
Unregister(k) ==
    /\ clients' = clients \ {k}
    /\ closes' = IF k \in clients THEN [closes EXCEPT ![k] = @ + 1] ELSE closes

DropSlow(k) ==
    /\ dropping[k] > 0
    /\ dropping' = [dropping EXCEPT ![k] = @ - 1]
    /\ Unregister(k)
    /\ UNCHANGED <<consumerVars, broadcast, missed, send, connVars>>

---------------------------------------------------------------------------
(* The goroutines of a connection *)

\* The writer sends a message, which the hook applies to its entries; on an error it
\* closes the connection.
Write(k, ok) ==
    /\ writer[k] = "writing" /\ send[k] # <<>>
    /\ send' = [send EXCEPT ![k] = Tail(@)]
    /\ LET r == Head(send[k]) IN
        view' = IF ok THEN [view EXCEPT ![k][ContestantOf[r]] = Row(r, r)] ELSE view
    /\ writer' = IF ok THEN writer ELSE [writer EXCEPT ![k] = "gone"]
    /\ UNCHANGED <<consumerVars, broadcast, hubVars, handler, ranged, snapshot, reader>>

\* The channel is closed and empty: the writer closes the connection.
WriterEnds(k) ==
    /\ writer[k] = "writing" /\ send[k] = <<>> /\ closes[k] > 0
    /\ writer' = [writer EXCEPT ![k] = "gone"]
    /\ UNCHANGED <<consumerVars, broadcast, hubVars, send, handler, ranged, snapshot, reader, view>>

\* ReadMessage fails: the connection is closed, the peer is gone, or 60 s are over.
ReaderEnds(k) ==
    /\ reader[k] = "reading"
    /\ reader' = [reader EXCEPT ![k] = "leaving"]
    /\ UNCHANGED <<consumerVars, broadcast, hubVars, send, handler, ranged, snapshot, writer, view>>

\* The reader unregisters its client.
ReaderLeaves(k) ==
    /\ reader[k] = "leaving"
    /\ reader' = [reader EXCEPT ![k] = "gone"]
    /\ Unregister(k)
    /\ UNCHANGED <<consumerVars, broadcast, dropping, missed, send, handler, ranged, snapshot,
                   writer, view>>

Next ==
    \/ \E r \in Runs : ReadScore(r)
    \/ \E ok \in BOOLEAN : UpdateScore(ok)
    \/ BroadcastJSON
    \/ \E k \in Conns : Connect(k) \/ Register(k)
    \/ \E k \in Conns, ok \in BOOLEAN : RangeScores(k, ok)
    \/ \E k \in Conns, read, written \in BOOLEAN : SendSnapshot(k, read, written)
    \/ Deliver
    \/ \E k \in Conns : DropSlow(k)
    \/ \E k \in Conns, ok \in BOOLEAN : Write(k, ok)
    \/ \E k \in Conns : WriterEnds(k) \/ ReaderEnds(k) \/ ReaderLeaves(k)

\* Goroutines are scheduled, reads of Redis and writes to a socket return in the end, and
\* a read of a closed connection fails.  Nothing makes a score or a browser arrive.
Fairness ==
    /\ WF_vars(Deliver)
    /\ \A k \in Conns :
        /\ WF_vars(\E ok \in BOOLEAN : RangeScores(k, ok))
        /\ WF_vars(\E read, written \in BOOLEAN : SendSnapshot(k, read, written))
        /\ WF_vars(DropSlow(k))
        /\ WF_vars(\E ok \in BOOLEAN : Write(k, ok))
        /\ WF_vars(WriterEnds(k))
        /\ WF_vars(writer[k] = "gone" /\ ReaderEnds(k))
        /\ WF_vars(ReaderLeaves(k))

Safety == Init /\ [][Next]_vars
Spec == Safety /\ Fairness

---------------------------------------------------------------------------
(* Properties *)

Rows == [score : Runs, metrics : Runs \cup {None}]

TypeOK ==
    /\ taken \subseteq Runs /\ stale \subseteq Contestants
    /\ handling \in [run : Runs, next : {"update", "broadcast"}] \cup {None}
    /\ board \in [Contestants -> Runs \cup {None}]
    /\ broadcast \in Seq(Runs) /\ Len(broadcast) <= BroadcastCap
    /\ clients \subseteq Conns /\ missed \subseteq Conns /\ snapshot \subseteq Conns
    /\ send \in [Conns -> Seq(Runs)] /\ \A k \in Conns : Len(send[k]) <= SendCap
    /\ closes \in [Conns -> Nat] /\ dropping \in [Conns -> Nat]
    /\ handler \in [Conns -> {"new", "upgraded", "registered", "ranged", "done"}]
    /\ ranged \in [Conns -> [Contestants -> Runs \cup {None}]]
    /\ writer \in [Conns -> {"off", "writing", "gone"}]
    /\ reader \in [Conns -> {"off", "reading", "leaving", "gone"}]
    /\ view \in [Conns -> [Contestants -> Rows \cup {None}]]

\* The hub never panics: it closes a client's channel once, though its reader and any
\* number of goroutines may ask for it, and never sends on a closed one (hub.go:58-64,
\* 67-79).
ChannelsClosedOnce ==
    \A k \in Conns : /\ closes[k] <= 1
                     /\ k \in clients => closes[k] = 0

\* The messages of a contestant that connection k may still be sent.
Pending(k, c) ==
    \/ handling # None /\ ContestantOf[handling.run] = c
    \/ \E i \in 1..Len(broadcast) : ContestantOf[broadcast[i]] = c
    \/ \E i \in 1..Len(send[k]) : ContestantOf[send[k][i]] = c

Shown(c) == IF board[c] = None THEN None ELSE Row(board[c], board[c])

\* A browser shows what Redis holds, once nothing of that contestant is on its way:
\* whatever runs are written and broadcast while the connection is registered and its
\* snapshot read in two parts, none is lost and none undone (main.go:106-120, leaderboard
\* consumer/kafka.go:81-96, useLeaderboard.ts:33-54).
ViewIsCurrent ==
    \A k \in snapshot \cap clients, c \in Contestants :
        writer[k] = "writing" /\ k \notin missed /\ c \notin stale /\ ~Pending(k, c)
            => view[k][c] = Shown(c)

\* A connection that missed a message does not stay: it is closed, so that the browser
\* connects again and gets a new snapshot, and the hub forgets it (hub.go:73-76,
\* main.go:123-135, useLeaderboard.ts:60-64).
MissedIsClosed ==
    \A k \in Conns : k \in missed ~> writer[k] = "gone" /\ k \notin clients

=============================================================================
