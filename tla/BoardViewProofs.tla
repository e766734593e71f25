-------------------------- MODULE BoardViewProofs --------------------------
(* What BoardView keeps for any runs, connections and capacities. *)
EXTENDS BoardView, SequenceTheorems, TLAPS

USE DEF Row, Rows, Nothing

\* A channel that is read gives up its first message.
LEMMA TailOfChannel ==
    ASSUME NEW S, NEW s \in Seq(S), s # <<>>
    PROVE  /\ Tail(s) \in Seq(S) /\ Len(Tail(s)) = Len(s) - 1
           /\ Head(s) \in S /\ Len(s) \in Nat
  BY HeadTailProperties, LenProperties

\* Every call of the consumer, the handler, the hub, the goroutines of a connection and the
\* hook keeps the types of the state (leaderboard hub.go, cmd/main.go:98-148).
THEOREM TypeCorrect == Safety => []TypeOK
<1>1. Init => TypeOK
  BY ConstantsAssumption DEF Init, TypeOK
<1>2. TypeOK /\ [Next]_vars => TypeOK'
  <2> SUFFICES ASSUME TypeOK, [Next]_vars PROVE TypeOK'
    OBVIOUS
  <2> USE ConstantsAssumption
  <2>1. CASE UNCHANGED vars
    BY <2>1 DEF vars, consumerVars, hubVars, connVars, TypeOK
  <2>2. ASSUME NEW r \in Runs, ReadScore(r) PROVE TypeOK'
    BY <2>2 DEF ReadScore, hubVars, connVars, TypeOK
  <2>3. ASSUME NEW ok \in BOOLEAN, UpdateScore(ok) PROVE TypeOK'
    <3>1. handling.run \in Runs /\ handling' = [run |-> handling.run, next |-> "broadcast"]
      BY <2>3 DEF UpdateScore, TypeOK
    <3>2. handling' \in [run : Runs, next : {"update", "broadcast"}] \cup {None}
      BY <3>1
    <3>3. ContestantOf[handling.run] \in Contestants
      BY <3>1
    <3>4. board' \in [Contestants -> Runs \cup {None}] /\ stale' \subseteq Contestants
      BY <2>3, <3>1, <3>3 DEF UpdateScore, TypeOK
    <3>5. UNCHANGED <<taken, broadcast, hubVars, send, connVars>>
      BY <2>3 DEF UpdateScore
    <3> QED BY <3>2, <3>4, <3>5 DEF hubVars, connVars, TypeOK
  <2>4. ASSUME BroadcastJSON PROVE TypeOK'
    <3>1. broadcast' \in Seq(Runs) /\ Len(broadcast') = Len(broadcast) + 1
      BY <2>4 DEF BroadcastJSON, TypeOK
    <3> QED BY <2>4, <3>1 DEF BroadcastJSON, hubVars, connVars, TypeOK
  <2>5. ASSUME NEW k \in Conns, Connect(k) \/ Register(k) PROVE TypeOK'
    BY <2>5 DEF Connect, Register, consumerVars, hubVars, TypeOK
  <2>6. ASSUME NEW k \in Conns, NEW ok \in BOOLEAN, RangeScores(k, ok) PROVE TypeOK'
    <3>1. /\ ranged' \in [Conns -> [Contestants -> Runs \cup {None}]]
          /\ handler' \in [Conns -> {"new", "upgraded", "registered", "ranged", "done"}]
          /\ writer' \in [Conns -> {"off", "writing", "gone"}]
          /\ reader' \in [Conns -> {"off", "reading", "leaving", "gone"}]
      <4>1. CASE ok
        <5>1. /\ ranged' = [ranged EXCEPT ![k] = board]
              /\ handler' = [handler EXCEPT ![k] = "ranged"]
              /\ writer' = writer /\ reader' = reader
          BY <2>6, <4>1 DEF RangeScores
        <5> QED BY <5>1 DEF TypeOK
      <4>2. CASE ~ok
        BY <2>6, <4>2 DEF RangeScores, StartGoroutines, TypeOK
      <4> QED BY <4>1, <4>2
    <3>2. UNCHANGED <<consumerVars, broadcast, hubVars, send, snapshot, view>>
      BY <2>6 DEF RangeScores
    <3> QED BY <3>1, <3>2 DEF consumerVars, hubVars, TypeOK
  <2>7. ASSUME NEW k \in Conns, NEW read \in BOOLEAN, NEW written \in BOOLEAN,
               SendSnapshot(k, read, written)
        PROVE  TypeOK'
    <3>1. view' \in [Conns -> [Contestants -> Rows \cup {None}]]
      BY <2>7 DEF SendSnapshot, TypeOK
    <3> QED
      BY <2>7, <3>1 DEF SendSnapshot, StartGoroutines, consumerVars, hubVars, TypeOK
  <2>8. ASSUME Deliver PROVE TypeOK'
    <3> DEFINE slow == {k \in clients : Len(send[k]) >= SendCap}
    <3>1. /\ broadcast' \in Seq(Runs) /\ Len(broadcast') <= BroadcastCap
          /\ Head(broadcast) \in Runs
      BY <2>8, TailOfChannel DEF Deliver, TypeOK
    <3>2. send' = [k \in Conns |-> IF k \in clients \ slow THEN Append(send[k], Head(broadcast))
                                   ELSE send[k]]
      BY <2>8 DEF Deliver
    <3>3. ASSUME NEW k \in Conns PROVE send'[k] \in Seq(Runs) /\ Len(send'[k]) <= SendCap
      <4>1. send[k] \in Seq(Runs) /\ Len(send[k]) <= SendCap /\ Len(send[k]) \in Nat
        BY DEF TypeOK
      <4>2. CASE k \in clients \ slow
        <5>1. send'[k] = Append(send[k], Head(broadcast)) /\ ~(Len(send[k]) >= SendCap)
          BY <3>2, <4>2
        <5>2. send'[k] \in Seq(Runs) /\ Len(send'[k]) = Len(send[k]) + 1
          BY <3>1, <4>1, <5>1
        <5> QED BY <4>1, <5>1, <5>2
      <4>3. CASE k \notin clients \ slow
        BY <3>2, <4>1, <4>3
      <4> QED BY <4>2, <4>3
    <3>4. send' \in [Conns -> Seq(Runs)] /\ \A k \in Conns : Len(send'[k]) <= SendCap
      <4> HIDE DEF slow
      <4> QED BY <3>2, <3>3
    <3>5. dropping' \in [Conns -> Nat] /\ missed' \subseteq Conns
      BY <2>8 DEF Deliver, TypeOK
    <3> QED BY <2>8, <3>1, <3>4, <3>5 DEF Deliver, consumerVars, connVars, TypeOK
  <2>9. ASSUME NEW k \in Conns, DropSlow(k) PROVE TypeOK'
    BY <2>9 DEF DropSlow, Unregister, consumerVars, connVars, TypeOK
  <2>10. ASSUME NEW k \in Conns, NEW ok \in BOOLEAN, Write(k, ok) PROVE TypeOK'
    <3>1. /\ send[k] \in Seq(Runs) /\ send[k] # <<>> /\ Len(send[k]) <= SendCap
      BY <2>10 DEF Write, TypeOK
    <3>2. /\ Tail(send[k]) \in Seq(Runs) /\ Len(Tail(send[k])) <= SendCap
          /\ Head(send[k]) \in Runs
      BY <3>1, TailOfChannel
    <3>3. send' = [send EXCEPT ![k] = Tail(send[k])]
      BY <2>10 DEF Write
    <3>4. send' \in [Conns -> Seq(Runs)] /\ \A j \in Conns : Len(send'[j]) <= SendCap
      BY <3>2, <3>3 DEF TypeOK
    <3>5. view' \in [Conns -> [Contestants -> Rows \cup {None}]]
      BY <2>10, <3>2 DEF Write, TypeOK
    <3> QED BY <2>10, <3>4, <3>5 DEF Write, consumerVars, hubVars, TypeOK
  <2>11. ASSUME NEW k \in Conns, WriterEnds(k) PROVE TypeOK'
    BY <2>11 DEF WriterEnds, consumerVars, hubVars, TypeOK
  <2>12. ASSUME NEW k \in Conns, ReaderEnds(k) PROVE TypeOK'
    BY <2>12 DEF ReaderEnds, consumerVars, hubVars, TypeOK
  <2>13. ASSUME NEW k \in Conns, ReaderLeaves(k) PROVE TypeOK'
    BY <2>13 DEF ReaderLeaves, Unregister, consumerVars, TypeOK
  <2> QED
    BY <2>1, <2>2, <2>3, <2>4, <2>5, <2>6, <2>7, <2>8, <2>9, <2>10, <2>11, <2>12,
       <2>13
    DEF Next
<1> QED BY <1>1, <1>2, PTL DEF Safety

---------------------------------------------------------------------------

\* A client is registered once, before anything asks for its removal, and its channel is
\* open as long as it is a client.
Registered ==
    \A k \in Conns : handler[k] \in {"new", "upgraded"} => k \notin clients /\ closes[k] = 0

ChannelInv == TypeOK /\ ChannelsClosedOnce /\ Registered

\* Only the case of Unregister closes a channel, of a client that it takes out of the set.
LEMMA ChannelInvariant == Safety => []ChannelInv
<1>1. Init => ChannelInv
  BY ConstantsAssumption DEF Init, ChannelInv, TypeOK, ChannelsClosedOnce, Registered
<1>2. ASSUME ChannelInv, TypeOK', [Next]_vars PROVE ChannelInv'
  <2> USE <1>2 DEF ChannelInv
  <2>1. ASSUME UNCHANGED <<clients, closes, handler>> PROVE ChannelInv'
    BY <2>1 DEF ChannelsClosedOnce, Registered
  <2>2. ASSUME NEW k \in Conns, Unregister(k), UNCHANGED handler PROVE ChannelInv'
    BY <2>2 DEF Unregister, ChannelsClosedOnce, Registered, TypeOK
  <2>3. ASSUME NEW k \in Conns, UNCHANGED <<clients, closes>>,
               \A j \in Conns : handler'[j] \in {"new", "upgraded"}
                                  => handler[j] \in {"new", "upgraded"}
        PROVE  ChannelInv'
    BY <2>3 DEF ChannelsClosedOnce, Registered
  <2>4. ASSUME NEW k \in Conns, Register(k) PROVE ChannelInv'
    BY <2>4 DEF Register, ChannelsClosedOnce, Registered, TypeOK
  <2>5. CASE UNCHANGED vars
    BY <2>1, <2>5 DEF vars, hubVars, connVars
  <2>6. CASE \E r \in Runs : ReadScore(r)
    BY <2>1, <2>6 DEF ReadScore, hubVars, connVars
  <2>7. CASE \E ok \in BOOLEAN : UpdateScore(ok)
    BY <2>1, <2>7 DEF UpdateScore, hubVars, connVars
  <2>8. CASE BroadcastJSON \/ Deliver
    BY <2>1, <2>8 DEF BroadcastJSON, Deliver, hubVars, connVars
  <2>9. ASSUME NEW k \in Conns, Connect(k) PROVE ChannelInv'
    BY <2>3, <2>9 DEF Connect, hubVars, TypeOK
  <2>10. ASSUME NEW k \in Conns, NEW ok \in BOOLEAN, RangeScores(k, ok) PROVE ChannelInv'
    <3>1. UNCHANGED <<clients, closes>>
      BY <2>10 DEF RangeScores, hubVars
    <3>2. \/ handler' = [handler EXCEPT ![k] = "ranged"]
          \/ handler' = [handler EXCEPT ![k] = "done"]
      BY <2>10 DEF RangeScores, StartGoroutines
    <3>3. \A j \in Conns : handler'[j] \in {"new", "upgraded"}
                           => handler[j] \in {"new", "upgraded"}
      BY <3>2 DEF TypeOK
    <3> QED BY <2>3, <3>1, <3>3
  <2>11. ASSUME NEW k \in Conns, NEW read \in BOOLEAN, NEW written \in BOOLEAN,
                SendSnapshot(k, read, written)
         PROVE  ChannelInv'
    BY <2>3, <2>11 DEF SendSnapshot, StartGoroutines, hubVars, TypeOK
  <2>12. ASSUME NEW k \in Conns, DropSlow(k) \/ ReaderLeaves(k) PROVE ChannelInv'
    BY <2>2, <2>12 DEF DropSlow, ReaderLeaves, connVars
  <2>13. ASSUME NEW k \in Conns, NEW ok \in BOOLEAN, Write(k, ok) PROVE ChannelInv'
    BY <2>1, <2>13 DEF Write, hubVars
  <2>14. ASSUME NEW k \in Conns, WriterEnds(k) \/ ReaderEnds(k) PROVE ChannelInv'
    BY <2>1, <2>14 DEF WriterEnds, ReaderEnds, hubVars
  <2> QED
    BY <1>2, <2>4, <2>5, <2>6, <2>7, <2>8, <2>9, <2>10, <2>11, <2>12, <2>13, <2>14 DEF Next
<1> QED BY <1>1, <1>2, TypeCorrect, PTL DEF Safety

\* The hub closes the channel of a client once, whatever number of goroutines asks for it,
\* and sends on no closed channel (hub.go:58-64, 67-79).
THEOREM EveryChannelIsClosedOnce == Safety => []ChannelsClosedOnce
<1>1. ChannelInv => ChannelsClosedOnce
  BY DEF ChannelInv
<1> QED BY <1>1, ChannelInvariant, PTL

---------------------------------------------------------------------------
(* What is on its way to a browser *)

\* The message that BroadcastJSON is about to put into the channel.
Announced ==
    IF handling # None /\ handling.next = "broadcast" THEN <<handling.run>> ELSE <<>>

\* The messages that a connection is still to be sent, in the order in which they come.
Coming(k) == (send[k] \o broadcast) \o Announced

Carries(s, c) == \E i \in 1..Len(s) : ContestantOf[s[i]] = c

\* If there is a last message of contestant c in s, it is r.
LastIs(s, c, r) ==
    \A i \in 1..Len(s) :
        ContestantOf[s[i]] = c /\ (\A j \in (i+1)..Len(s) : ContestantOf[s[j]] # c)
            => s[i] = r

\* A message at the end is the last one of its contestant, and nothing to the others.
LEMMA MessageAppended ==
    ASSUME NEW s \in Seq(Runs), NEW r \in Runs, NEW c, NEW x
    PROVE  /\ ContestantOf[r] = c =>
                 LastIs(Append(s, r), c, r) /\ Carries(Append(s, r), c)
           /\ ContestantOf[r] # c =>
                 /\ LastIs(s, c, x) => LastIs(Append(s, r), c, x)
                 /\ Carries(s, c) => Carries(Append(s, r), c)
<1> DEFINE t == Append(s, r)
<1>1. /\ Len(s) \in Nat /\ Len(t) = Len(s) + 1 /\ t[Len(t)] = r
      /\ \A i \in 1..Len(s) : t[i] = s[i]
  OBVIOUS
<1> HIDE DEF t
<1>2. ASSUME ContestantOf[r] = c PROVE LastIs(t, c, r) /\ Carries(t, c)
  <2>1. Carries(t, c)
    BY <1>1, <1>2 DEF Carries
  <2>2. ASSUME NEW i \in 1..Len(t), \A j \in (i+1)..Len(t) : ContestantOf[t[j]] # c
        PROVE  t[i] = r
    <3>1. i = Len(t)
      BY <1>1, <1>2, <2>2
    <3> QED BY <1>1, <3>1
  <2> QED BY <2>1, <2>2 DEF LastIs
<1>3. ASSUME ContestantOf[r] # c, LastIs(s, c, x) PROVE LastIs(t, c, x)
  <2>1. ASSUME NEW i \in 1..Len(t), ContestantOf[t[i]] = c,
               \A j \in (i+1)..Len(t) : ContestantOf[t[j]] # c
        PROVE  t[i] = x
    <3>1. i \in 1..Len(s) /\ t[i] = s[i]
      BY <1>1, <1>3, <2>1
    <3>2. \A j \in (i+1)..Len(s) : ContestantOf[s[j]] # c
      BY <1>1, <2>1
    <3> QED BY <1>3, <2>1, <3>1, <3>2 DEF LastIs
  <2> QED BY <2>1 DEF LastIs
<1>4. ASSUME Carries(s, c) PROVE Carries(t, c)
  BY <1>1, <1>4 DEF Carries
<1> QED BY <1>2, <1>3, <1>4 DEF t

\* What is read from the front changes nothing behind it.
LEMMA MessageRead ==
    ASSUME NEW s \in Seq(Runs), s # <<>>, NEW c, NEW x, LastIs(s, c, x)
    PROVE  /\ LastIs(Tail(s), c, x)
           /\ ContestantOf[Head(s)] = c /\ ~Carries(Tail(s), c) => Head(s) = x
           /\ ContestantOf[Head(s)] # c /\ ~Carries(Tail(s), c) => ~Carries(s, c)
<1> DEFINE t == Tail(s)
<1>1. /\ Len(s) \in Nat /\ Len(s) >= 1 /\ Len(t) = Len(s) - 1 /\ Head(s) = s[1]
      /\ \A i \in 1..Len(t) : t[i] = s[i+1]
  BY HeadTailProperties, LenProperties, EmptySeq
<1> HIDE DEF t
<1>2. \A i \in 2..Len(s) : i - 1 \in 1..Len(t) /\ t[i-1] = s[i]
  BY <1>1
<1>3. LastIs(t, c, x)
  <2>1. ASSUME NEW i \in 1..Len(t), ContestantOf[t[i]] = c,
               \A j \in (i+1)..Len(t) : ContestantOf[t[j]] # c
        PROVE  t[i] = x
    <3>1. i+1 \in 1..Len(s) /\ t[i] = s[i+1]
      BY <1>1
    <3>2. ASSUME NEW j \in (i+2)..Len(s) PROVE ContestantOf[s[j]] # c
      <4>1. j - 1 \in (i+1)..Len(t) /\ t[j-1] = s[j]
        BY <1>1, <1>2
      <4> QED BY <2>1, <4>1
    <3>3. \A j \in ((i+1)+1)..Len(s) : ContestantOf[s[j]] # c
      BY <3>2
    <3> QED BY <2>1, <3>1, <3>3 DEF LastIs
  <2> QED BY <2>1 DEF LastIs
<1>4. ASSUME ~Carries(t, c), NEW j \in 2..Len(s) PROVE ContestantOf[s[j]] # c
  BY <1>2, <1>4 DEF Carries
<1>5. ASSUME ContestantOf[Head(s)] = c, ~Carries(t, c) PROVE Head(s) = x
  <2>1. \A j \in (1+1)..Len(s) : ContestantOf[s[j]] # c
    BY <1>4, <1>5
  <2>2. 1 \in 1..Len(s) /\ ContestantOf[s[1]] = c
    BY <1>1, <1>5
  <2> QED BY <1>1, <2>1, <2>2 DEF LastIs
<1>6. ASSUME ContestantOf[Head(s)] # c, ~Carries(t, c) PROVE ~Carries(s, c)
  <2>1. ASSUME NEW i \in 1..Len(s) PROVE ContestantOf[s[i]] # c
    <3>1. CASE i = 1
      BY <1>1, <1>6, <3>1
    <3>2. CASE i # 1
      <4>1. i \in 2..Len(s)
        BY <1>1, <3>2
      <4> QED BY <1>4, <1>6, <4>1
    <3> QED BY <3>1, <3>2
  <2> QED BY <2>1 DEF Carries
<1> QED BY <1>3, <1>5, <1>6 DEF t

\* A channel is its first message and the rest.
LEMMA FirstAndRest ==
    ASSUME NEW u \in Seq(Runs), u # <<>>
    PROVE  /\ Head(u) \in Runs /\ Tail(u) \in Seq(Runs) /\ <<Head(u)>> \in Seq(Runs)
           /\ u = <<Head(u)>> \o Tail(u)
<1>1. /\ Head(u) \in Runs /\ Tail(u) \in Seq(Runs) /\ Len(u) \in Nat /\ Len(u) >= 1
      /\ Len(Tail(u)) = Len(u) - 1 /\ Head(u) = u[1]
      /\ \A i \in 1..Len(Tail(u)) : Tail(u)[i] = u[i+1]
  BY HeadTailProperties, LenProperties, EmptySeq
<1>2. <<Head(u)>> \in Seq(Runs) /\ Len(<<Head(u)>>) = 1 /\ <<Head(u)>>[1] = Head(u)
  BY <1>1
<1> DEFINE v == <<Head(u)>> \o Tail(u)
<1>3. v \in Seq(Runs) /\ Len(v) = Len(u)
  BY <1>1, <1>2, ConcatProperties
<1>4. ASSUME NEW i \in 1..Len(u) PROVE u[i] = v[i]
  <2>1. v[i] = IF i <= 1 THEN <<Head(u)>>[i] ELSE Tail(u)[i - 1]
    BY <1>1, <1>2, ConcatProperties
  <2>2. CASE i = 1
    BY <1>1, <1>2, <2>1, <2>2
  <2>3. CASE i # 1
    <3>1. i - 1 \in 1..Len(Tail(u)) /\ ~(i <= 1) /\ (i - 1) + 1 = i
      BY <1>1, <2>3
    <3> QED BY <1>1, <2>1, <3>1
  <2> QED BY <2>2, <2>3
<1> HIDE DEF v
<1>5. u = v
  BY <1>3, <1>4, SeqEqual
<1> QED BY <1>1, <1>2, <1>5 DEF v

\* What is read from the first of two channels in a line is read from the line.
LEMMA LineRead ==
    ASSUME NEW u \in Seq(Runs), u # <<>>, NEW v \in Seq(Runs)
    PROVE  Tail(u) \o v = Tail(u \o v) /\ Head(u \o v) = Head(u) /\ u \o v # <<>>
<1>1. Head(u) \in Runs /\ Tail(u) \in Seq(Runs) /\ Tail(u) \o v \in Seq(Runs)
  BY FirstAndRest, ConcatProperties
<1>2. u \o v = <<Head(u)>> \o (Tail(u) \o v)
  BY FirstAndRest, ConcatAssociative
<1>3. ASSUME NEW h \in Runs, NEW w \in Seq(Runs)
      PROVE  Tail(<<h>> \o w) = w /\ Head(<<h>> \o w) = h /\ <<h>> \o w # <<>>
  <2> DEFINE t == <<h>> \o w
  <2>1. <<h>> \in Seq(Runs) /\ Len(<<h>>) = 1 /\ <<h>>[1] = h /\ Len(w) \in Nat
    OBVIOUS
  <2>2. /\ t \in Seq(Runs) /\ Len(t) = Len(w) + 1 /\ t[1] = h
        /\ \A i \in 1..Len(w) : t[i+1] = w[i]
    <3>1. t \in Seq(Runs) /\ Len(t) = 1 + Len(w)
      BY <2>1, ConcatProperties
    <3>2. \A i \in 1..(1 + Len(w)) : t[i] = IF i <= 1 THEN <<h>>[i] ELSE w[i - 1]
      BY <2>1, ConcatProperties
    <3> HIDE DEF t
    <3>3. t[1] = h
      BY <2>1, <3>2
    <3>4. ASSUME NEW i \in 1..Len(w) PROVE t[i+1] = w[i]
      <4>1. i+1 \in 1..(1 + Len(w)) /\ ~(i+1 <= 1) /\ (i+1) - 1 = i
        BY <2>1
      <4> QED BY <3>2, <4>1
    <3> QED BY <2>1, <3>1, <3>3, <3>4
  <2> HIDE DEF t
  <2>3. t # <<>> /\ Head(t) = h
    BY <2>1, <2>2, EmptySeq
  <2>4. /\ Tail(t) \in Seq(Runs) /\ Len(Tail(t)) = Len(w)
        /\ \A i \in 1..Len(w) : Tail(t)[i] = w[i]
    BY <2>1, <2>2, <2>3, HeadTailProperties
  <2>5. Tail(t) = w
    BY <2>4, SeqEqual
  <2> QED BY <2>3, <2>5 DEF t
<1> QED BY <1>1, <1>2, <1>3

\* What moves from one channel to the next stays where it is in the line.
LEMMA LineMoved ==
    ASSUME NEW u \in Seq(Runs), NEW v \in Seq(Runs), v # <<>>
    PROVE  Append(u, Head(v)) \o Tail(v) = u \o v
<1>1. Head(v) \in Runs /\ Tail(v) \in Seq(Runs) /\ <<Head(v)>> \in Seq(Runs)
      /\ v = <<Head(v)>> \o Tail(v)
  BY FirstAndRest
<1>2. Append(u, Head(v)) = u \o <<Head(v)>>
  BY <1>1, AppendIsConcat
<1> QED BY <1>1, <1>2, ConcatAssociative

\* A message joins the line at its end.
LEMMA LineJoined ==
    ASSUME NEW u \in Seq(Runs), NEW v \in Seq(Runs), NEW r \in Runs
    PROVE  /\ (u \o v) \o <<r>> = Append(u \o v, r)
           /\ u \o Append(v, r) = Append(u \o v, r)
<1>1. <<r>> \in Seq(Runs)
  OBVIOUS
<1>2. u \o v \in Seq(Runs) /\ Append(v, r) = v \o <<r>>
  BY ConcatProperties, AppendIsConcat
<1>3. (u \o v) \o <<r>> = Append(u \o v, r)
  BY <1>2, AppendIsConcat
<1>4. u \o (v \o <<r>>) = (u \o v) \o <<r>>
  BY <1>1, ConcatAssociative
<1> QED BY <1>2, <1>3, <1>4

---------------------------------------------------------------------------
(* The invariant of the view *)

\* A connection has a writer, and a snapshot, only when its handler is through, and is
\* sent nothing before it is registered.
HandlerFirst ==
    \A k \in Conns :
        /\ handler[k] \in {"new", "upgraded"} => send[k] = <<>>
        /\ k \in snapshot \/ writer[k] # "off" => handler[k] = "done"

\* A connection that will be sent all that is broadcast from here on.
Fed(k) == handler[k] \in {"new", "upgraded"} \/ k \in clients \ missed

\* The last message on its way is what Redis holds; when there is none, the scores read for
\* the snapshot are, and then the entries of the hook.
Agrees(k, c) ==
    /\ LastIs(Coming(k), c, board[c])
    /\ ~Carries(Coming(k), c) =>
          /\ handler[k] = "ranged" => ranged[k][c] = board[c]
          /\ k \in snapshot /\ writer[k] = "writing" => view[k][c] = Shown(c)

FedAgree == \A k \in Conns, c \in Contestants \ stale : Fed(k) => Agrees(k, c)

ViewInv == TypeOK /\ ChannelInv /\ HandlerFirst /\ FedAgree

\* The types of what is on its way.
LEMMA ComingTypes ==
    ASSUME TypeOK, NEW k \in Conns
    PROVE  /\ send[k] \in Seq(Runs) /\ broadcast \in Seq(Runs) /\ Announced \in Seq(Runs)
           /\ Coming(k) \in Seq(Runs)
<1>1. send[k] \in Seq(Runs) /\ broadcast \in Seq(Runs)
  BY DEF TypeOK
<1>2. Announced \in Seq(Runs)
  <2>1. CASE handling # None /\ handling.next = "broadcast"
    <3>1. handling.run \in Runs
      BY <2>1 DEF TypeOK
    <3>2. Announced = <<handling.run>>
      BY <2>1 DEF Announced
    <3> QED BY <3>1, <3>2
  <2>2. CASE ~(handling # None /\ handling.next = "broadcast")
    BY <2>2 DEF Announced
  <2> QED BY <2>1, <2>2
<1> QED BY <1>1, <1>2, ConcatProperties DEF Coming

\* No step feeds a connection that was not fed before, and every step leaves the order of
\* handler, snapshot and writer as it was.
LEMMA HandlerStep ==
    ASSUME TypeOK, ChannelInv, HandlerFirst, [Next]_vars
    PROVE  HandlerFirst' /\ \A k \in Conns : Fed(k)' => Fed(k)
<1> USE DEF HandlerFirst, Fed
<1>1. CASE UNCHANGED vars
  BY <1>1 DEF vars, consumerVars, hubVars, connVars
<1>2. CASE \E r \in Runs : ReadScore(r)
  BY <1>2 DEF ReadScore, hubVars, connVars
<1>3. CASE \E ok \in BOOLEAN : UpdateScore(ok)
  BY <1>3 DEF UpdateScore, hubVars, connVars
<1>4. CASE BroadcastJSON
  BY <1>4 DEF BroadcastJSON, hubVars, connVars
<1>5. ASSUME NEW k \in Conns, Connect(k) PROVE HandlerFirst' /\ \A j \in Conns : Fed(j)' => Fed(j)
  BY <1>5 DEF Connect, consumerVars, hubVars, TypeOK
<1>6. ASSUME NEW k \in Conns, Register(k) PROVE HandlerFirst' /\ \A j \in Conns : Fed(j)' => Fed(j)
  BY <1>6 DEF Register, consumerVars, TypeOK
<1>7. ASSUME NEW k \in Conns, NEW ok \in BOOLEAN, RangeScores(k, ok)
      PROVE  HandlerFirst' /\ \A j \in Conns : Fed(j)' => Fed(j)
  <2>1. /\ handler[k] = "registered" /\ UNCHANGED <<clients, missed, send, snapshot>>
        /\ handler' \in {[handler EXCEPT ![k] = "ranged"], [handler EXCEPT ![k] = "done"]}
        /\ \/ UNCHANGED writer
           \/ handler'[k] = "done" /\ writer' = [writer EXCEPT ![k] = "writing"]
    BY <1>7 DEF RangeScores, StartGoroutines, hubVars, TypeOK
  <2>2. k \notin snapshot /\ writer[k] = "off"
    BY <2>1
  <2>3. \A j \in Conns : j # k => handler'[j] = handler[j] /\ writer'[j] = writer[j]
    BY <2>1 DEF TypeOK
  <2>4. handler'[k] \in {"ranged", "done"} /\ (writer'[k] # "off" => handler'[k] = "done")
    BY <2>1, <2>2 DEF TypeOK
  <2> QED BY <2>1, <2>2, <2>3, <2>4
<1>8. ASSUME NEW k \in Conns, NEW read \in BOOLEAN, NEW written \in BOOLEAN,
             SendSnapshot(k, read, written)
      PROVE  HandlerFirst' /\ \A j \in Conns : Fed(j)' => Fed(j)
  BY <1>8 DEF SendSnapshot, StartGoroutines, consumerVars, hubVars, TypeOK
<1>9. CASE Deliver
  <2>1. \A k \in Conns : k \notin clients => send'[k] = send[k]
    BY <1>9 DEF Deliver
  <2>2. missed \subseteq missed' /\ UNCHANGED <<clients, handler, snapshot, writer>>
    BY <1>9 DEF Deliver, connVars
  <2> QED BY <2>1, <2>2 DEF ChannelInv, Registered
<1>10. ASSUME NEW k \in Conns, DropSlow(k) \/ ReaderLeaves(k)
       PROVE  HandlerFirst' /\ \A j \in Conns : Fed(j)' => Fed(j)
  BY <1>10 DEF DropSlow, ReaderLeaves, Unregister, consumerVars, connVars
<1>11. ASSUME NEW k \in Conns, NEW ok \in BOOLEAN, Write(k, ok)
       PROVE  HandlerFirst' /\ \A j \in Conns : Fed(j)' => Fed(j)
  <2>1. \A j \in Conns : j # k => send'[j] = send[j] /\ writer'[j] = writer[j]
    BY <1>11 DEF Write, TypeOK
  <2>2. writer[k] = "writing" /\ UNCHANGED <<handler, snapshot, hubVars>>
    BY <1>11 DEF Write
  <2>3. handler[k] = "done"
    BY <2>2
  <2> QED BY <2>1, <2>2, <2>3 DEF hubVars
<1>12. ASSUME NEW k \in Conns, WriterEnds(k) \/ ReaderEnds(k)
       PROVE  HandlerFirst' /\ \A j \in Conns : Fed(j)' => Fed(j)
  BY <1>12 DEF WriterEnds, ReaderEnds, hubVars, TypeOK
<1> QED
  BY <1>1, <1>2, <1>3, <1>4, <1>5, <1>6, <1>7, <1>8, <1>9, <1>10, <1>11, <1>12 DEF Next

\* A step that moves nothing on its way to k, and neither reads nor writes for it.
LEMMA AgreesUnmoved ==
    ASSUME NEW k \in Conns, NEW c \in Contestants, Agrees(k, c),
           Coming(k)' = Coming(k), board' = board,
           handler'[k] = "ranged" => handler[k] = "ranged" /\ ranged'[k] = ranged[k],
           k \in snapshot' /\ writer'[k] = "writing"
              => k \in snapshot /\ writer[k] = "writing" /\ view'[k] = view[k]
    PROVE  Agrees(k, c)'
<1> DEFINE s == Coming(k)
<1>1. s' = s
  OBVIOUS
<1>2. LastIs(s, c, board[c])' /\ (Carries(s, c)' <=> Carries(s, c))
  BY <1>1 DEF Agrees, LastIs, Carries
<1> QED BY <1>2 DEF Agrees, Shown

LEMMA AgreeStep ==
    ASSUME ViewInv, [Next]_vars, NEW k \in Conns, NEW c \in Contestants \ stale', Fed(k)'
    PROVE  Agrees(k, c)'
<1> USE ConstantsAssumption DEF ViewInv
<1>1. Fed(k) /\ (c \notin stale => Agrees(k, c))
  BY HandlerStep DEF FedAgree
<1>2. /\ send[k] \in Seq(Runs) /\ broadcast \in Seq(Runs) /\ Announced \in Seq(Runs)
      /\ Coming(k) \in Seq(Runs)
  BY ComingTypes
<1>3. ASSUME UNCHANGED <<handling, board, stale, broadcast, send>>,
             handler'[k] = "ranged" => handler[k] = "ranged" /\ ranged'[k] = ranged[k],
             k \in snapshot' /\ writer'[k] = "writing"
                => k \in snapshot /\ writer[k] = "writing" /\ view'[k] = view[k]
      PROVE  Agrees(k, c)'
  <2>1. Coming(k)' = Coming(k)
    BY <1>3 DEF Coming, Announced
  <2> QED BY <1>1, <1>3, <2>1, AgreesUnmoved
<1>4. CASE UNCHANGED vars
  BY <1>3, <1>4 DEF vars, consumerVars, connVars
<1>5. ASSUME NEW r \in Runs, ReadScore(r) PROVE Agrees(k, c)'
  <2>1. Announced' = <<>> /\ Announced = <<>>
    BY <1>5 DEF ReadScore, Announced
  <2>2. UNCHANGED <<send, broadcast, board, stale, connVars>>
    BY <1>5 DEF ReadScore
  <2>3. Coming(k)' = Coming(k)
    BY <2>1, <2>2 DEF Coming
  <2> QED BY <1>1, <2>2, <2>3, AgreesUnmoved DEF connVars
<1>6. ASSUME NEW ok \in BOOLEAN, UpdateScore(ok) PROVE Agrees(k, c)'
  <2> DEFINE r == handling.run
  <2>1. r \in Runs /\ handling' = [run |-> r, next |-> "broadcast"]
    BY <1>6 DEF UpdateScore, TypeOK
  <2>2. Announced = <<>> /\ Announced' = <<r>>
    <3>1. handling.next = "update"
      BY <1>6 DEF UpdateScore
    <3>2. handling' # None
      BY <2>1, <1>6 DEF UpdateScore, TypeOK
    <3> QED BY <2>1, <3>1, <3>2 DEF Announced
  <2>3. UNCHANGED <<send, broadcast, connVars>>
    BY <1>6 DEF UpdateScore
  <2>4. Coming(k)' = Append(Coming(k), r)
    <3>1. Coming(k)' = (send[k] \o broadcast) \o <<r>>
      BY <2>2, <2>3 DEF Coming
    <3>2. Coming(k) = send[k] \o broadcast
      BY <1>2, <2>2, ConcatProperties, ConcatEmptySeq DEF Coming
    <3> QED BY <1>2, <2>1, <3>1, <3>2, LineJoined
  <2>5. CASE ContestantOf[r] = c
    <3>1. board'[c] = r
      BY <1>6, <2>5 DEF UpdateScore, TypeOK
    <3>2. LastIs(Coming(k)', c, r) /\ Carries(Coming(k)', c)
      BY <1>2, <2>1, <2>4, <2>5, MessageAppended
    <3> QED BY <3>1, <3>2 DEF Agrees, LastIs, Carries
  <2>6. CASE ContestantOf[r] # c
    <3>1. board'[c] = board[c] /\ c \notin stale
      BY <1>6, <2>6 DEF UpdateScore, TypeOK
    <3>2. /\ LastIs(Coming(k)', c, board[c])
          /\ Carries(Coming(k), c) => Carries(Coming(k)', c)
      BY <1>1, <1>2, <2>1, <2>4, <2>6, <3>1, MessageAppended DEF Agrees
    <3>3. LastIs(Coming(k), c, board[c])' /\ (Carries(Coming(k), c) => Carries(Coming(k), c)')
      BY <3>1, <3>2 DEF LastIs, Carries
    <3> QED BY <1>1, <2>3, <3>1, <3>3 DEF Agrees, connVars, Shown
  <2> QED BY <2>5, <2>6
<1>7. CASE BroadcastJSON
  <2>1. handling.run \in Runs /\ Announced = <<handling.run>> /\ Announced' = <<>>
    BY <1>7 DEF BroadcastJSON, Announced, TypeOK
  <2>2. broadcast' = Append(broadcast, handling.run) /\ UNCHANGED <<send, board, stale, connVars>>
    BY <1>7 DEF BroadcastJSON
  <2>3. Coming(k)' = Coming(k)
    <3>1. Coming(k)' = send[k] \o Append(broadcast, handling.run)
      <4>1. Append(broadcast, handling.run) \in Seq(Runs)
        BY <1>2, <2>1
      <4> QED BY <1>2, <2>1, <2>2, <4>1, ConcatProperties, ConcatEmptySeq DEF Coming
    <3>2. Coming(k) = (send[k] \o broadcast) \o <<handling.run>>
      BY <2>1 DEF Coming
    <3>3. Coming(k)' = Append(send[k] \o broadcast, handling.run)
      BY <1>2, <2>1, <3>1, LineJoined
    <3>4. Coming(k) = Append(send[k] \o broadcast, handling.run)
      BY <1>2, <2>1, <3>2, LineJoined
    <3> QED BY <3>3, <3>4
  <2> QED BY <1>1, <2>2, <2>3, AgreesUnmoved DEF connVars
<1>8. ASSUME NEW j \in Conns, Connect(j) \/ Register(j) PROVE Agrees(k, c)'
  BY <1>3, <1>8 DEF Connect, Register, consumerVars, TypeOK
<1>9. ASSUME NEW j \in Conns, NEW ok \in BOOLEAN, RangeScores(j, ok) PROVE Agrees(k, c)'
  <2>1. UNCHANGED <<handling, board, stale, broadcast, send, snapshot, view>>
    BY <1>9 DEF RangeScores, consumerVars
  <2>2. CASE j # k
    <3>1. handler'[k] = handler[k] /\ ranged'[k] = ranged[k] /\ writer'[k] = writer[k]
      BY <1>9, <2>2 DEF RangeScores, StartGoroutines, TypeOK
    <3> QED BY <1>3, <2>1, <3>1
  <2>3. CASE j = k
    <3>1. k \notin snapshot
      BY <1>9, <2>3 DEF RangeScores, HandlerFirst
    <3>2. handler'[k] = "ranged" => ranged'[k] = board
      BY <1>9, <2>3 DEF RangeScores, StartGoroutines, TypeOK
    <3>3. Coming(k)' = Coming(k)
      BY <2>1 DEF Coming, Announced
    <3>4. LastIs(Coming(k), c, board[c])'
      BY <1>1, <2>1, <3>3 DEF Agrees, LastIs
    <3> QED BY <2>1, <3>1, <3>2, <3>4 DEF Agrees
  <2> QED BY <2>2, <2>3
<1>10. ASSUME NEW j \in Conns, NEW read \in BOOLEAN, NEW written \in BOOLEAN,
              SendSnapshot(j, read, written)
       PROVE  Agrees(k, c)'
  <2>1. UNCHANGED <<handling, board, stale, broadcast, send, ranged>>
    BY <1>10 DEF SendSnapshot, consumerVars
  <2>2. CASE j # k
    <3>1. handler'[k] = handler[k] /\ view'[k] = view[k] /\ writer'[k] = writer[k]
      BY <1>10, <2>2 DEF SendSnapshot, StartGoroutines, TypeOK
    <3>2. k \in snapshot' => k \in snapshot
      BY <1>10, <2>2 DEF SendSnapshot
    <3> QED BY <1>3, <2>1, <3>1, <3>2
  <2>3. CASE j = k
    <3>1. handler[k] = "ranged" /\ handler'[k] = "done" /\ k \notin snapshot
      BY <1>10, <2>3 DEF SendSnapshot, StartGoroutines, HandlerFirst, TypeOK
    <3>2. k \in snapshot' =>
             view'[k][c] = IF ranged[k][c] = None THEN None ELSE Row(ranged[k][c], board[c])
      BY <1>10, <2>3, <3>1 DEF SendSnapshot, TypeOK
    <3>3. Coming(k)' = Coming(k)
      BY <2>1 DEF Coming, Announced
    <3>4. LastIs(Coming(k), c, board[c])' /\ (Carries(Coming(k), c) => Carries(Coming(k), c)')
      BY <1>1, <2>1, <3>3 DEF Agrees, LastIs, Carries
    <3>5. ~Carries(Coming(k), c) => ranged[k][c] = board[c]
      BY <1>1, <2>1, <3>1 DEF Agrees
    <3> QED BY <2>1, <3>1, <3>2, <3>4, <3>5 DEF Agrees, Shown
  <2> QED BY <2>2, <2>3
<1>11. CASE Deliver
  <2> DEFINE slow == {j \in clients : Len(send[j]) >= SendCap}
  <2>1. /\ broadcast # <<>> /\ broadcast' = Tail(broadcast) /\ Head(broadcast) \in Runs
        /\ missed' = missed \cup slow
        /\ UNCHANGED <<handling, board, stale, clients, connVars>>
        /\ send'[k] = IF k \in clients \ slow THEN Append(send[k], Head(broadcast)) ELSE send[k]
    BY <1>2, <1>11, TailOfChannel DEF Deliver, consumerVars
  <2>2. Announced' = Announced
    BY <2>1 DEF Announced
  <2>3. CASE handler[k] \in {"new", "upgraded"}
    <3>1. send[k] = <<>> /\ send'[k] = send[k]
      BY <2>1, <2>3 DEF HandlerFirst, ChannelInv, Registered
    <3>2. Coming(k)' = Tail(Coming(k)) /\ Coming(k) # <<>>
      <4>1. Tail(broadcast) \in Seq(Runs)
        BY <1>2, <2>1, TailOfChannel
      <4>2. send[k] \o broadcast = broadcast /\ send'[k] \o broadcast' = Tail(broadcast)
        BY <1>2, <2>1, <3>1, <4>1, ConcatEmptySeq
      <4>3. Coming(k) = broadcast \o Announced /\ Coming(k)' = Tail(broadcast) \o Announced
        BY <2>2, <4>2 DEF Coming
      <4> QED BY <1>2, <2>1, <4>3, LineRead
    <3>3. LastIs(Tail(Coming(k)), c, board[c])
      BY <1>1, <1>2, <2>1, <3>2, MessageRead DEF Agrees
    <3>5. LastIs(Coming(k), c, board[c])'
      BY <2>1, <3>2, <3>3 DEF LastIs
    <3>4. handler'[k] # "ranged" /\ k \notin snapshot'
      BY <2>1, <2>3 DEF connVars, HandlerFirst
    <3> QED BY <3>4, <3>5 DEF Agrees
  <2>4. CASE handler[k] \notin {"new", "upgraded"}
    <3>1. k \in clients \ slow
      BY <2>1, <2>4 DEF Fed, connVars
    <3>2. Coming(k)' = Coming(k)
      <4>1. send'[k] = Append(send[k], Head(broadcast))
        BY <2>1, <3>1
      <4>2. Append(send[k], Head(broadcast)) \o Tail(broadcast) = send[k] \o broadcast
        BY <1>2, <2>1, LineMoved
      <4> QED BY <2>1, <2>2, <4>1, <4>2 DEF Coming
    <3> QED BY <1>1, <2>1, <3>2, AgreesUnmoved DEF connVars
  <2> QED BY <2>3, <2>4
<1>12. ASSUME NEW j \in Conns, DropSlow(j) \/ ReaderLeaves(j) PROVE Agrees(k, c)'
  BY <1>3, <1>12 DEF DropSlow, ReaderLeaves, consumerVars, connVars
<1>13. ASSUME NEW j \in Conns, NEW ok \in BOOLEAN, Write(j, ok) PROVE Agrees(k, c)'
  <2>1. UNCHANGED <<handling, board, stale, broadcast, handler, ranged, snapshot>>
    BY <1>13 DEF Write, consumerVars
  <2>2. CASE j # k
    <3>1. send'[k] = send[k] /\ view'[k] = view[k] /\ writer'[k] = writer[k]
      BY <1>13, <2>2 DEF Write, TypeOK
    <3>2. Coming(k)' = Coming(k)
      BY <2>1, <3>1 DEF Coming, Announced
    <3> QED BY <1>1, <2>1, <3>1, <3>2, AgreesUnmoved
  <2>3. CASE j = k
    <3>1. /\ writer[k] = "writing" /\ send[k] # <<>> /\ send'[k] = Tail(send[k])
          /\ Head(send[k]) \in Runs
      BY <1>2, <1>13, <2>3, TailOfChannel DEF Write, TypeOK
    <3>2. Coming(k)' = Tail(Coming(k)) /\ Head(Coming(k)) = Head(send[k]) /\ Coming(k) # <<>>
      <4>1. Coming(k)' = (Tail(send[k]) \o broadcast) \o Announced
        BY <2>1, <3>1 DEF Coming, Announced
      <4>2. /\ Tail(send[k]) \o broadcast = Tail(send[k] \o broadcast)
            /\ Head(send[k] \o broadcast) = Head(send[k])
            /\ send[k] \o broadcast # <<>> /\ send[k] \o broadcast \in Seq(Runs)
        BY <1>2, <3>1, LineRead, ConcatProperties
      <4> QED BY <1>2, <4>1, <4>2, LineRead DEF Coming
    <3>3. LastIs(Coming(k), c, board[c])
      BY <1>1, <2>1 DEF Agrees
    <3>4. /\ LastIs(Tail(Coming(k)), c, board[c])
          /\ ContestantOf[Head(Coming(k))] = c /\ ~Carries(Tail(Coming(k)), c)
                => Head(Coming(k)) = board[c]
          /\ ContestantOf[Head(Coming(k))] # c /\ ~Carries(Tail(Coming(k)), c)
                => ~Carries(Coming(k), c)
      BY <1>2, <3>2, <3>3, MessageRead
    <3>5. LastIs(Coming(k), c, board[c])' /\ (Carries(Tail(Coming(k)), c) => Carries(Coming(k), c)')
      BY <2>1, <3>2, <3>4 DEF LastIs, Carries
    <3>6. handler'[k] = "done"
      BY <2>1, <3>1 DEF HandlerFirst
    <3>7. ASSUME ~Carries(Tail(Coming(k)), c), k \in snapshot, writer'[k] = "writing"
          PROVE  view'[k][c] = Shown(c)
      <4>1. ok
        BY <1>13, <2>3, <3>7 DEF Write, TypeOK
      <4>2. view' = [view EXCEPT ![k][ContestantOf[Head(send[k])]]
                                    = Row(Head(send[k]), Head(send[k]))]
        BY <1>13, <2>3, <4>1 DEF Write
      <4>3. CASE ContestantOf[Head(send[k])] = c
        <5>1. view'[k][c] = Row(Head(send[k]), Head(send[k]))
          BY <4>2, <4>3 DEF TypeOK
        <5>2. Head(send[k]) = board[c] /\ board[c] # None
          BY <3>1, <3>2, <3>4, <3>7, <4>3
        <5> QED BY <5>1, <5>2 DEF Shown
      <4>4. CASE ContestantOf[Head(send[k])] # c
        <5>1. view'[k][c] = view[k][c]
          BY <4>2, <4>4 DEF TypeOK
        <5>2. ~Carries(Coming(k), c)
          BY <3>2, <3>4, <3>7, <4>4
        <5> QED BY <1>1, <2>1, <3>1, <3>7, <5>1, <5>2 DEF Agrees
      <4> QED BY <4>3, <4>4
    <3> QED BY <2>1, <3>5, <3>6, <3>7 DEF Agrees, Shown
  <2> QED BY <2>2, <2>3
<1>14. ASSUME NEW j \in Conns, WriterEnds(j) \/ ReaderEnds(j) PROVE Agrees(k, c)'
  BY <1>3, <1>14 DEF WriterEnds, ReaderEnds, consumerVars, TypeOK
<1> QED
  BY <1>4, <1>5, <1>6, <1>7, <1>8, <1>9, <1>10, <1>11, <1>12, <1>13, <1>14 DEF Next

\* Whatever is written to Redis and broadcast while a connection is registered, its
\* snapshot read in two parts, and its messages written, the browser ends with what Redis
\* holds (main.go:106-120, leaderboard consumer/kafka.go:81-96, useLeaderboard.ts:33-54).
THEOREM BrowserShowsTheBoard == Safety => []ViewIsCurrent
<1>1. Init => HandlerFirst /\ FedAgree
  <2> SUFFICES ASSUME Init PROVE HandlerFirst /\ FedAgree
    OBVIOUS
  <2>1. HandlerFirst
    BY DEF Init, HandlerFirst
  <2>2. ASSUME NEW k \in Conns PROVE Coming(k) = <<>> /\ Len(Coming(k)) = 0
    BY DEF Init, Coming, Announced
  <2>3. \A k \in Conns, c \in Contestants : Agrees(k, c)
    BY <2>2 DEF Agrees, LastIs, Init
  <2> QED BY <2>1, <2>3 DEF FedAgree
<1>2. ViewInv /\ [Next]_vars => HandlerFirst' /\ FedAgree'
  BY HandlerStep, AgreeStep DEF ViewInv, FedAgree
<1>3. ViewInv => ViewIsCurrent
  <2> SUFFICES ASSUME ViewInv, NEW k \in snapshot \cap clients, NEW c \in Contestants,
                      writer[k] = "writing", k \notin missed, c \notin stale, ~Pending(k, c)
               PROVE  view[k][c] = Shown(c)
    BY DEF ViewIsCurrent
  <2>1. k \in Conns /\ Fed(k) /\ Agrees(k, c)
    BY DEF ViewInv, TypeOK, FedAgree, Fed
  <2>2. ~Carries(Coming(k), c)
    <3>1. /\ send[k] \in Seq(Runs) /\ broadcast \in Seq(Runs) /\ Announced \in Seq(Runs)
      BY <2>1, ComingTypes DEF ViewInv
    <3>2. \A i \in 1..Len(Announced) : ContestantOf[Announced[i]] # c
      BY DEF Announced, Pending
    <3>3. \A i \in 1..Len(send[k] \o broadcast) : ContestantOf[(send[k] \o broadcast)[i]] # c
      BY <3>1, ConcatProperties DEF Pending
    <3>4. send[k] \o broadcast \in Seq(Runs)
      BY <3>1
    <3> DEFINE front == send[k] \o broadcast
    <3>5. ASSUME NEW i \in 1..Len(front \o Announced) PROVE ContestantOf[(front \o Announced)[i]] # c
      <4> HIDE DEF front
      <4>1. /\ Len(front) \in Nat /\ Len(Announced) \in Nat
            /\ Len(front \o Announced) = Len(front) + Len(Announced)
            /\ (front \o Announced)[i]
                 = IF i <= Len(front) THEN front[i] ELSE Announced[i - Len(front)]
        BY <3>1, <3>4, ConcatProperties DEF front
      <4>2. CASE i <= Len(front)
        BY <3>3, <4>1, <4>2 DEF front
      <4>3. CASE ~(i <= Len(front))
        BY <3>2, <4>1, <4>3
      <4> QED BY <4>2, <4>3
    <3> QED BY <3>5 DEF Coming, Carries
  <2> QED BY <2>1, <2>2 DEF Agrees
<1> QED BY <1>1, <1>2, <1>3, TypeCorrect, ChannelInvariant, PTL DEF Safety, ViewInv

=============================================================================
