-------------------------- MODULE SubmitFlowProofs --------------------------
(***************************************************************************)
(* Proofs about the submission form, for any number of calls and of polls  *)
(* on their way, any timeout, and any bucket that fills as fast as one     *)
(* interval empties it.                                                    *)
(***************************************************************************)
EXTENDS SubmitFlow, FiniteSetTheorems, TLAPS

\* A poll is of a call, and is answered with one of the statuses of a submission
\* (useSubmitCode.ts:38-40).
LEMMA PollParts ==
    /\ \A p \in Polls : p[1] \in Calls /\ p[2] \in Reported
    /\ \A s \in Reported, t \in Reported \cup {"none"} :
          Seen(s, t) \subseteq Reported \cup {t}
BY DEF Polls, Seen, Reported

\* Sizes of the bucket are numbers (limiter.go:31-32).
LEMMA CapacityType == Capacity \in Nat
BY ConstantsAssumption DEF Capacity

\* Clearing the polling leaves the refs null, and starts nothing (useSubmitCode.ts:14-23).
LEMMA Clearing ==
    TypeOK /\ clearPolling =>
        /\ ref' = 0
        /\ intervals' = intervals \ {ref} /\ intervals' \subseteq Calls
        /\ left' \in [Calls -> 0..(Timeout + 1)]
        /\ \A c \in Calls : left'[c] = IF c = ref THEN 0 ELSE left[c]
BY ConstantsAssumption DEF TypeOK, clearPolling

---------------------------------------------------------------------------
(* Which calls there have been *)

\* A call that has been made is numbered up to the last; only such a call has a stage, has
\* posted, is accepted, polls, or is named by the refs.
Known ==
    /\ \A c \in Calls : c > last => stage[c] = "none"
    /\ \A c \in posted : stage[c] \in {"post", "done"}
    /\ \A c \in Calls : server[c] = "none" => c # ref /\ c \notin intervals
    /\ \A p \in Polls : polls[p] > 0 => server[p[1]] # "none"
    /\ \A c \in Calls : server[c] # "none" => c <= last
    /\ ref <= last /\ score <= last

\* The types, and who polls (useSubmitCode.ts:51-108).
LEMMA KnownInvariant == Spec => [](TypeOK /\ Known)
<1> USE ConstantsAssumption, CapacityType
<1> DEFINE Inv == TypeOK /\ Known
<1>1. Init => Inv
  <2>1. Init => TypeOK
    BY DEF Init, TypeOK, Stages, Statuses
  <2>2. Init => Known
    BY PollParts DEF Init, Known, Calls
  <2>3. QED
    BY <2>1, <2>2
<1>2. Inv /\ [Next]_vars => Inv'
  <2> SUFFICES ASSUME TypeOK, Known, [Next]_vars PROVE TypeOK' /\ Known'
    BY Zenon
  <2> USE DEF pollingVars, shownVars, gatewayVars, mounted, Final, Stages, Statuses
  <2>1. CASE Submit
    <3>1. clearPolling
      BY <2>1 DEF Submit
    <3>2. /\ ref' = 0
          /\ intervals' = intervals \ {ref} /\ intervals' \subseteq Calls
          /\ left' \in [Calls -> 0..(Timeout + 1)]
      BY <3>1, Clearing
    <3>3. TypeOK'
      <4>1. last' \in 0..MaxCalls /\ ref' \in 0..MaxCalls /\ score' \in 0..MaxCalls
        BY <2>1, <3>2 DEF TypeOK, Submit
      <4>2. stage' \in [Calls -> Stages] /\ status' \in Statuses
        BY <2>1 DEF TypeOK, Submit
      <4>3. UNCHANGED <<form, server, polls, gatewayVars, late>>
        BY <2>1 DEF Submit
      <4>4. QED
        BY <3>2, <4>1, <4>2, <4>3 DEF TypeOK
    <3>4. Known'
      BY <2>1, <3>2 DEF TypeOK, Known, Submit, Calls
    <3>5. QED
      BY <3>3, <3>4
  <2>2. CASE Reset
    <3>1. clearPolling
      BY <2>2 DEF Reset
    <3>2. /\ ref' = 0
          /\ intervals' = intervals \ {ref} /\ intervals' \subseteq Calls
          /\ left' \in [Calls -> 0..(Timeout + 1)]
      BY <3>1, Clearing
    <3>3. TypeOK'
      BY <2>2, <3>2 DEF TypeOK, Reset
    <3>4. Known'
      BY <2>2, <3>2 DEF TypeOK, Known, Reset, Calls
    <3>5. QED
      BY <3>3, <3>4
  <2>3. CASE Unmount
    <3>1. clearPolling
      BY <2>3 DEF Unmount
    <3>2. /\ ref' = 0
          /\ intervals' = intervals \ {ref} /\ intervals' \subseteq Calls
          /\ left' \in [Calls -> 0..(Timeout + 1)]
      BY <3>1, Clearing
    <3>3. TypeOK'
      BY <2>3, <3>2 DEF TypeOK, Unmount
    <3>4. Known'
      BY <2>3, <3>2 DEF TypeOK, Known, Unmount, Calls
    <3>5. QED
      BY <3>3, <3>4
  <2>4. ASSUME NEW c \in Calls, TokenFails(c) PROVE TypeOK' /\ Known'
    <3>1. TypeOK'
      BY <2>4 DEF TypeOK, TokenFails, Fails, setStatus
    <3>2. Known'
      BY <2>4 DEF TypeOK, Known, TokenFails, Fails, setStatus, Calls
    <3>3. QED
      BY <3>1, <3>2
  <2>5. ASSUME NEW c \in Calls, Post(c) PROVE TypeOK' /\ Known'
    <3>1. TypeOK'
      BY <2>5 DEF TypeOK, Post, Fails, setStatus
    <3>2. Known'
      <4>1. /\ stage[c] = "token" /\ posted' = posted \cup {c}
            /\ \E s \in {"post", "done"} : stage' = [stage EXCEPT ![c] = s]
            /\ UNCHANGED <<last, server, pollingVars, polls, score>>
        BY <2>5 DEF Post, Fails
      <4>2. QED
        BY <2>5, <4>1 DEF TypeOK, Known
    <3>3. QED
      BY <3>1, <3>2
  <2>6. ASSUME NEW c \in Calls, PostFails(c) PROVE TypeOK' /\ Known'
    <3>1. TypeOK'
      BY <2>6 DEF TypeOK, PostFails, Fails, setStatus
    <3>2. Known'
      BY <2>6 DEF TypeOK, Known, PostFails, Fails, setStatus, Calls
    <3>3. QED
      BY <3>1, <3>2
  <2>7. ASSUME NEW c \in Calls, Accepted(c) PROVE TypeOK' /\ Known'
    <3>1. TypeOK'
      BY <2>7 DEF TypeOK, Accepted, setStatus, Calls, Reported
    <3>2. Known'
      BY <2>7 DEF TypeOK, Known, Accepted, Calls
    <3>3. QED
      BY <3>1, <3>2
  <2>8. ASSUME NEW c \in Calls, Advance(c) PROVE TypeOK' /\ Known'
    <3>1. TypeOK'
      BY <2>8 DEF TypeOK, Advance, Reported
    <3>2. Known'
      BY <2>8, PollParts DEF TypeOK, Known, Advance
    <3>3. QED
      BY <3>1, <3>2
  <2>9. CASE Tick
    <3>1. PICK passing \in SUBSET intervals :
             /\ Cost * Cardinality(passing) <= Filled(tokens + Refill)
             /\ tokens' = Filled(tokens + Refill) - Cost * Cardinality(passing)
             /\ polls' = [p \in DOMAIN polls |->
                            IF p[1] \in passing /\ p[2] = server[p[1]] THEN polls[p] + 1
                            ELSE polls[p]]
      BY <2>9 DEF Tick
    <3>2. IsFiniteSet(Calls)
      BY FS_Interval DEF Calls
    <3>3. Cardinality(passing) \in Nat
      BY <2>9, <3>2, FS_Subset, FS_CardinalityType DEF TypeOK
    <3>4. Cost * Cardinality(passing) \in Nat /\ Filled(tokens + Refill) \in 0..Capacity
      BY <3>3 DEF TypeOK, Filled
    <3>5. tokens' \in 0..Capacity
      BY <3>1, <3>4
    <3>6. polls' \in [Polls -> Nat]
      BY <3>1 DEF TypeOK
    <3>7. left' \in [Calls -> 0..(Timeout + 1)]
      BY <2>9 DEF TypeOK, Tick
    <3>8. UNCHANGED <<form, shownVars, last, stage, server, ref, intervals, posted, late>>
      BY <2>9 DEF Tick
    <3>9. TypeOK'
      BY <3>5, <3>6, <3>7, <3>8 DEF TypeOK
    <3>10. \A p \in Polls : polls'[p] > 0 => server'[p[1]] # "none"
      BY <3>1, <3>8, PollParts DEF TypeOK, Known
    <3>11. QED
      BY <3>8, <3>9, <3>10 DEF Known
  <2>10. ASSUME NEW c \in Calls, Expire(c) PROVE TypeOK' /\ Known'
    <3>1. TypeOK'
      BY <2>10 DEF TypeOK, Expire, setStatus, Calls, Reported
    <3>2. Known'
      BY <2>10 DEF TypeOK, Known, Expire, Calls
    <3>3. QED
      BY <3>1, <3>2
  <2>11. ASSUME NEW p \in Polls, NoAnswer(p) PROVE TypeOK' /\ Known'
    <3>1. TypeOK'
      BY <2>11 DEF TypeOK, NoAnswer
    <3>2. Known'
      BY <2>11, PollParts DEF TypeOK, Known, NoAnswer
    <3>3. QED
      BY <3>1, <3>2
  <2>12. ASSUME NEW p \in Polls, Answer(p) PROVE TypeOK' /\ Known'
    <3>1. PICK t \in Seen(p[2], server[p[1]]) :
             /\ setStatus(t)
             /\ IF t \in Final THEN clearPolling ELSE UNCHANGED pollingVars
             /\ score' \in IF t \in Final /\ mounted THEN {score, p[1]} ELSE {score}
      BY <2>12 DEF Answer
    <3>2. polls[p] > 0 /\ p[1] \in Calls /\ server[p[1]] # "none"
      BY <2>12, PollParts DEF Known, Answer
    <3>3. t \in Reported
      BY <3>2, PollParts DEF TypeOK
    <3>4. /\ polls' = [polls EXCEPT ![p] = @ - 1] /\ late' \subseteq Calls
          /\ UNCHANGED <<form, last, stage, server, gatewayVars>>
      BY <2>12, PollParts DEF TypeOK, Answer
    <3>5. /\ ref' \in {0, ref} /\ intervals' \subseteq intervals
          /\ left' \in [Calls -> 0..(Timeout + 1)]
      <4>1. CASE t \in Final
        BY <3>1, <4>1, Clearing
      <4>2. CASE t \notin Final
        BY <3>1, <4>2 DEF TypeOK
      <4>3. QED
        BY <4>1, <4>2
    <3>6. status' \in Statuses /\ score' \in {score, p[1]}
      BY <3>1, <3>3 DEF TypeOK, setStatus
    <3>7. TypeOK'
      <4>1. polls' \in [Polls -> Nat]
        BY <3>2, <3>4 DEF TypeOK
      <4>2. score' \in 0..MaxCalls /\ ref' \in 0..MaxCalls /\ intervals' \subseteq Calls
        <5>1. /\ score \in 0..MaxCalls /\ ref \in 0..MaxCalls /\ intervals \subseteq Calls
              /\ p[1] \in 0..MaxCalls /\ 0 \in 0..MaxCalls
          BY <3>2 DEF TypeOK, Calls
        <5>2. QED
          BY <3>5, <3>6, <5>1
      <4>3. QED
        BY <3>4, <3>5, <3>6, <4>1, <4>2 DEF TypeOK
    <3>8. Known'
      <4>1. \A q \in Polls : polls'[q] > 0 => server'[q[1]] # "none"
        BY <3>2, <3>4 DEF TypeOK, Known
      <4>2. \A c \in Calls : server'[c] = "none" => c # ref' /\ c \notin intervals'
        BY <3>4, <3>5 DEF Known, Calls
      <4>3. ref' <= last' /\ score' <= last'
        BY <3>2, <3>4, <3>5, <3>6 DEF TypeOK, Known
      <4>4. QED
        BY <3>4, <4>1, <4>2, <4>3 DEF Known
    <3>9. QED
      BY <3>7, <3>8
  <2>13. CASE UNCHANGED vars
    BY <2>13 DEF vars, TypeOK, Known
  <2>14. QED
    BY <2>1, <2>2, <2>3, <2>4, <2>5, <2>6, <2>7, <2>8, <2>9, <2>10, <2>11, <2>12, <2>13
    DEF Next, TokenAnswer, PostAnswer, PollAnswer
<1>3. QED
  BY <1>1, <1>2, PTL DEF Spec

\* The form, its calls and the bucket keep their types, and the bucket its size
\* (useSubmitCode.ts:6-12, limiter.go:31-32).
THEOREM TypeCorrect == Spec => []TypeOK
BY KnownInvariant, PTL

---------------------------------------------------------------------------
(* The form without a late answer *)

\* While a call waits for its token or its post, the refs are null and the form says so.
Submitting ==
    late = {} =>
        \A c \in Calls : stage[c] \in {"token", "post"} =>
            ref = 0 /\ (mounted => status = "submitting")

\* Only answers add to late (useSubmitCode.ts:38).
LEMMA LateGrows == [Next]_vars /\ late' = {} => late = {}
BY Zenon DEF Next, vars, TokenAnswer, PostAnswer, PollAnswer, Submit, Reset, Unmount, TokenFails,
   Post, PostFails, Fails, Accepted, Advance, Tick, Expire, NoAnswer, Answer

\* The button is disabled while a call is in progress or polled, and a call sets what it
\* starts in one step: without a late answer the refs know all there is to clear
\* (useSubmitCode.ts:14-23, 51-108, SubmitForm.tsx:17, 132-135).
THEOREM CallsDoNotMeet == Spec => []OnlyLateAnswersConfuse
<1> USE ConstantsAssumption
<1> DEFINE Inv == OnlyLateAnswersConfuse /\ Submitting
<1>1. Init => Inv
  BY DEF Init, OnlyLateAnswersConfuse, Submitting, Calls, Working
<1>2. TypeOK /\ Known /\ Inv /\ [Next]_vars => Inv'
  <2> SUFFICES ASSUME TypeOK, Known, Inv, [Next]_vars, late' = {} PROVE Inv'
    BY DEF OnlyLateAnswersConfuse, Submitting
  <2>0. late = {}
    BY LateGrows
  <2> USE DEF pollingVars, shownVars, gatewayVars, mounted, Final, Working,
          OnlyLateAnswersConfuse, Submitting
  <2>1. CASE Submit
    <3>1. clearPolling
      BY <2>1 DEF Submit
    <3>2. /\ ref' = 0 /\ intervals' = intervals \ {ref}
          /\ \A c \in Calls : left'[c] = IF c = ref THEN 0 ELSE left[c]
      BY <3>1, Clearing
    <3>3. \A c \in Calls : stage[c] \notin {"token", "post"}
      BY <2>0, <2>1 DEF Submit
    <3>4. QED
      BY <2>0, <2>1, <3>2, <3>3 DEF TypeOK, Submit, Calls
  <2>2. CASE Reset
    <3>1. clearPolling
      BY <2>2 DEF Reset
    <3>2. /\ ref' = 0 /\ intervals' = intervals \ {ref}
          /\ \A c \in Calls : left'[c] = IF c = ref THEN 0 ELSE left[c]
      BY <3>1, Clearing
    <3>3. \A c \in Calls : stage[c] \notin {"token", "post"}
      BY <2>0, <2>2 DEF Reset
    <3>4. QED
      BY <2>0, <2>2, <3>2, <3>3 DEF Reset, Calls
  <2>3. CASE Unmount
    <3>1. clearPolling
      BY <2>3 DEF Unmount
    <3>2. /\ ref' = 0 /\ intervals' = intervals \ {ref}
          /\ \A c \in Calls : left'[c] = IF c = ref THEN 0 ELSE left[c]
      BY <3>1, Clearing
    <3>3. QED
      BY <2>0, <2>3, <3>2 DEF Unmount, Calls
  <2>4. ASSUME NEW c \in Calls, stage[c] \in {"token", "post"}, Fails(c) PROVE Inv'
    BY <2>0, <2>4 DEF TypeOK, Fails, setStatus
  <2>5. ASSUME NEW c \in Calls, Post(c) PROVE Inv'
    <3>1. CASE tokens < Cost
      BY <2>4, <2>5, <3>1 DEF Post
    <3>2. CASE ~ (tokens < Cost)
      BY <2>0, <2>5, <3>2 DEF TypeOK, Post
    <3>3. QED
      BY <3>1, <3>2
  <2>6. ASSUME NEW c \in Calls, Accepted(c) PROVE Inv'
    BY <2>0, <2>6 DEF TypeOK, Accepted, setStatus, Calls
  <2>7. ASSUME NEW c \in Calls, Advance(c) PROVE Inv'
    BY <2>0, <2>7 DEF Advance
  <2>8. CASE Tick
    <3>1. \A c \in Calls : left'[c] # 0 <=> left[c] # 0
      BY <2>8 DEF TypeOK, Tick
    <3>2. QED
      BY <2>0, <2>8, <3>1 DEF Tick
  <2>9. ASSUME NEW c \in Calls, Expire(c) PROVE Inv'
    <3>1. c = ref
      BY <2>0, <2>9 DEF Expire
    <3>2. QED
      BY <2>0, <2>9, <3>1 DEF TypeOK, Expire, setStatus, Calls
  <2>10. ASSUME NEW p \in Polls, NoAnswer(p) PROVE Inv'
    BY <2>0, <2>10 DEF NoAnswer
  <2>11. ASSUME NEW p \in Polls, Answer(p) PROVE Inv'
    <3>1. PICK t \in Seen(p[2], server[p[1]]) :
             /\ setStatus(t) /\ Timely(p[1], t)
             /\ IF t \in Final THEN clearPolling ELSE UNCHANGED pollingVars
             /\ score' \in IF t \in Final /\ mounted THEN {score, p[1]} ELSE {score}
      BY <2>0, <2>11 DEF Answer
    <3>2. p[1] \in Calls /\ t \in Reported
      <4>1. polls[p] > 0 /\ p[1] \in Calls /\ p[2] \in Reported
        BY <2>11, PollParts DEF Answer
      <4>2. server[p[1]] \in Reported
        BY <4>1 DEF TypeOK, Known
      <4>3. QED
        BY <3>1, <4>1, <4>2, PollParts
    <3>3. UNCHANGED <<form, last, stage>>
      BY <2>11 DEF Answer
    <3>4. /\ (ref' = 0 /\ t \in Final) \/ (ref' = ref /\ t \notin Final)
          /\ intervals' = {ref'} \ {0}
          /\ \A c \in Calls : left'[c] # 0 <=> c = ref'
      <4>1. CASE t \in Final
        BY <2>0, <3>1, <4>1, Clearing DEF Calls
      <4>2. CASE t \notin Final
        BY <2>0, <3>1, <4>2
      <4>3. QED
        BY <4>1, <4>2
    <3>5. CASE ~ mounted
      BY <2>0, <3>1, <3>3, <3>4, <3>5 DEF setStatus
    <3>6. CASE mounted /\ ref = p[1]
      BY <2>0, <3>1, <3>2, <3>3, <3>4, <3>6 DEF setStatus, Reported, Calls
    <3>7. CASE mounted /\ p[1] = last /\ status = t
      BY <2>0, <3>1, <3>2, <3>3, <3>4, <3>7 DEF setStatus, Reported, Calls
    <3>8. QED
      BY <3>1, <3>5, <3>6, <3>7 DEF Timely
  <2>12. CASE UNCHANGED vars
    BY <2>0, <2>12 DEF vars
  <2>13. QED
    BY <2>1, <2>2, <2>3, <2>4, <2>5, <2>6, <2>7, <2>8, <2>9, <2>10, <2>11, <2>12
    DEF Next, TokenAnswer, PostAnswer, PollAnswer, TokenFails, PostFails
<1>3. QED
  BY <1>1, <1>2, KnownInvariant, PTL DEF Spec

---------------------------------------------------------------------------
(* The bucket *)

\* As many as have been posted, and more by one after another post.
LEMMA PostedCounted ==
    /\ TypeOK => Cardinality(posted) \in Nat
    /\ \A c \in Calls : TypeOK /\ c \notin posted =>
          Cardinality(posted \cup {c}) = Cardinality(posted) + 1
<1>1. IsFiniteSet(Calls)
  BY ConstantsAssumption, FS_Interval DEF Calls
<1>2. TypeOK => IsFiniteSet(posted)
  BY <1>1, FS_Subset DEF TypeOK
<1>3. QED
  BY <1>2, FS_CardinalityType, FS_AddElement

\* One interval takes from the bucket no more than comes back, so that only the posts are
\* missing from it and the last poll (useSubmitCode.ts:98-100, limiter.go:31-32).
THEOREM PollsDoNotExhaust == Spec => []PollsLeaveTokens
<1> USE ConstantsAssumption, CapacityType
<1>1. Init => PollsLeaveTokens
  <2>1. ASSUME Init PROVE Cardinality(posted) = 0
    BY <2>1, FS_EmptySet DEF Init
  <2>2. QED
    BY <2>1 DEF Init, PollsLeaveTokens
<1>2. TypeOK /\ Known /\ OnlyLateAnswersConfuse /\ PollsLeaveTokens /\ [Next]_vars
         => PollsLeaveTokens'
  <2> SUFFICES ASSUME TypeOK, Known, OnlyLateAnswersConfuse, PollsLeaveTokens, [Next]_vars,
                      late' = {}
               PROVE  tokens' >= Capacity - Cost * (Cardinality(posted') + 1)
    BY DEF PollsLeaveTokens
  <2> DEFINE n == Cardinality(posted)
  <2>0. /\ n \in Nat /\ tokens \in Nat /\ tokens >= Capacity - Cost * (n + 1)
        /\ Cost * n \in Nat /\ Cost * (n + 1) = Cost * n + Cost
        /\ Cost * (n + 2) = Cost * n + Cost + Cost
    BY LateGrows, PostedCounted DEF PollsLeaveTokens, TypeOK
  <2>1. ASSUME NEW c \in Calls, Post(c) PROVE tokens' >= Capacity - Cost * (Cardinality(posted') + 1)
    <3>1. c \notin posted
      BY <2>1 DEF Post, Known
    <3>2. Cardinality(posted') = n + 1
      BY <2>1, <3>1, PostedCounted DEF Post
    <3>3. tokens' \in {tokens, tokens - Cost}
      BY <2>1 DEF Post
    <3>4. Cost * (Cardinality(posted') + 1) = Cost * n + Cost + Cost
      BY <2>0, <3>2
    <3>5. QED
      BY <2>0, <3>3, <3>4
  <2>2. CASE Tick
    <3>1. PICK passing \in SUBSET intervals :
             tokens' = Filled(tokens + Refill) - Cost * Cardinality(passing)
      BY <2>2 DEF Tick
    <3>2. Cardinality(passing) \in {0, 1}
      <4>1. passing = {} \/ passing = {ref}
        BY LateGrows DEF OnlyLateAnswersConfuse
      <4>2. QED
        BY <4>1, FS_EmptySet, FS_Singleton
    <3>3. Cost * Cardinality(passing) \in {0, Cost}
      BY <3>2
    <3>4. posted' = posted
      BY <2>2 DEF Tick
    <3>5. QED
      BY <2>0, <3>1, <3>3, <3>4 DEF Filled
  <2>3. CASE UNCHANGED gatewayVars
    BY <2>0, <2>3 DEF gatewayVars
  <2>4. QED
    <3>1. ASSUME NEW c \in Calls, TokenFails(c) \/ PostAnswer(c) \/ Advance(c) \/ Expire(c)
          PROVE  UNCHANGED gatewayVars
      BY <3>1 DEF TokenFails, PostAnswer, PostFails, Accepted, Advance, Expire, gatewayVars
    <3>2. ASSUME NEW p \in Polls, PollAnswer(p) PROVE UNCHANGED gatewayVars
      BY <3>2 DEF PollAnswer, NoAnswer, Answer, gatewayVars
    <3>3. Submit \/ Reset \/ Unmount \/ UNCHANGED vars => UNCHANGED gatewayVars
      BY DEF Submit, Reset, Unmount, vars, gatewayVars
    <3>4. QED
      BY <2>1, <2>2, <2>3, <3>1, <3>2, <3>3 DEF Next, TokenAnswer
<1>3. QED
  BY <1>1, <1>2, KnownInvariant, CallsDoNotMeet, PTL DEF Spec
=============================================================================
