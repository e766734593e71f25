----------------------------- MODULE SubmitFlow -----------------------------
(***************************************************************************)
(* The submission form of the frontend: the hook useSubmitCode, which      *)
(* posts a submission and polls its status, the buttons of SubmitForm that *)
(* call it, and the gateway's rate limit, which every poll and every post  *)
(* of a contestant draws on.                                               *)
(*                                                                         *)
(* The calls of submitCode are numbered.  An answer may come at any time   *)
(* after its request, whatever was answered or clicked in between; what it *)
(* says is what was true at some moment on its way.  The unit of time is   *)
(* the second between two polls.  The two refs of the hook are set and     *)
(* cleared together, and are one variable here.                            *)
(***************************************************************************)
EXTENDS Integers, FiniteSets

CONSTANTS
    MaxCalls,     \* bound: calls of submitCode
    MaxOut,       \* bound: polls of a call on their way at once
    Timeout,      \* the 180 s after which the hook gives up
    Burst,        \* GLOBAL_RPM, the requests a contestant may make at once
    Cost,         \* of a request, of which Refill come back in a second:
    Refill        \* with 100 requests a minute, 3 and 5

ASSUME ConstantsAssumption ==
    /\ MaxCalls \in Nat
    /\ MaxOut \in Nat \ {0}
    /\ Timeout \in Nat \ {0}
    /\ Burst \in Nat \ {0}
    /\ Cost \in Nat \ {0}
    /\ Refill \in Nat /\ Cost <= Refill

Calls == 1..MaxCalls
Capacity == Burst * Cost     \* of a contestant's bucket
Stages == {"none", "token", "post", "done"}
Reported == {"queued", "running", "completed", "failed"}
Final == {"completed", "failed"}
Statuses == Reported \cup {"idle", "submitting", "error"}
Polls == Calls \X Reported   \* a poll is of a call, and sent in a status of its submission

VARIABLES
    form,        \* the component is "mounted" on the page, or "gone"
    status,      \* what it shows
    score,       \* the call whose score it shows, 0 for none
    last,        \* the last call of submitCode
    stage,       \* what a call is waiting for
    server,      \* the status of a call's submission
    ref,         \* the call that pollIntervalRef and pollTimeoutRef are of, 0 for null
    intervals,   \* calls whose interval is running
    left,        \* seconds until the timeout of a call fires and one, 0 for none
    polls,       \* polls on their way: of a call, sent when its submission was so
    tokens,      \* what is left in the contestant's bucket at the gateway
    posted,      \* history: calls that have sent POST /submissions
    late         \* history: calls of which an answer overwrote what was no longer theirs

pollingVars == <<ref, intervals, left>>
shownVars == <<status, score>>
gatewayVars == <<tokens, posted>>
vars == <<form, shownVars, last, stage, server, pollingVars, polls, gatewayVars, late>>

Init ==
    /\ form = "mounted"
    /\ status = "idle" /\ score = 0 /\ last = 0
    /\ stage = [c \in Calls |-> "none"]
    /\ server = [c \in Calls |-> "none"]
    /\ ref = 0 /\ intervals = {} /\ left = [c \in Calls |-> 0]
    /\ polls = [p \in Polls |-> 0]
    /\ tokens = Capacity /\ posted = {}
    /\ late = {}

mounted == form = "mounted"

\* The statuses in which the form is disabled.
Working == status \in {"submitting", "queued", "running"}

\* setStatus, which does nothing once the form is gone.
setStatus(s) == status' = IF mounted THEN s ELSE status

clearPolling ==
    /\ ref' = 0
    /\ intervals' = intervals \ {ref}
    /\ left' = [c \in Calls |-> IF c = ref THEN 0 ELSE left[c]]

---------------------------------------------------------------------------
(* The user *)

\* The button is there when the form is idle.
Submit ==
    /\ mounted /\ status = "idle" /\ last < MaxCalls
    /\ last' = last + 1
    /\ status' = "submitting" /\ score' = 0
    /\ clearPolling
    /\ stage' = [stage EXCEPT ![last + 1] = "token"]
    /\ UNCHANGED <<form, server, polls, gatewayVars, late>>

\* "Submit Another" and "Try Again".
Reset ==
    /\ mounted /\ status \in Final \cup {"error"}
    /\ status' = "idle" /\ score' = 0
    /\ clearPolling
    /\ UNCHANGED <<form, last, stage, server, polls, gatewayVars, late>>

Unmount ==
    /\ mounted
    /\ form' = "gone"
    /\ clearPolling
    /\ UNCHANGED <<shownVars, last, stage, server, polls, gatewayVars, late>>

---------------------------------------------------------------------------
(* submitCode *)

\* The catch of submitCode.
Fails(c) ==
    /\ stage' = [stage EXCEPT ![c] = "done"]
    /\ setStatus("error")
    /\ UNCHANGED <<form, score, last, server, pollingVars, polls, late>>

\* The token is refused, or does not come.
TokenFails(c) ==
    /\ stage[c] = "token"
    /\ Fails(c)
    /\ UNCHANGED gatewayVars

\* The token is there: the post is sent, and passes the global limiter or does not.
Post(c) ==
    /\ stage[c] = "token"
    /\ posted' = posted \cup {c}
    /\ IF tokens < Cost THEN Fails(c) /\ UNCHANGED tokens
       ELSE /\ tokens' = tokens - Cost
            /\ stage' = [stage EXCEPT ![c] = "post"]
            /\ UNCHANGED <<form, shownVars, last, server, pollingVars, polls, late>>

\* The limiter of submissions, the proxy or the service refuses it.
PostFails(c) ==
    /\ stage[c] = "post"
    /\ Fails(c)
    /\ UNCHANGED gatewayVars

Accepted_KeepsTimer(c) ==     \* mutant: no timeout is set
    /\ stage[c] = "post"
    /\ stage' = [stage EXCEPT ![c] = "done"]
    /\ server' = [server EXCEPT ![c] = "queued"]
    /\ setStatus("queued")
    /\ ref' = c
    /\ intervals' = intervals \cup {c}
    /\ UNCHANGED <<form, score, last, left, polls, gatewayVars, late>>

\* It is accepted: the interval and the timeout are set, and the refs are overwritten.
Accepted(c) ==
    /\ stage[c] = "post"
    /\ stage' = [stage EXCEPT ![c] = "done"]
    /\ server' = [server EXCEPT ![c] = "queued"]
    /\ setStatus("queued")
    /\ ref' = c
    /\ intervals' = intervals \cup {c}
    /\ left' = [left EXCEPT ![c] = Timeout + 1]
    /\ UNCHANGED <<form, score, last, polls, gatewayVars, late>>

---------------------------------------------------------------------------
(* Time, polls and their answers *)

\* What a poll sent when the submission was in state s may be answered, when it is in
\* state t.
Seen(s, t) ==
    {s, t} \cup (IF s = "queued" /\ t \in Final THEN {"running"} ELSE {})

\* The submission goes on (external: the submission service).
Advance(c) ==
    /\ \/ server[c] = "queued" /\ server' = [server EXCEPT ![c] = "running"]
       \/ server[c] \in {"queued", "running"}
          /\ \E s \in Final : server' = [server EXCEPT ![c] = s]
    /\ UNCHANGED <<form, shownVars, last, stage, pollingVars, polls, gatewayVars, late>>

Filled(amount) == IF amount > Capacity THEN Capacity ELSE amount

Tick_HalfSecond ==     \* mutant: an interval of 500 ms
    LET filled == Filled(tokens + Refill)
        cost == 2 * Cost * Cardinality(intervals)
    IN
    /\ \A c \in Calls : left[c] # 1
    /\ \A c \in intervals : polls[<<c, server[c]>>] < MaxOut
    /\ left' = [c \in Calls |-> IF left[c] = 0 THEN 0 ELSE left[c] - 1]
    /\ tokens' = IF cost > filled THEN 0 ELSE filled - cost
    /\ polls' = [p \in DOMAIN polls |->
                   IF p[1] \in intervals /\ p[2] = server[p[1]] THEN polls[p] + 1 ELSE polls[p]]
    /\ UNCHANGED <<form, shownVars, last, stage, server, ref, intervals, posted, late>>

\* A second passes: every interval polls, and the polls that the bucket lasts for pass.
Tick ==
    LET filled == Filled(tokens + Refill) IN
    /\ \A c \in Calls : left[c] # 1
    /\ \A c \in intervals : polls[<<c, server[c]>>] < MaxOut
    /\ left' = [c \in Calls |-> IF left[c] = 0 THEN 0 ELSE left[c] - 1]
    /\ \E passing \in SUBSET intervals :
          /\ Cost * Cardinality(passing) <= filled
          /\ passing = intervals \/ Cost * (Cardinality(passing) + 1) > filled
          /\ tokens' = filled - Cost * Cardinality(passing)
          /\ polls' = [p \in DOMAIN polls |->
                         IF p[1] \in passing /\ p[2] = server[p[1]] THEN polls[p] + 1
                         ELSE polls[p]]
    /\ UNCHANGED <<form, shownVars, last, stage, server, ref, intervals, posted, late>>

\* The timeout of a call fires: it clears whatever the refs name by then.
Expire(c) ==
    /\ left[c] = 1
    /\ ref' = 0
    /\ intervals' = intervals \ {ref}
    /\ left' = [d \in Calls |-> IF d \in {c, ref} THEN 0 ELSE left[d]]
    /\ setStatus("failed")
    /\ UNCHANGED <<form, score, last, stage, server, polls, gatewayVars, late>>

\* A poll is answered 404 or with an error, or is refused on its way: nothing happens.
NoAnswer(p) ==
    /\ polls[p] > 0
    /\ polls' = [polls EXCEPT ![p] = @ - 1]
    /\ UNCHANGED <<form, shownVars, last, stage, server, pollingVars, gatewayVars, late>>

\* The status t is of call c, which the form polls, or it is what the form shows anyway.
Timely(c, t) == ~ mounted \/ ref = c \/ (c = last /\ status = t)

Answer_PollsOn(p) ==     \* mutant: a final status does not clear the interval
    /\ polls[p] > 0
    /\ polls' = [polls EXCEPT ![p] = @ - 1]
    /\ \E t \in Seen(p[2], server[p[1]]) :
          /\ setStatus(t)
          /\ late' = IF Timely(p[1], t) THEN late ELSE late \cup {p[1]}
          /\ score' \in IF t \in Final /\ mounted THEN {score, p[1]} ELSE {score}
    /\ UNCHANGED <<form, last, stage, server, pollingVars, gatewayVars>>

\* A poll is answered with a status, whatever the form shows by then.
Answer(p) ==
    /\ polls[p] > 0
    /\ polls' = [polls EXCEPT ![p] = @ - 1]
    /\ \E t \in Seen(p[2], server[p[1]]) :
          /\ setStatus(t)
          /\ late' = IF Timely(p[1], t) THEN late ELSE late \cup {p[1]}
          /\ IF t \in Final THEN clearPolling ELSE UNCHANGED pollingVars
          /\ score' \in IF t \in Final /\ mounted THEN {score, p[1]} ELSE {score}
    /\ UNCHANGED <<form, last, stage, server, gatewayVars>>

---------------------------------------------------------------------------
TokenAnswer(c) == TokenFails(c) \/ Post(c)
PostAnswer(c) == PostFails(c) \/ Accepted(c)
PollAnswer(p) == NoAnswer(p) \/ Answer(p)

Next ==
    \/ Submit \/ Reset \/ Unmount
    \/ \E c \in Calls : TokenAnswer(c) \/ PostAnswer(c) \/ Advance(c) \/ Expire(c)
    \/ Tick
    \/ \E p \in Polls : PollAnswer(p)

Spec == Init /\ [][Next]_vars

\* Requests are answered or fail, and time passes.
Fairness ==
    /\ \A c \in Calls : WF_vars(TokenAnswer(c)) /\ WF_vars(PostAnswer(c)) /\ WF_vars(Expire(c))
    /\ \A p \in Polls : WF_vars(PollAnswer(p))
    /\ WF_vars(Tick)

FairSpec == Spec /\ Fairness

---------------------------------------------------------------------------
(* Properties *)

TypeOK ==
    /\ form \in {"mounted", "gone"}
    /\ status \in Statuses
    /\ score \in 0..MaxCalls /\ last \in 0..MaxCalls /\ ref \in 0..MaxCalls
    /\ stage \in [Calls -> Stages]
    /\ server \in [Calls -> Reported \cup {"none"}]
    /\ intervals \subseteq Calls
    /\ left \in [Calls -> 0..(Timeout + 1)]
    /\ polls \in [Polls -> Nat]
    /\ tokens \in 0..Capacity
    /\ posted \subseteq Calls
    /\ late \subseteq Calls

\* Until an answer comes late, one call of submitCode is in progress at most and it is the
\* last, its interval and timeout are the only ones and the refs name them, they run only
\* while the form waits, the score is its own, and a form that waits has something to wait
\* for (useSubmitCode.ts:14-23, 38-45, 51-108, SubmitForm.tsx:17, 135).
OnlyLateAnswersConfuse ==
    late = {} =>
        /\ \A c \in Calls : stage[c] \in {"token", "post"} => c = last
        /\ intervals = {ref} \ {0} /\ ref \in {0, last}
        /\ \A c \in Calls : left[c] # 0 <=> c = ref
        /\ mounted /\ ref # 0 => Working
        /\ score \in {0, last}
        /\ mounted /\ Working => stage[last] \in {"token", "post"} \/ ref = last

\* Until then, the polls of a form never use the bucket up: what is missing of it is at
\* most what the posts took, and one poll (useSubmitCode.ts:98-100, main.go:125,
\* limiter.go:31-32).
PollsLeaveTokens ==
    late = {} => tokens >= Capacity - Cost * (Cardinality(posted) + 1)

\* Unless an answer comes late, a form that waits comes to an end, whatever the services
\* do: the timeout sees to it (useSubmitCode.ts:102-108).
FormSettles == <>(late # {}) \/ (Working ~> (~ Working \/ ~ mounted))
=============================================================================
