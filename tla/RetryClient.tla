----------------------------- MODULE RetryClient -----------------------------
(***************************************************************************)
(* client/api.py: one OpenRouterClient and the calls of chat_completion    *)
(* and chat_completion_stream its owner makes on it, one after the other,  *)
(* before aclose().  Both owners in the program (`bench run` and the       *)
(* server's /api/chat) use it this way; neither streams yet.               *)
(*                                                                         *)
(* One step is what the event loop runs between two awaits: the POST is    *)
(* one await, the backoff sleep is another.  Tenacity runs, after a failed *)
(* attempt and before the sleep: the retry predicate, the wait function,   *)
(* the stop condition, then before_sleep (_record_retry).  A stream is an  *)
(* async generator: at each yield it is its caller's turn, and a caller    *)
(* that breaks out of its loop leaves the generator suspended until the    *)
(* event loop finalizes it.                                                *)
(***************************************************************************)
EXTENDS Integers, Sequences

CONSTANTS MaxRetries,     \* max_retries of the client; 0 and below still post once
          Multiplier, MinWait, MaxWait,       \* BackoffPolicy, in time units
          NoHeader,       \* Retry-After absent, or not a number
          RetryAfters,    \* the Retry-After values replies may carry
          MaxCalls,       \* bound on the calls and streams made on the client
          MaxDeltas       \* bound on the text deltas of one stream

MaxAttempts == IF MaxRetries > 1 THEN MaxRetries ELSE 1

ASSUME ClientAssumption ==
    /\ MaxRetries \in Int
    /\ MinWait \in Nat /\ MaxWait \in Nat
    /\ \A n \in 1 .. MaxAttempts : Multiplier * 2^(n - 1) \in Nat
    /\ NoHeader \notin Int
    /\ RetryAfters \subseteq Int
    /\ MaxCalls \in Nat
    /\ MaxDeltas \in Nat

\* Mutant of Retryable: a body that does not parse is asked for again.
RetryableWithBodies == {"RateLimitError", "ServerError", "TransportError", "MalformedBody"}

Retryable == {"RateLimitError", "ServerError", "TransportError"}
\* A 4xx, or a 5xx that is not listed; a 2xx or 3xx reply whose body is not a
\* completion; the task is cancelled.
Fatal == {"ClientAPIError", "MalformedBody", "CancelledError"}
Exceptions == Retryable \cup Fatal
Outcome == {"response"} \cup Exceptions
\* How a stream ends for its caller.
StreamEnd == {"complete", "error", "abandoned"}

VARIABLES
    phase,            \* "idle" (no call), "posting", "backoff", "closed";
                      \* of a stream "sending", "reading", "yielded"
    attempt,          \* retry_state.attempt_number
    sleep,            \* next_action.sleep
    throttleEvents,   \* the client's log of retries, over all its calls
    pool,             \* the lazily opened connection pool: "none" or "open"
    parts,            \* number of content_parts of the latest stream
    open,             \* the streams whose response holds a connection
    \* What an observer of the callers and of the provider sees.
    outcomes,         \* what each finished call gave its caller
    callBase,         \* length of throttleEvents when the current call began
    billed,           \* attempts of the current call that the provider executed
    slept,            \* time the current call has spent sleeping
    delivered,        \* text deltas the latest stream has given its caller
    finals,           \* number of parts in each final response it has given
    streams           \* how each finished stream ended

callVars == <<attempt, sleep, throttleEvents, outcomes, callBase, billed, slept>>
streamVars == <<parts, open, delivered, finals, streams>>
vars == <<phase, pool, callVars, streamVars>>

-----------------------------------------------------------------------------
Least(a, b) == IF a <= b THEN a ELSE b
Greatest(a, b) == IF a >= b THEN a ELSE b

\* _retry_after: a number, clipped at zero; NoHeader stands for None.
ParsedRetryAfter(h) == IF h = NoHeader THEN NoHeader ELSE Greatest(h, 0)

\* Mutant of Backoff: the exponential is not capped.
BackoffUncapped(n, retryAfter) ==
    IF retryAfter # NoHeader /\ retryAfter > 0
    THEN Least(retryAfter, MaxWait)
    ELSE Greatest(Multiplier * 2^(n - 1), MinWait)

\* Mutant of Backoff: the provider's Retry-After is not capped.
BackoffTrusting(n, retryAfter) ==
    IF retryAfter # NoHeader /\ retryAfter > 0
    THEN retryAfter
    ELSE Least(Greatest(Multiplier * 2^(n - 1), MinWait), MaxWait)

\* BackoffPolicy.compute: a positive Retry-After wins over the exponential.
Backoff(n, retryAfter) ==
    IF retryAfter # NoHeader /\ retryAfter > 0
    THEN Least(retryAfter, MaxWait)
    ELSE Least(Greatest(Multiplier * 2^(n - 1), MinWait), MaxWait)

RetryEvents == [attempt : 1 .. MaxAttempts, reason : Exceptions, wait : 0 .. MaxWait]

Init == /\ phase = "idle"
        /\ attempt = 0
        /\ sleep = 0
        /\ throttleEvents = <<>>
        /\ pool = "none"
        /\ outcomes = <<>>
        /\ callBase = 0
        /\ billed = {}
        /\ slept = 0
        /\ parts = 0
        /\ open = {}
        /\ delivered = 0
        /\ finals = <<>>
        /\ streams = <<>>

\* The calls and streams begun before the next one.
Used == Len(outcomes) + Len(streams)

\* _post_once: sends the request, opening the pool if there is none.
PostOnce(n) == /\ phase' = "posting"
               /\ attempt' = n
               /\ pool' = "open"

EndCall(outcome) == /\ phase' = "idle"
                    /\ outcomes' = Append(outcomes, outcome)
                    /\ UNCHANGED <<attempt, sleep, throttleEvents, pool, callBase, slept, streamVars>>

StartCall == /\ phase = "idle"
             /\ Used < MaxCalls
             /\ PostOnce(1)
             /\ callBase' = Len(throttleEvents)
             /\ billed' = {}
             /\ slept' = 0
             /\ UNCHANGED <<sleep, throttleEvents, outcomes, streamVars>>

\* Whether a request that failed was executed is not known here: its reply may
\* be lost or unreadable, and a gateway may give up (502, 503, 504, 524) on a
\* completion that goes on behind it.  Only a 429 says that nothing ran.
MaybeBilled(exc) == \/ billed' = billed
                    \/ /\ exc # "RateLimitError"
                       /\ billed' = billed \cup {attempt}

Answered == /\ phase = "posting"
            /\ billed' = billed \cup {attempt}
            /\ EndCall("response")

\* The attempt failed, the predicate wants a retry and the budget allows it:
\* before_sleep logs the event, then the coroutine sleeps.
Retry(exc, retryAfter) ==
    LET wait == Backoff(attempt, retryAfter) IN
    /\ exc \in Retryable
    /\ attempt < MaxAttempts
    /\ phase' = "backoff"
    /\ sleep' = wait
    /\ throttleEvents' = Append(throttleEvents,
                                [attempt |-> attempt, reason |-> exc, wait |-> wait])
    /\ UNCHANGED <<attempt, pool, outcomes, callBase, slept, streamVars>>

\* Mutant of Raise: the log is written after every failed attempt.
RaiseLogging(exc) ==
    /\ exc \in Fatal \/ attempt >= MaxAttempts
    /\ phase' = "idle"
    /\ outcomes' = Append(outcomes, exc)
    /\ throttleEvents' = Append(throttleEvents, [attempt |-> attempt, reason |-> exc, wait |-> 0])
    /\ UNCHANGED <<attempt, sleep, pool, callBase, slept, streamVars>>

\* reraise=True: the caller gets the exception of the last attempt.
Raise(exc) == /\ exc \in Fatal \/ attempt >= MaxAttempts
              /\ EndCall(exc)

Failed == /\ phase = "posting"
          /\ \E exc \in Exceptions :
                /\ MaybeBilled(exc)
                /\ \/ Raise(exc)
                   \/ \E h \in RetryAfters \cup {NoHeader} :
                        /\ exc = "TransportError" => h = NoHeader
                        /\ Retry(exc, ParsedRetryAfter(h))

\* Mutant of WakeUp: the budget is checked again, one too early.
WakeUpChecking == /\ phase = "backoff"
                  /\ attempt + 1 < MaxAttempts
                  /\ PostOnce(attempt + 1)
                  /\ slept' = slept + sleep
                  /\ UNCHANGED <<sleep, throttleEvents, outcomes, callBase, billed, streamVars>>

WakeUp == /\ phase = "backoff"
          /\ PostOnce(attempt + 1)
          /\ slept' = slept + sleep
          /\ UNCHANGED <<sleep, throttleEvents, outcomes, callBase, billed, streamVars>>

\* Ctrl-C, or the server shutting down, while the coroutine sleeps.
CancelledAsleep == /\ phase = "backoff"
                   /\ EndCall("CancelledError")
                   /\ UNCHANGED billed

-----------------------------------------------------------------------------
(* chat_completion_stream.                                                 *)

\* Mutant of StartStream: the parts are kept from the stream before.
StartStreamKeepingParts == /\ phase = "idle"
                           /\ Used < MaxCalls
                           /\ phase' = "sending"
                           /\ pool' = "open"
                           /\ delivered' = 0
                           /\ finals' = <<>>
                           /\ UNCHANGED <<callVars, parts, open, streams>>

StartStream == /\ phase = "idle"
               /\ Used < MaxCalls
               /\ phase' = "sending"
               /\ pool' = "open"
               /\ parts' = 0
               /\ delivered' = 0
               /\ finals' = <<>>
               /\ UNCHANGED <<callVars, open, streams>>

Current == Len(streams) + 1

\* The generator is left or returns; only its `finally` closes the response.
EndStream(end) == /\ phase' = "idle"
                  /\ streams' = Append(streams, end)
                  /\ UNCHANGED <<callVars, pool, parts, delivered, finals>>

\* send() raises before there is a response.
SendRaises == /\ phase = "sending"
              /\ EndStream("error")
              /\ UNCHANGED open

\* Mutant of BadStatus: raise_for_status() stands before the `try`.
BadStatusUnguarded == /\ phase = "sending"
                      /\ EndStream("error")
                      /\ open' = open \cup {Current}

\* raise_for_status() raises: no retry here, and the response is closed.
BadStatus == /\ phase = "sending"
             /\ EndStream("error")
             /\ open' = open \ {Current}

StreamOpens == /\ phase = "sending"
               /\ phase' = "reading"
               /\ open' = open \cup {Current}
               /\ UNCHANGED <<callVars, pool, parts, delivered, finals, streams>>

\* A line with text; lines without (comments, usage, [DONE]) change no state here.
Delta == /\ phase = "reading"
         /\ parts < MaxDeltas
         /\ phase' = "yielded"
         /\ parts' = parts + 1
         /\ delivered' = delivered + 1
         /\ UNCHANGED <<callVars, pool, open, finals, streams>>

\* The body ends, with or without [DONE]: the aggregated response is yielded.
Final == /\ phase = "reading"
         /\ phase' = "yielded"
         /\ finals' = Append(finals, parts)
         /\ UNCHANGED <<callVars, pool, open, parts, delivered, streams>>

\* The connection breaks, a line is no JSON, the task is cancelled.
StreamBreaks == /\ phase = "reading"
                /\ EndStream("error")
                /\ open' = open \ {Current}

\* The caller asks for the next item.
Resume == /\ phase = "yielded"
          /\ \/ /\ finals = <<>>
                /\ phase' = "reading"
                /\ UNCHANGED <<callVars, pool, streamVars>>
             \/ /\ finals # <<>>
                /\ EndStream("complete")
                /\ open' = open \ {Current}

\* The caller breaks out of its loop, and uses the client again or closes it.
Abandon == /\ phase = "yielded"
           /\ EndStream("abandoned")
           /\ UNCHANGED open

\* The event loop closes a suspended generator that nobody holds any more.
FinalizeGenerator == /\ \E n \in open : /\ n < Current
                                        /\ open' = open \ {n}
                     /\ UNCHANGED <<phase, callVars, pool, parts, delivered, finals, streams>>

-----------------------------------------------------------------------------
\* Closing the pool closes every connection, that of an abandoned stream too.
Aclose == /\ phase = "idle"
          /\ phase' = "closed"
          /\ pool' = "none"
          /\ open' = {}
          /\ UNCHANGED <<callVars, parts, delivered, finals, streams>>

\* The owner is done with the client.
Done == phase = "closed" /\ UNCHANGED vars

Call == StartCall \/ Answered \/ Failed \/ WakeUp \/ CancelledAsleep

Stream == \/ StartStream \/ SendRaises \/ BadStatus \/ StreamOpens \/ Delta \/ Final
          \/ StreamBreaks \/ Resume \/ Abandon \/ FinalizeGenerator

Next == Call \/ Stream \/ Aclose \/ Done

(***************************************************************************)
(* Fairness: every POST resolves, because httpx raises ReadTimeout,        *)
(* ConnectTimeout, ... when the provider stalls; asyncio.sleep ends.  It   *)
(* is not a deadline for the whole call.                                   *)
(***************************************************************************)
Fairness == /\ WF_vars(Answered \/ Failed)
            /\ WF_vars(WakeUp)

Spec == Init /\ [][Next]_vars /\ Fairness

-----------------------------------------------------------------------------
TypeOK ==
    /\ phase \in {"idle", "posting", "backoff", "closed", "sending", "reading", "yielded"}
    /\ attempt \in 0 .. MaxAttempts
    /\ sleep \in 0 .. MaxWait
    /\ throttleEvents \in Seq(RetryEvents)
    /\ pool \in {"none", "open"}
    /\ outcomes \in Seq(Outcome)
    /\ callBase \in 0 .. Len(throttleEvents)
    /\ billed \in SUBSET (1 .. MaxAttempts)
    /\ slept \in Nat
    /\ parts \in 0 .. MaxDeltas
    /\ open \subseteq 1 .. Current
    /\ delivered \in 0 .. MaxDeltas
    /\ finals \in Seq(Nat)
    /\ streams \in Seq(StreamEnd)

\* The retries of the current call that the log holds.
Logged == Len(throttleEvents) - callBase

(* The retry log tells exactly what the current call did: one event per      *)
(* retry, numbered from 1 without a gap although the log is shared by all    *)
(* calls, none for the failure that ended the call, and only for failures    *)
(* that may be retried (_record_retry, _is_retryable, stop_after_attempt).   *)
RetryLogExact ==
    /\ phase = "posting" => Logged = attempt - 1
    /\ phase = "backoff" => Logged = attempt
    /\ Logged \in {attempt - 1, attempt}
    /\ \A k \in 1 .. Logged :
          /\ throttleEvents[callBase + k].attempt = k
          /\ throttleEvents[callBase + k].reason \in Retryable

\* The reasons for which an attempt is made again although it may have run.
Unclear == {"TransportError", "ServerError"}

(* A call is billed more than once only through lost replies and gateway     *)
(* errors: each executed attempt but the last one shows up in the log as the *)
(* one or the other, and not as a throttled request, so the log bounds what  *)
(* a call may have cost beyond the usage of the one response it returns      *)
(* (_is_retryable, _record_retry).                                           *)
DuplicatesAreLogged ==
    \A n \in billed :
       \/ n = attempt
       \/ /\ n < attempt
          /\ n <= Logged
          /\ throttleEvents[callBase + n].reason \in Unclear

(* Whatever Retry-After the provider asks for, the sleeps of one call add up *)
(* to at most max_wait per retry (BackoffPolicy.max_wait).                   *)
SleepBounded == attempt > 0 => slept <= (attempt - 1) * MaxWait

(* A final response holds all and only the deltas its own stream gave, it    *)
(* is given at most once, always when the stream completes and never when it *)
(* breaks (chat_completion_stream: "text deltas, then one aggregated final   *)
(* response").                                                               *)
StreamsWhole ==
    /\ finals \in {<<>>, <<delivered>>}
    /\ phase \notin {"sending", "reading", "yielded"} /\ streams # <<>>
          => /\ streams[Len(streams)] = "complete" => finals # <<>>
             /\ streams[Len(streams)] = "error" => finals = <<>>

(* A connection is held by the stream being read and by abandoned ones, never *)
(* by a stream that ended by itself or that broke, and by none after aclose   *)
(* (the `finally` of chat_completion_stream).                                 *)
ConnectionsAccounted ==
    /\ (Current \in open) <=> (phase \in {"reading", "yielded"})
    /\ \A n \in open : n < Current => streams[n] = "abandoned"
    /\ phase = "closed" => open = {}

(* The client keeps the promise its callers rely on: no more requests than   *)
(* the budget, one outcome per call, no call after aclose, and every call     *)
(* ends, by a response or by an exception, however often the provider fails.  *)
Chat == INSTANCE ChatCompletion WITH
            Budget <- MaxAttempts,
            Results <- Outcome,
            busy <- phase \in {"posting", "backoff"},
            tries <- attempt,
            closed <- phase = "closed"
ImplementsChat == Chat!Spec
=============================================================================
