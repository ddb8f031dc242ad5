-------------------------- MODULE RetryClientProofs --------------------------
(* Proofs about RetryClient for every retry budget, backoff policy and set of *)
(* Retry-After values.                                                        *)
EXTENDS RetryClient, TLAPS

(* What the invariants of the calls need to be inductive: where the call      *)
(* stands with its budget, that the attempt in flight is not billed yet, and  *)
(* that a billed attempt that is being slept on is already in the log.        *)
CallProgress ==
    /\ phase \in {"posting", "backoff"} => attempt >= 1
    /\ phase = "backoff" => attempt < MaxAttempts
    /\ phase = "posting" => attempt \notin billed
    /\ phase = "backoff" /\ attempt \in billed
          => throttleEvents[callBase + attempt].reason \in Unclear
    /\ attempt = 0 => billed = {}

(* And those of the streams: every part was delivered, and there is no final  *)
(* response before the body has ended.                                        *)
StreamProgress ==
    /\ parts = delivered
    /\ phase \in {"sending", "reading"} => finals = <<>>

CallInv == CallProgress /\ RetryLogExact /\ DuplicatesAreLogged /\ SleepBounded
StreamInv == StreamProgress /\ StreamsWhole /\ ConnectionsAccounted
IInv == TypeOK /\ CallInv /\ StreamInv

(* The budget is a positive number of requests, whatever max_retries is.      *)
LEMMA BudgetPositive == MaxAttempts \in Nat /\ MaxAttempts >= 1
BY ClientAssumption DEF MaxAttempts

(* BackoffPolicy.compute never exceeds max_wait and never goes negative, for  *)
(* any attempt of the budget and any Retry-After.                             *)
LEMMA BackoffBounded ==
    ASSUME NEW n \in 1 .. MaxAttempts, NEW h \in Int \cup {NoHeader}
    PROVE  Backoff(n, ParsedRetryAfter(h)) \in 0 .. MaxWait
<1> DEFINE d == Multiplier * 2^(n - 1)
<1>1. d \in Nat /\ MinWait \in Nat /\ MaxWait \in Nat /\ NoHeader \notin Int
  BY ClientAssumption
<1>2. Greatest(d, MinWait) \in Nat
  BY <1>1 DEF Greatest
<1>3. Least(Greatest(d, MinWait), MaxWait) \in 0 .. MaxWait
  <2> HIDE DEF d
  <2> QED BY <1>1, <1>2 DEF Least
<1>4. CASE h = NoHeader
  BY <1>3, <1>4, <1>1 DEF Backoff, ParsedRetryAfter
<1>5. CASE h \in Int
  <2>1. ParsedRetryAfter(h) \in Nat
    BY <1>1, <1>5 DEF ParsedRetryAfter, Greatest
  <2>2. Least(ParsedRetryAfter(h), MaxWait) \in 0 .. MaxWait
    BY <2>1, <1>1 DEF Least
  <2> QED BY <2>1, <2>2, <1>3 DEF Backoff
<1> QED BY <1>4, <1>5

LEMMA InitIInv == Init => IInv
BY BudgetPositive, ClientAssumption
DEF Init, IInv, CallInv, StreamInv, TypeOK, CallProgress, RetryLogExact, DuplicatesAreLogged,
    SleepBounded, Logged, StreamProgress, StreamsWhole, ConnectionsAccounted, Current

(* A step of a call leaves the streams alone.                                 *)
LEMMA CallKeepsStreams ==
    ASSUME IInv, UNCHANGED streamVars,
           phase \in {"idle", "posting", "backoff"}, phase' \in {"idle", "posting", "backoff"}
    PROVE  StreamInv'
BY DEF IInv, StreamInv, StreamProgress, StreamsWhole, ConnectionsAccounted, Current, streamVars

(* A step of a stream leaves the calls alone, log and bill included.          *)
LEMMA StreamKeepsCalls ==
    ASSUME IInv, UNCHANGED callVars,
           phase \notin {"posting", "backoff"}, phase' \notin {"posting", "backoff"}
    PROVE  CallInv'
BY DEF IInv, CallInv, CallProgress, RetryLogExact, DuplicatesAreLogged, SleepBounded,
       Logged, callVars

(* EndCall keeps what the call did: log, attempt and slept are untouched, and *)
(* only the attempt in flight may have joined the billed ones.                *)
LEMMA EndCallIInv ==
    ASSUME IInv, phase \in {"posting", "backoff"},
           NEW outcome \in Outcome, EndCall(outcome),
           billed' = billed \/ billed' = billed \cup {attempt}
    PROVE  IInv'
<1>1. attempt \in 1 .. MaxAttempts /\ billed \subseteq 1 .. MaxAttempts
  BY BudgetPositive DEF IInv, CallInv, TypeOK, CallProgress
<1>2. TypeOK'
  <2>1. outcomes' \in Seq(Outcome)
    BY DEF IInv, CallInv, TypeOK, EndCall
  <2>2. billed' \in SUBSET (1 .. MaxAttempts)
    BY <1>1
  <2> HIDE DEF Outcome
  <2> QED BY <2>1, <2>2 DEF IInv, TypeOK, EndCall, streamVars, Current
<1>3. CallProgress'
  BY <1>1 DEF IInv, CallInv, EndCall, CallProgress
<1>4. RetryLogExact'
  BY <1>1 DEF IInv, CallInv, TypeOK, EndCall, RetryLogExact, Logged
<1>5. DuplicatesAreLogged'
  BY <1>1 DEF IInv, CallInv, EndCall, DuplicatesAreLogged, Logged
<1>6. SleepBounded'
  BY DEF IInv, CallInv, EndCall, SleepBounded
<1>7. StreamInv'
  BY CallKeepsStreams DEF EndCall
<1> QED BY <1>2, <1>3, <1>4, <1>5, <1>6, <1>7 DEF IInv, CallInv

LEMMA StartCallIInv == IInv /\ StartCall => IInv'
<1> SUFFICES ASSUME IInv, StartCall PROVE IInv'
  OBVIOUS
<1>1. TypeOK'
  BY BudgetPositive DEF IInv, TypeOK, StartCall, PostOnce, streamVars, Current
<1>2. CallProgress' /\ DuplicatesAreLogged' /\ SleepBounded'
  BY ClientAssumption DEF IInv, CallInv, StartCall, PostOnce, CallProgress, DuplicatesAreLogged, SleepBounded
<1>3. RetryLogExact'
  BY DEF IInv, CallInv, TypeOK, StartCall, PostOnce, RetryLogExact, Logged
<1>4. StreamInv'
  BY CallKeepsStreams DEF StartCall, PostOnce
<1> QED BY <1>1, <1>2, <1>3, <1>4 DEF IInv, CallInv

(* The new event lands behind the events of the call, so the older ones keep  *)
(* their place; an attempt that is made again may have been billed.           *)
LEMMA RetryIInv ==
    ASSUME IInv, phase = "posting",
           NEW exc \in Exceptions, NEW h \in RetryAfters \cup {NoHeader},
           Retry(exc, ParsedRetryAfter(h)), MaybeBilled(exc)
    PROVE  IInv'
<1> DEFINE wait == Backoff(attempt, ParsedRetryAfter(h))
           event == [attempt |-> attempt, reason |-> exc, wait |-> wait]
<1>1. attempt \in 1 .. MaxAttempts /\ MaxAttempts \in Nat /\ attempt < MaxAttempts
  BY BudgetPositive DEF IInv, CallInv, TypeOK, CallProgress, Retry
<1>2. wait \in 0 .. MaxWait /\ MaxWait \in Nat
  BY <1>1, BackoffBounded, ClientAssumption
<1>3. event \in RetryEvents
  BY <1>1, <1>2 DEF RetryEvents
<1>4. throttleEvents \in Seq(RetryEvents) /\ callBase \in 0 .. Len(throttleEvents)
  BY DEF IInv, CallInv, TypeOK
<1>5. throttleEvents' = Append(throttleEvents, event) /\ callBase' = callBase
      /\ attempt' = attempt /\ sleep' = wait /\ phase' = "backoff" /\ slept' = slept
      /\ pool' = pool /\ outcomes' = outcomes /\ exc \in Retryable
      /\ UNCHANGED streamVars
  BY DEF Retry
<1> HIDE DEF wait, event
<1>6. /\ Len(throttleEvents') = Len(throttleEvents) + 1
      /\ throttleEvents'[Len(throttleEvents) + 1] = event
      /\ \A k \in 1 .. Len(throttleEvents) : throttleEvents'[k] = throttleEvents[k]
  BY <1>3, <1>4, <1>5
<1>7. Logged = attempt - 1 /\ Logged' = attempt
  BY <1>1, <1>4, <1>5, <1>6 DEF IInv, CallInv, RetryLogExact, Logged
<1>8. callBase + attempt = Len(throttleEvents) + 1
  BY <1>1, <1>4, <1>7 DEF Logged
<1>9. \/ billed' = billed
      \/ billed' = billed \cup {attempt} /\ exc \in Unclear
  BY <1>5 DEF MaybeBilled, Retryable, Unclear, Retry
<1>10. billed \subseteq 1 .. MaxAttempts /\ attempt \notin billed
  BY DEF IInv, CallInv, TypeOK, CallProgress
<1>11. event.attempt = attempt /\ event.reason = exc
  BY DEF event
<1>12. TypeOK'
  <2>1. throttleEvents' \in Seq(RetryEvents)
    BY <1>3, <1>4, <1>5
  <2>2. callBase' \in 0 .. Len(throttleEvents')
    BY <1>4, <1>5, <1>6
  <2>3. billed' \in SUBSET (1 .. MaxAttempts)
    BY <1>1, <1>9, <1>10
  <2> QED BY <1>2, <1>5, <2>1, <2>2, <2>3 DEF IInv, TypeOK, streamVars, Current
<1>13. CallProgress'
  BY <1>1, <1>5, <1>6, <1>8, <1>9, <1>10, <1>11 DEF CallProgress
<1>14. RetryLogExact'
  <2>1. ASSUME NEW k \in 1 .. attempt
        PROVE  /\ throttleEvents'[callBase + k].attempt = k
               /\ throttleEvents'[callBase + k].reason \in Retryable
    <3>1. CASE k = attempt
      BY <3>1, <1>5, <1>6, <1>8, <1>11
    <3>2. CASE k < attempt
      <4>1. k \in 1 .. Logged /\ callBase + k \in 1 .. Len(throttleEvents)
        BY <3>2, <1>1, <1>4, <1>7 DEF Logged
      <4> QED BY <4>1, <1>6 DEF IInv, CallInv, RetryLogExact
    <3> QED BY <3>1, <3>2, <1>1
  <2> QED BY <2>1, <1>1, <1>5, <1>7 DEF RetryLogExact
<1>15. DuplicatesAreLogged'
  <2>1. ASSUME NEW n \in billed
        PROVE  /\ n < attempt
               /\ n <= Logged'
               /\ throttleEvents'[callBase + n].reason \in Unclear
    <3>1. n < attempt /\ n <= Logged /\ n \in 1 .. MaxAttempts
          /\ throttleEvents[callBase + n].reason \in Unclear
      BY <1>10 DEF IInv, CallInv, DuplicatesAreLogged
    <3>2. callBase + n \in 1 .. Len(throttleEvents)
      BY <3>1, <1>4, <1>7, <1>1 DEF Logged
    <3> QED BY <3>1, <3>2, <1>1, <1>6, <1>7
  <2> QED BY <2>1, <1>5, <1>9 DEF DuplicatesAreLogged
<1>16. SleepBounded'
  BY <1>5 DEF IInv, CallInv, SleepBounded
<1>17. StreamInv'
  BY <1>5, CallKeepsStreams
<1> QED BY <1>12, <1>13, <1>14, <1>15, <1>16, <1>17 DEF IInv, CallInv

LEMMA WakeUpIInv == IInv /\ WakeUp => IInv'
<1> SUFFICES ASSUME IInv, WakeUp PROVE IInv'
  OBVIOUS
<1>1. /\ attempt \in 1 .. MaxAttempts /\ MaxAttempts \in Nat /\ attempt < MaxAttempts
      /\ attempt' = attempt + 1 /\ phase' = "posting" /\ Logged = attempt
      /\ sleep \in 0 .. MaxWait /\ slept \in Nat /\ MaxWait \in Nat
      /\ billed \subseteq 1 .. MaxAttempts
  BY BudgetPositive, ClientAssumption
  DEF IInv, CallInv, TypeOK, CallProgress, RetryLogExact, WakeUp, PostOnce
<1>2. TypeOK'
  BY <1>1 DEF IInv, TypeOK, WakeUp, PostOnce, streamVars, Current
<1>3. RetryLogExact'
  BY <1>1 DEF IInv, CallInv, RetryLogExact, WakeUp, Logged
<1>4. DuplicatesAreLogged'
  BY <1>1 DEF IInv, CallInv, CallProgress, DuplicatesAreLogged, WakeUp, Logged
<1>5. CallProgress'
  BY <1>1 DEF IInv, CallInv, DuplicatesAreLogged, CallProgress, WakeUp
<1>6. SleepBounded'
  <2>1. slept <= (attempt - 1) * MaxWait /\ slept' = slept + sleep
    BY <1>1 DEF IInv, CallInv, SleepBounded, WakeUp
  <2>2. (attempt - 1) * MaxWait + MaxWait = attempt * MaxWait
    BY <1>1
  <2>3. (attempt - 1) * MaxWait \in Int /\ attempt * MaxWait \in Int
    BY <1>1
  <2>4. slept + sleep <= attempt * MaxWait
    BY <2>1, <2>2, <2>3, <1>1
  <2> QED BY <2>1, <2>4, <1>1 DEF SleepBounded
<1>7. StreamInv'
  BY <1>1, CallKeepsStreams DEF WakeUp
<1> QED BY <1>2, <1>3, <1>4, <1>5, <1>6, <1>7 DEF IInv, CallInv

(* A stream ends: by itself, broken, or left by its caller.                   *)
LEMMA EndStreamIInv ==
    ASSUME IInv, phase \in {"sending", "reading", "yielded"},
           NEW end \in StreamEnd, EndStream(end),
           end = "complete" => finals # <<>>,
           end = "error" => finals = <<>>,
           \/ open' = open \ {Current}
           \/ open' = open /\ (phase = "sending" \/ end = "abandoned")
    PROVE  IInv'
<1>1. /\ streams \in Seq(StreamEnd) /\ streams' = Append(streams, end)
      /\ phase' = "idle" /\ open' \subseteq open /\ open \subseteq 1 .. Current
      /\ UNCHANGED <<callVars, pool, parts, delivered, finals>>
  BY DEF IInv, TypeOK, EndStream
<1>2. /\ Len(streams) \in Nat /\ Current = Len(streams) + 1 /\ Current' = Current + 1
      /\ streams' \in Seq(StreamEnd) /\ Len(streams') = Current
      /\ streams'[Current] = end
      /\ \A n \in 1 .. Len(streams) : streams'[n] = streams[n]
  BY <1>1 DEF Current
<1> HIDE DEF StreamEnd, Current
<1>3. TypeOK'
  <2>1. open' \subseteq 1 .. Current'
    BY <1>1, <1>2
  <2> QED BY <1>1, <1>2, <2>1 DEF IInv, TypeOK, callVars
<1>4. CallInv'
  BY <1>1, StreamKeepsCalls
<1>5. StreamProgress' /\ StreamsWhole'
  BY <1>1, <1>2 DEF IInv, StreamInv, StreamProgress, StreamsWhole
<1>6. ConnectionsAccounted'
  <2>1. ASSUME NEW n \in open' PROVE n < Current' /\ streams'[n] = "abandoned"
    <3>1. n \in open /\ n \in 1 .. Current /\ n < Current'
      BY <1>1, <1>2
    <3>2. CASE n = Current
      BY <3>1, <3>2, <1>2, <2>1 DEF IInv, StreamInv, ConnectionsAccounted
    <3>3. CASE n < Current
      BY <3>1, <3>3, <1>2 DEF IInv, StreamInv, ConnectionsAccounted
    <3> QED BY <3>1, <3>2, <3>3, <1>2
  <2>2. Current' \notin open'
    BY <2>1, <1>2
  <2> QED BY <2>1, <2>2, <1>1 DEF ConnectionsAccounted
<1> QED BY <1>3, <1>4, <1>5, <1>6 DEF IInv, StreamInv

(* The other steps of a stream.                                               *)
LEMMA StreamIInv == IInv /\ Stream => IInv'
<1> SUFFICES ASSUME IInv, Stream PROVE IInv'
  OBVIOUS
<1> USE DEF IInv, StreamInv
<1>1. CASE StartStream
  <2>1. TypeOK'
    BY <1>1, ClientAssumption DEF StartStream, TypeOK, callVars, Current
  <2>2. CallInv'
    BY <1>1, StreamKeepsCalls DEF StartStream
  <2> QED BY <1>1, <2>1, <2>2
          DEF StartStream, StreamProgress, StreamsWhole, ConnectionsAccounted, Current
<1>2. CASE SendRaises
  BY <1>2, EndStreamIInv DEF SendRaises, StreamEnd, StreamProgress
<1>3. CASE BadStatus
  <2>1. phase = "sending" /\ EndStream("error") /\ open' = open \ {Current} /\ finals = <<>>
    BY <1>3 DEF BadStatus, StreamProgress
  <2>2. "error" \in StreamEnd
    BY DEF StreamEnd
  <2> QED BY <2>1, <2>2, EndStreamIInv
<1>4. CASE StreamOpens
  <2>1. TypeOK'
    <3>1. open' \subseteq 1 .. Current'
      <4>1. Len(streams) \in Nat /\ open \subseteq 1 .. Current /\ Current' = Current
        BY <1>4 DEF StreamOpens, TypeOK, Current
      <4>2. Current \in 1 .. Current
        BY <4>1 DEF Current
      <4> QED BY <1>4, <4>1, <4>2 DEF StreamOpens
    <3> QED BY <1>4, <3>1 DEF StreamOpens, TypeOK, callVars
  <2>2. CallInv'
    BY <1>4, StreamKeepsCalls DEF StreamOpens
  <2> QED BY <1>4, <2>1, <2>2
          DEF StreamOpens, StreamProgress, StreamsWhole, ConnectionsAccounted, Current
<1>5. CASE Delta
  <2>1. TypeOK'
    BY <1>5, ClientAssumption DEF Delta, TypeOK, StreamProgress, callVars, Current
  <2>2. CallInv'
    BY <1>5, StreamKeepsCalls DEF Delta
  <2> QED BY <1>5, <2>1, <2>2
          DEF Delta, StreamProgress, StreamsWhole, ConnectionsAccounted, Current
<1>6. CASE Final
  <2>1. TypeOK'
    BY <1>6, ClientAssumption DEF Final, TypeOK, callVars, Current
  <2>2. CallInv'
    BY <1>6, StreamKeepsCalls DEF Final
  <2> QED BY <1>6, <2>1, <2>2
          DEF Final, StreamProgress, StreamsWhole, ConnectionsAccounted, Current
<1>7. CASE StreamBreaks
  BY <1>7, EndStreamIInv DEF StreamBreaks, StreamEnd, StreamProgress
<1>8. CASE Resume
  <2>1. CASE finals # <<>>
    BY <1>8, <2>1, EndStreamIInv DEF Resume, StreamEnd
  <2>2. CASE finals = <<>>
    <3>1. phase = "yielded" /\ phase' = "reading" /\ UNCHANGED <<callVars, pool, streamVars>>
      BY <1>8, <2>2 DEF Resume
    <3>2. TypeOK'
      BY <3>1 DEF TypeOK, callVars, streamVars, Current
    <3>3. CallInv'
      BY <3>1, StreamKeepsCalls
    <3> QED BY <2>2, <3>1, <3>2, <3>3
            DEF StreamProgress, StreamsWhole, ConnectionsAccounted, Current, streamVars
  <2> QED BY <2>1, <2>2
<1>9. CASE Abandon
  BY <1>9, EndStreamIInv DEF Abandon, StreamEnd
<1>10. CASE FinalizeGenerator
  <2>1. /\ open' \subseteq open /\ (Current \in open' <=> Current \in open)
        /\ UNCHANGED <<phase, callVars, pool, parts, delivered, finals, streams>>
    BY <1>10 DEF FinalizeGenerator, Current
  <2>2. TypeOK'
    BY <2>1 DEF TypeOK, callVars, Current
  <2>3. CallInv'
    BY <2>1 DEF CallInv, CallProgress, RetryLogExact, DuplicatesAreLogged, SleepBounded,
                Logged, callVars
  <2> QED BY <2>1, <2>2, <2>3
          DEF StreamProgress, StreamsWhole, ConnectionsAccounted, Current
<1> QED BY <1>1, <1>2, <1>3, <1>4, <1>5, <1>6, <1>7, <1>8, <1>9, <1>10 DEF Stream

LEMMA StepIInv == IInv /\ [Next]_vars => IInv'
<1> SUFFICES ASSUME IInv, [Next]_vars PROVE IInv'
  OBVIOUS
<1>1. CASE StartCall
  BY <1>1, StartCallIInv
<1>2. CASE Answered
  BY <1>2, EndCallIInv DEF Answered, Outcome
<1>3. CASE Failed
  <2> PICK exc \in Exceptions :
             /\ MaybeBilled(exc)
             /\ \/ Raise(exc)
                \/ \E h \in RetryAfters \cup {NoHeader} : Retry(exc, ParsedRetryAfter(h))
    BY <1>3 DEF Failed
  <2>1. CASE Raise(exc)
    BY <2>1, <1>3, EndCallIInv DEF Raise, MaybeBilled, Failed, Outcome
  <2>2. CASE \E h \in RetryAfters \cup {NoHeader} : Retry(exc, ParsedRetryAfter(h))
    BY <2>2, <1>3, RetryIInv DEF Failed
  <2> QED BY <2>1, <2>2
<1>4. CASE WakeUp
  BY <1>4, WakeUpIInv
<1>5. CASE CancelledAsleep
  BY <1>5, EndCallIInv DEF CancelledAsleep, Outcome, Exceptions, Fatal
<1>6. CASE Aclose
  <2>1. TypeOK'
    BY <1>6 DEF Aclose, IInv, TypeOK, callVars, Current
  <2>2. CallInv'
    BY <1>6, StreamKeepsCalls DEF Aclose
  <2> QED BY <1>6, <2>1, <2>2
          DEF Aclose, IInv, StreamInv, StreamProgress, StreamsWhole, ConnectionsAccounted, Current
<1>7. CASE Stream
  BY <1>7, StreamIInv
<1>8. CASE UNCHANGED vars
  <2> USE <1>8 DEF vars, callVars, streamVars
  <2>1. TypeOK'
    BY DEF IInv, TypeOK, Current
  <2>2. CallInv'
    BY DEF IInv, CallInv, CallProgress, RetryLogExact, DuplicatesAreLogged, SleepBounded, Logged
  <2> QED BY <2>1, <2>2
          DEF IInv, StreamInv, StreamProgress, StreamsWhole, ConnectionsAccounted, Current
<1> QED BY <1>1, <1>2, <1>3, <1>4, <1>5, <1>6, <1>7, <1>8 DEF Next, Call, Done

(* The inductive invariant holds in every reachable state.                    *)
THEOREM Invariance == Spec => []IInv
BY InitIInv, StepIInv, PTL DEF Spec

(* Every variable of the client has its type, for every budget and policy.    *)
THEOREM TypeCorrect == Spec => []TypeOK
BY Invariance, PTL DEF IInv, CallInv

(* The retry log is exact for every budget, policy and number of calls.       *)
THEOREM LogIsExact == Spec => []RetryLogExact
BY Invariance, PTL DEF IInv, CallInv

(* A second bill of one call always has the lost reply or the gateway error  *)
(* it comes from in the log.                                                 *)
THEOREM DuplicatesLogged == Spec => []DuplicatesAreLogged
BY Invariance, PTL DEF IInv, CallInv

(* The sleeps of one call never exceed max_wait per retry.                    *)
THEOREM SleepIsBounded == Spec => []SleepBounded
BY Invariance, PTL DEF IInv, CallInv

(* A final response is the whole of its own stream, for any number of streams *)
(* and deltas.                                                                *)
THEOREM StreamsAreWhole == Spec => []StreamsWhole
BY Invariance, PTL DEF IInv, StreamInv

(* No stream that ended or broke keeps its connection.                        *)
THEOREM ConnectionsAreAccounted == Spec => []ConnectionsAccounted
BY Invariance, PTL DEF IInv, StreamInv

-----------------------------------------------------------------------------
LEMMA InitRefines == Init => Chat!Init
BY DEF Init, Chat!Init

(* Each step of the client is a step of the abstract call or leaves it alone; *)
(* a failure that is retried is invisible until the next POST goes out.       *)
LEMMA StepRefines == IInv /\ [Next]_vars => [Chat!Next]_(Chat!vars)
<1> SUFFICES ASSUME IInv, [Next]_vars PROVE [Chat!Next]_(Chat!vars)
  OBVIOUS
<1>0. ASSUME NEW outcome \in Outcome, EndCall(outcome), phase \in {"posting", "backoff"}
      PROVE  Chat!Finish
  BY <1>0 DEF EndCall, Chat!Finish
<1>1. CASE StartCall
  BY <1>1 DEF StartCall, PostOnce, Chat!Next, Chat!Begin
<1>2. CASE Answered
  BY <1>0, <1>2 DEF Answered, Outcome, Chat!Next
<1>3. CASE Failed
  <2> PICK exc \in Exceptions :
             \/ Raise(exc)
             \/ \E h \in RetryAfters \cup {NoHeader} : Retry(exc, ParsedRetryAfter(h))
    BY <1>3 DEF Failed
  <2>1. CASE Raise(exc)
    BY <2>1, <1>0, <1>3 DEF Raise, Failed, Outcome, Chat!Next
  <2>2. CASE \E h \in RetryAfters \cup {NoHeader} : Retry(exc, ParsedRetryAfter(h))
    BY <2>2, <1>3 DEF Failed, Retry, Chat!vars
  <2> QED BY <2>1, <2>2
<1>4. CASE WakeUp
  BY <1>4 DEF IInv, CallInv, CallProgress, WakeUp, PostOnce, Chat!Next, Chat!TryAgain
<1>5. CASE CancelledAsleep
  BY <1>0, <1>5 DEF CancelledAsleep, Outcome, Exceptions, Fatal, Chat!Next
<1>6. CASE Aclose
  BY <1>6 DEF Aclose, callVars, Chat!Next, Chat!Close
<1>7. CASE Stream
  BY <1>7 DEF Stream, StartStream, SendRaises, BadStatus, StreamOpens, Delta, Final,
              StreamBreaks, Resume, Abandon, FinalizeGenerator, EndStream, callVars, Chat!vars
<1>8. CASE UNCHANGED vars
  BY <1>8 DEF vars, callVars, Chat!vars
<1> QED BY <1>1, <1>2, <1>3, <1>4, <1>5, <1>6, <1>7, <1>8 DEF Next, Call, Done

(* chat_completion implements the abstract call for every budget and policy:  *)
(* one to MaxAttempts requests, exactly one outcome per call, none after      *)
(* aclose.  That a call does end is left to the model checker.                *)
THEOREM ImplementsCall == Spec => Chat!SafeSpec
<1>1. IInv /\ [Next]_vars => [Chat!Next]_(Chat!vars)
  BY StepRefines
<1> QED BY InitRefines, Invariance, <1>1, PTL DEF Spec, Chat!SafeSpec
=============================================================================
