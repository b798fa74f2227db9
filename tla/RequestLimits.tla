---------------------------- MODULE RequestLimits ----------------------------
(***************************************************************************)
(* What stands before the HTTP API: the sliding window of requests per      *)
(* client (app/rate_limit.py), the count of failed authentications          *)
(* (auth_failure in app/server.py) and the limit on a request's body        *)
(* (app/body_limit.py).  The three share no state: limiter names the one    *)
(* that a behaviour is about.                                               *)
(*                                                                         *)
(* Time is counted in half seconds, so that the code's rounding of whole    *)
(* seconds shows.                                                           *)
(***************************************************************************)
EXTENDS Integers, Sequences, FiniteSets

CONSTANTS
  Clients,
  Rpm,           \* OV_LLM_RATE_LIMIT
  RateWindow,    \* 60 seconds
  FailureWindow, \* _AUTH_FAILURE_WINDOW
  FailureMax,    \* _AUTH_FAILURE_MAX
  MaxBytes,      \* bytes a body may have
  MaxClock       \* bound: when the clock stops

ASSUME LimitsAssumption ==
  /\ {Rpm, RateWindow, FailureWindow, FailureMax, MaxBytes} \subseteq Nat \ {0}
  /\ MaxClock \in Nat

VARIABLES
  limiter,    \* "rate", "failures" or "body"
  clock,
  hits,       \* _hits: times of the requests let through
  lastSwept,  \* _last_cleanup
  failures,   \* _auth_failures
  body,       \* one request and its response
  passed,     \* history: times of the requests let through within the last window
  promise,    \* history: what Retry-After said, 0 once a request was let through
  plain       \* history: times of the 401 answers within the last window

limitVars == <<limiter, clock, hits, lastSwept, failures, body, passed, promise, plain>>
limitHistory == <<passed, promise, plain>>

Second == 2
NoTimes == [c \in Clients |-> <<>>]
NoBody == [pc |-> "idle", declared |-> 0, received |-> 0, given |-> 0, started |-> 0, status |-> 0]

\* while window and window[0] <= cutoff: window.popleft().  Times only grow, so the list of
\* failures, of which those after the cutoff are copied, loses the same ones.
OlderOnes(times, cutoff) ==
  CHOOSE n \in 0..Len(times) : /\ \A i \in 1..n : times[i] <= cutoff
                               /\ n < Len(times) => times[n + 1] > cutoff
Younger(times, cutoff) == SubSeq(times, OlderOnes(times, cutoff) + 1, Len(times))
\* cutoff = now - window, which may lie before the clock began
Within(times, window) == Younger(times, clock - window)

LimitsTypeOK ==
  /\ limiter \in {"rate", "failures", "body"} /\ clock \in 0..MaxClock /\ lastSwept \in 0..clock
  /\ \A c \in Clients : \A times \in {hits[c], failures[c], passed[c], plain[c]} :
       \A i \in DOMAIN times : times[i] \in 0..clock
  /\ promise \in [Clients -> Nat]
  /\ body.pc \in {"idle", "reading", "done"} /\ body.started \in 0..2
  /\ {body.declared, body.received, body.given} \subseteq Nat

LimitsInit ==
  /\ limiter \in {"rate", "failures", "body"} /\ clock = 0
  /\ hits = NoTimes /\ lastSwept = 0 /\ failures = NoTimes /\ body = NoBody
  /\ passed = NoTimes /\ promise = [c \in Clients |-> 0] /\ plain = NoTimes

ClockTicks ==
  /\ limiter # "body" /\ clock < MaxClock /\ clock' = clock + 1
  /\ passed' = [c \in Clients |-> Younger(passed[c], clock' - RateWindow)]
  /\ plain' = [c \in Clients |-> Younger(plain[c], clock' - FailureWindow)]
  /\ UNCHANGED <<limiter, hits, lastSwept, failures, body, promise>>

-----------------------------------------------------------------------------
(* RateLimitMiddleware._record_request                                      *)

\* Regression form: a client whose first request has aged is forgotten.
SweptByFirst(table) ==
  [c \in Clients |-> IF table[c] # <<>> /\ table[c][1] + RateWindow <= clock THEN <<>> ELSE table[c]]
\* _cleanup_locked: a client is forgotten when its last request has aged.
Stale(times) == times = <<>> \/ times[Len(times)] + RateWindow <= clock
Swept(table) == [c \in Clients |-> IF Stale(table[c]) THEN <<>> ELSE table[c]]

\* max(1, ceil(window[0] + self.window - now)), in half seconds
RetryAfter(times, window) == LET rest == times[1] + window - clock IN Second * ((rest + 1) \div Second)

CallApi(c) ==
  /\ limiter = "rate"
  /\ LET due == clock > lastSwept + RateWindow
         window == Within(IF due THEN Swept(hits)[c] ELSE hits[c], RateWindow)
         full == Len(window) >= Rpm
     IN /\ hits' = [(IF due THEN Swept(hits) ELSE hits) EXCEPT
                      ![c] = IF full THEN window ELSE Append(window, clock)]
        /\ lastSwept' = IF due THEN clock ELSE lastSwept
        /\ passed' = IF full THEN passed ELSE [passed EXCEPT ![c] = Append(@, clock)]
        /\ promise' = [promise EXCEPT ![c] = IF full THEN clock + RetryAfter(window, RateWindow) ELSE 0]
  /\ UNCHANGED <<limiter, clock, failures, body, plain>>

-----------------------------------------------------------------------------
(* auth_failure, and the reset by a valid key                               *)

FailAuthentication(c) ==
  /\ limiter = "failures"
  /\ LET mine == Append(Within(failures[c], FailureWindow), clock)
     IN /\ failures' = [k \in Clients |->
              IF k = c THEN mine
              ELSE IF Within(failures[k], FailureWindow) = <<>> THEN <<>> ELSE failures[k]]
        /\ plain' = IF Len(mine) > FailureMax THEN plain ELSE [plain EXCEPT ![c] = Append(@, clock)]
  /\ Len(failures[c]) < FailureMax + 2   \* bound
  /\ UNCHANGED <<limiter, clock, hits, lastSwept, body, passed, promise>>

Authenticate(c) ==
  /\ limiter = "failures"
  /\ failures' = [failures EXCEPT ![c] = <<>>] /\ plain' = [plain EXCEPT ![c] = <<>>]
  /\ UNCHANGED <<limiter, clock, hits, lastSwept, body, passed, promise>>

-----------------------------------------------------------------------------
(* RequestBodyLimitMiddleware                                               *)

\* The header is checked before anything is read; 0 stands for a chunked body.
Declare(length) ==
  /\ limiter = "body" /\ body.pc = "idle"
  /\ body' = IF length > MaxBytes
             THEN [body EXCEPT !.pc = "done", !.declared = length, !.started = 1, !.status = 413]
             ELSE [body EXCEPT !.pc = "reading", !.declared = length]
  /\ UNCHANGED <<limiter, clock, hits, lastSwept, failures, limitHistory>>

\* Regression form: the refusal does not look whether a response has begun.
ReceiveRefusesAlways(chunk) ==
  /\ body.pc = "reading"
  /\ LET total == body.received + chunk
     IN body' = IF total <= MaxBytes THEN [body EXCEPT !.received = total, !.given = @ + chunk]
                ELSE [body EXCEPT !.pc = "done", !.received = total, !.started = @ + 1, !.status = 413]
  /\ UNCHANGED <<limiter, clock, hits, lastSwept, failures, limitHistory>>

\* limited_receive: the chunk that goes over the limit does not reach the application;
\* the refusal is sent unless the application has begun to answer.
Receive(chunk) ==
  /\ body.pc = "reading"
  /\ LET total == body.received + chunk
     IN body' = IF total <= MaxBytes THEN [body EXCEPT !.received = total, !.given = @ + chunk]
                ELSE IF body.started > 0 THEN [body EXCEPT !.pc = "done", !.received = total]
                ELSE [body EXCEPT !.pc = "done", !.received = total, !.started = 1, !.status = 413]
  /\ UNCHANGED <<limiter, clock, hits, lastSwept, failures, limitHistory>>

\* tracked_send: the application may answer before it has read everything.
Respond ==
  /\ body.pc = "reading" /\ body.started = 0
  /\ body' = [body EXCEPT !.started = 1, !.status = 200]
  /\ UNCHANGED <<limiter, clock, hits, lastSwept, failures, limitHistory>>

Answered ==
  /\ body.pc = "reading" /\ body.started = 1
  /\ body' = [body EXCEPT !.pc = "done"]
  /\ UNCHANGED <<limiter, clock, hits, lastSwept, failures, limitHistory>>

LimitsNext ==
  \/ ClockTicks \/ Respond \/ Answered
  \/ \E c \in Clients : CallApi(c) \/ FailAuthentication(c) \/ Authenticate(c)
  \/ \E n \in 0..(MaxBytes + 1) : Declare(n) \/ Receive(n)

LimitsSpec == LimitsInit /\ [][LimitsNext]_limitVars

-----------------------------------------------------------------------------
(* Properties.                                                              *)

\* In no window of 60 seconds are more requests of a client let through than allowed,
\* wherever the window lies and whenever the table is swept.
RateHolds == \A c \in Clients : Len(passed[c]) <= Rpm

\* Who waits as long as Retry-After says is let through.
RetryAfterIsTrue ==
  \A c \in Clients : promise[c] # 0 /\ clock >= promise[c] => Len(Within(hits[c], RateWindow)) < Rpm

\* Within the window a client is told "invalid key" only as often as allowed, and the
\* sweep by another client's failure forgets none of its failures.
FailuresAreThrottled == \A c \in Clients : Len(plain[c]) <= FailureMax

\* The application never sees more than the limit, and a request has one response.
BodyIsLimited == body.given <= MaxBytes /\ body.started <= 1

LimitsSafe == RateHolds /\ RetryAfterIsTrue /\ FailuresAreThrottled /\ BodyIsLimited
==============================================================================
