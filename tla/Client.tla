--------------------------------- MODULE Client ----------------------------------
(***************************************************************************)
(* One request of the compliance client after another (compliance/         *)
(* client.go: get, do, backoff, retryAfter): tries that are repeated while *)
(* the failure is transient, with a pause between them that the server may *)
(* choose, until an answer stands, the tries are spent or the operator     *)
(* interrupts.                                                             *)
(*                                                                         *)
(* The server is untrusted.  An answer is what one try meets, and every    *)
(* answer is the server's choice.  The unit of time is the resolution of   *)
(* time.Duration, which wraps past MaxDuration.                            *)
(***************************************************************************)
EXTENDS Integers

CONSTANTS
  Configured,       \* Client.Attempts as the caller left it
  DefaultAttempts,  \* what stands in for a number that is not positive
  Base,             \* backoffBase
  Cap,              \* backoffCap
  ShiftBound,       \* the first exponent backoff does not compute with
  Second,           \* time.Second
  RetryAfterCap,    \* retryAfterCap, in seconds
  MaxDuration,      \* the largest time.Duration, and the largest int
  Status,           \* the statuses outside 2xx the server answers with
  Hint,             \* the retry-after headers it sends
  Request           \* what the client is asked for

Attempts == IF Configured <= 0 THEN DefaultAttempts ELSE Configured

ASSUME AttemptsAssumption == Configured \in Int /\ DefaultAttempts \in Nat \ {0}
ASSUME DurationAssumption ==
  /\ Base \in Nat \ {0} /\ Second \in Nat \ {0}
  /\ Cap \in Nat \ {0} /\ RetryAfterCap \in Nat \ {0} /\ MaxDuration \in Nat
  /\ Cap <= MaxDuration /\ RetryAfterCap * Second <= MaxDuration
  /\ ShiftBound \in Nat
  /\ \A s \in 0..(ShiftBound - 1) : Base * 2^s \in 1..MaxDuration
ASSUME StatusAssumption == Status \subseteq Nat
ASSUME HintAssumption == Hint \subseteq [form : {"none", "seconds", "date"}, n : Int]

VARIABLES
  phase,        \* "idle" between requests, "sending" or "sleeping" in one
  request,      \* what get was called for
  tries,        \* the answers get has had
  wait,         \* the pause before the next try
  result,       \* what get returned
  interrupted,  \* the context is done
  decided,      \* history: the request's first answer that is not transient
  waited        \* history: the pauses of the request together

client == <<phase, request, tries, wait, result, interrupted, decided, waited>>

NoHint == [form |-> "none", n |-> 0]
Plain(kind) == [kind |-> kind, code |-> 0, hint |-> NoHint]

\* What one try can meet: a 2xx body, one past the size cap, one that breaks off,
\* a transport error, or another status.
Answers ==
  {Plain(k) : k \in {"body", "oversize", "torn", "transport"}}
    \cup [kind : {"status"}, code : Status, hint : Hint]
NoAnswer == Plain("none")

\* The answers a later try may better, as the client's documentation lists them.
Transient(a) ==
  a.kind \in {"transport", "torn"} \/ a.code \in {429, 502, 503, 504, 529}

Returned(how) == [how |-> how, code |-> 0]
Refused(code) == [how |-> "status", code |-> code]
NoResult == Returned("none")
Results ==
  {Returned(h) : h \in {"none", "body", "malformed", "transient", "cancelled"}}
    \cup {Refused(c) : c \in Status}
----------------------------------------------------------------------------------
Least(a, b) == IF a < b THEN a ELSE b
Most(a, b) == IF a > b THEN a ELSE b

\* A product as int64 keeps it.
Wrap(n) == ((n + MaxDuration + 1) % (2 * (MaxDuration + 1))) - (MaxDuration + 1)

\* Slip: an answer of 500 is tried again too.
RetriesServerFaults(a) ==
  \/ a.kind \in {"transport", "torn"}
  \/ a.kind = "status" /\ a.code \in {429, 500, 502, 503, 504, 529}

\* do's second result: whether another try may meet something better.
Retries(a) ==
  \/ a.kind \in {"transport", "torn"}
  \/ a.kind = "status" /\ a.code \in {429, 502, 503, 504, 529}

\* retryAfter's second result: a header that does not parse, a negative count
\* among them, is no hint.
HasHint(h) == h.form = "date" \/ (h.form = "seconds" /\ h.n >= 0)

\* Slip: the product is clamped, not the seconds.
RetryAfterClampedLate(h) ==
  IF h.form = "date" THEN Least(Most(h.n, 0), RetryAfterCap * Second)
  ELSE Least(Wrap(h.n * Second), RetryAfterCap * Second)

\* retryAfter's first result; a date counts from now.
RetryAfter(h) ==
  IF h.form = "date" THEN Least(Most(h.n, 0), RetryAfterCap * Second)
  ELSE IF h.n > RetryAfterCap THEN RetryAfterCap * Second
  ELSE Least(Wrap(h.n * Second), RetryAfterCap * Second)

\* The bound backoff draws the jitter under; rand.Int64N panics on one below 1.
JitterBound(attempt) ==
  IF attempt - 1 < ShiftBound THEN Least(Wrap(Base * 2^(attempt - 1)), Cap) ELSE Cap

\* The pauses backoff may return after its last answer.
Backoff(attempt, last) ==
  IF last.kind = "status" /\ HasHint(last.hint)
  THEN {RetryAfter(last.hint)}
  ELSE 1..JitterBound(attempt)
----------------------------------------------------------------------------------
ClientInit ==
  /\ phase = "idle" /\ request \in Request /\ tries = 0 /\ wait = 0
  /\ result = NoResult /\ interrupted = FALSE
  /\ decided = NoAnswer /\ waited = 0

\* get is called.
Ask(r) ==
  /\ phase = "idle"
  /\ phase' = "sending" /\ request' = r /\ tries' = 0 /\ wait' = 0
  /\ result' = NoResult /\ decided' = NoAnswer /\ waited' = 0
  /\ UNCHANGED interrupted

Return(what) ==
  /\ phase' = "idle"
  /\ result' = what
  /\ UNCHANGED wait

\* What do makes of an answer that is not a body.  A retryable status is not a
\* StatusError, so nothing reads it as a refusal.
ErrorOf(a) ==
  IF Retries(a) THEN Returned("cancelled")
  ELSE IF a.kind = "status" THEN Refused(a.code)
  ELSE Returned("malformed")

\* One round of get's loop after its pause: do, and what get makes of it.  A
\* context that is done before the body was read leaves no body.
Try(a) ==
  /\ phase = "sending"
  /\ interrupted => a.kind \notin {"body", "oversize"}
  /\ tries' = tries + 1
  /\ decided' = IF decided = NoAnswer /\ ~Transient(a)
                THEN [kind |-> a.kind, code |-> a.code, hint |-> NoHint] ELSE decided
  /\ \/ a.kind = "body" /\ Return(Returned("body"))
     \/ /\ a.kind # "body"
        /\ ~Retries(a) \/ interrupted
        /\ Return(ErrorOf(a))
     \/ /\ Retries(a) /\ ~interrupted
        /\ tries + 1 = Attempts
        /\ Return(Returned("transient"))
     \/ /\ Retries(a) /\ ~interrupted
        /\ tries + 1 < Attempts
        /\ phase' = "sleeping"
        /\ wait' \in Backoff(tries + 1, a)
        /\ UNCHANGED result
  /\ UNCHANGED <<request, interrupted, waited>>

\* The pause is over, or cut short by an interrupt.
Wake ==
  /\ phase = "sleeping"
  /\ \E slept \in IF interrupted THEN 0..wait ELSE {wait} : waited' = waited + slept
  /\ IF interrupted THEN Return(Returned("cancelled"))
     ELSE phase' = "sending" /\ UNCHANGED <<wait, result>>
  /\ UNCHANGED <<request, tries, interrupted, decided>>

\* The caller has the result.
Take ==
  /\ phase = "idle"
  /\ tries' = 0 /\ wait' = 0 /\ waited' = 0
  /\ result' = NoResult /\ decided' = NoAnswer
  /\ UNCHANGED <<phase, request, interrupted>>

\* The operator interrupts the command.
Interrupt ==
  /\ ~interrupted
  /\ interrupted' = TRUE
  /\ UNCHANGED <<phase, request, tries, wait, result, decided, waited>>

\* Another invocation has another context.
Renew ==
  /\ phase = "idle" /\ result = NoResult
  /\ interrupted' = FALSE
  /\ UNCHANGED <<phase, request, tries, wait, result, decided, waited>>

ClientNext ==
  \/ \E r \in Request : Ask(r)
  \/ Take
  \/ Renew
  \/ \E a \in Answers : Try(a)
  \/ Wake
  \/ Interrupt

ClientSpec == ClientInit /\ [][ClientNext]_client
----------------------------------------------------------------------------------
LongestPause == Most(Cap, RetryAfterCap * Second)

ClientTypeOK ==
  /\ phase \in {"idle", "sending", "sleeping"}
  /\ request \in Request
  /\ tries \in 0..Attempts
  /\ wait \in 0..LongestPause
  /\ result \in Results
  /\ interrupted \in BOOLEAN
  /\ decided \in [kind : {"none", "body", "oversize", "status"},
                  code : Status \cup {0}, hint : {NoHint}]
  /\ waited \in Nat

\* The first answer that another try could not better is the one get goes by, and
\* nothing is asked after it: a refusal is not retried into a transient failure,
\* and a transient failure, which is what get reports of a request only if every
\* try met one, is not taken for a refusal (client.go get, 287-303).
FirstAnswerStands ==
  /\ decided # NoAnswer =>
       /\ phase = "idle"
       /\ decided.kind = "body" => result = Returned("body")
       /\ decided.kind = "oversize" => result = Returned("malformed")
       /\ decided.kind = "status" => result = Refused(decided.code)
  /\ decided = NoAnswer =>
       /\ result \in {NoResult, Returned("transient"), Returned("cancelled")}
       /\ result = Returned("transient") => tries = Attempts
       /\ result = Returned("cancelled") => interrupted

\* However the server words its hints, a pause is never negative and never longer
\* than the caps allow, all pauses of a request fit between its tries, and the
\* jitter is drawn under a bound the generator accepts at every attempt: neither
\* the shift nor the seconds wrap (client.go backoff and retryAfter, 370-402).
WaitsAreBounded ==
  /\ wait \in 0..LongestPause
  /\ waited <= (Attempts - 1) * LongestPause
  /\ phase = "sleeping" => tries < Attempts
  /\ \A n \in 1..(Attempts - 1) : JitterBound(n) \in 1..Cap
==================================================================================
