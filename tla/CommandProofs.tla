------------------------------ MODULE CommandProofs -------------------------------
(***************************************************************************)
(* Client: types, the first answer stands, and the pauses are bounded, for *)
(* any attempts, durations, statuses and hints the assumptions allow.      *)
(* Command: what exit 1 and exit 2 say, and what is left on disk, for any  *)
(* command lines, statuses, tries and orders of answers; and that the      *)
(* command uses the client as Client says it is used.                      *)
(***************************************************************************)
EXTENDS Command, TLAPS

----------------------------------------------------------------------------------
\* The compliance client.

USE DEF Plain, Returned, NoHint, NoAnswer, NoResult

\* A number that is not positive is replaced by the default.
LEMMA AttemptsPositive == Attempts \in Nat \ {0}
  BY AttemptsAssumption DEF Attempts

\* What time.Duration can hold it keeps.
LEMMA WrapKeeps ==
  ASSUME NEW n \in 0..MaxDuration
  PROVE  Wrap(n) = n
<1> DEFINE M == MaxDuration + 1
<1>1. M \in Nat \ {0} /\ n \in 0..(M - 1)
  BY DurationAssumption
<1>2. (n + M) % (2 * M) = n + M
  <2>1. n + M \in 0..(2 * M - 1)
    BY <1>1
  <2>2. \A a \in Nat, b \in Nat \ {0} : a < b => a % b = a
    BY Z3
  <2> QED
    BY <1>1, <2>1, <2>2
<1>3. Wrap(n) = ((n + M) % (2 * M)) - M
  BY <1>1, DurationAssumption DEF Wrap
<1> QED
  BY <1>1, <1>2, <1>3

\* The jitter is drawn under a bound the generator accepts, at every attempt.
LEMMA JitterBounded ==
  ASSUME NEW n \in Nat \ {0}
  PROVE  JitterBound(n) \in 1..Cap
<1>1. CASE n - 1 < ShiftBound
  <2>1. n - 1 \in 0..(ShiftBound - 1)
    BY <1>1, DurationAssumption
  <2>2. Base * 2^(n - 1) \in 1..MaxDuration
    BY <2>1, DurationAssumption
  <2>3. Wrap(Base * 2^(n - 1)) = Base * 2^(n - 1)
    BY <2>2, WrapKeeps, DurationAssumption
  <2>4. JitterBound(n) = Least(Base * 2^(n - 1), Cap)
    BY <1>1, <2>3 DEF JitterBound
  <2> QED
    BY <2>2, <2>4, DurationAssumption DEF Least
<1>2. CASE ~(n - 1 < ShiftBound)
  BY <1>2, DurationAssumption DEF JitterBound
<1> QED
  BY <1>1, <1>2

\* A hint is never obeyed past its cap, and never backwards.
LEMMA RetryAfterBounded ==
  ASSUME NEW h \in Hint, HasHint(h)
  PROVE  RetryAfter(h) \in 0..(RetryAfterCap * Second)
<1>1. h.n \in Int /\ RetryAfterCap * Second \in Nat
  BY HintAssumption, DurationAssumption
<1>2. CASE h.form = "date"
  BY <1>1, <1>2 DEF RetryAfter, Least, Most
<1>3. CASE h.form # "date" /\ h.n > RetryAfterCap
  BY <1>1, <1>3 DEF RetryAfter
<1>4. CASE h.form # "date" /\ ~(h.n > RetryAfterCap)
  <2>1. h.n \in 0..RetryAfterCap
    BY <1>1, <1>4, DurationAssumption DEF HasHint
  <2>2. h.n * Second \in 0..(RetryAfterCap * Second)
    <3>1. \A a, b, c \in Nat : a <= b => a * c \in 0..(b * c)
      BY Z3
    <3> QED
      BY <2>1, <3>1, DurationAssumption
  <2>3. Wrap(h.n * Second) = h.n * Second
    BY <2>2, <1>1, WrapKeeps, DurationAssumption
  <2> QED
    BY <1>1, <1>4, <2>2, <2>3 DEF RetryAfter, Least
<1> QED
  BY <1>2, <1>3, <1>4

LEMMA LongestPauseNat ==
  /\ LongestPause \in Nat /\ Cap <= LongestPause
  /\ RetryAfterCap * Second \in 0..LongestPause
  BY DurationAssumption DEF LongestPause, Most

\* Whatever pause backoff chooses is within the caps.
LEMMA BackoffBounded ==
  ASSUME NEW n \in Nat \ {0}, NEW a \in Answers, NEW w \in Backoff(n, a)
  PROVE  w \in 0..LongestPause
<1>1. CASE a.kind = "status" /\ HasHint(a.hint)
  <2>1. a.hint \in Hint
    BY <1>1 DEF Answers
  <2> QED
    BY <1>1, <2>1, RetryAfterBounded, LongestPauseNat DEF Backoff
<1>2. CASE ~(a.kind = "status" /\ HasHint(a.hint))
  <2>1. w \in 1..JitterBound(n)
    BY <1>2 DEF Backoff
  <2> QED
    BY <2>1, JitterBounded, LongestPauseNat, DurationAssumption
<1> QED
  BY <1>1, <1>2
----------------------------------------------------------------------------------
\* What a request's steps keep: nothing is returned or decided before it is over,
\* and every pause so far was paid for by a try.
ClientInv ==
  /\ ClientTypeOK
  /\ FirstAnswerStands
  /\ phase # "idle" => result = NoResult /\ tries < Attempts
  /\ phase = "sending" => waited <= tries * LongestPause
  /\ phase = "sleeping" => waited + wait <= tries * LongestPause
  /\ waited <= (Attempts - 1) * LongestPause

LEMMA Products ==
  /\ \A t, l \in Nat : (t + 1) * l = t * l + l /\ t * l \in Nat
  /\ \A t, u, l \in Nat : t <= u => t * l <= u * l
  BY Z3

LEMMA SumsAdd ==
  \A a, b, c, d \in Nat : a <= c /\ b \in 0..d => a + b <= c + d
OBVIOUS

LEMMA ClientInvInit == ClientInit => ClientInv
<1> SUFFICES ASSUME ClientInit PROVE ClientInv
  OBVIOUS
<1>1. (Attempts - 1) * LongestPause \in Nat
  <2>1. Attempts - 1 \in Nat
    BY AttemptsPositive
  <2> QED
    BY <2>1, Products, LongestPauseNat
<1>2. ClientTypeOK
  <2>1. result \in Results
    BY DEF ClientInit, Results
  <2>2. 0 \in 0..Attempts /\ 0 \in 0..LongestPause
    BY AttemptsPositive, LongestPauseNat
  <2> QED
    BY <2>1, <2>2 DEF ClientInit, ClientTypeOK
<1>3. FirstAnswerStands
  BY DEF ClientInit, FirstAnswerStands
<1> QED
  BY <1>1, <1>2, <1>3 DEF ClientInit, ClientInv

LEMMA AskKeeps ==
  ASSUME ClientInv, NEW r \in Request, Ask(r)
  PROVE  ClientInv'
<1>1. (Attempts - 1) * LongestPause \in Nat /\ 0 * LongestPause = 0
  <2>1. Attempts - 1 \in Nat
    BY AttemptsPositive
  <2> QED
    BY <2>1, Products, LongestPauseNat
<1> QED
  BY <1>1, AttemptsPositive, LongestPauseNat
  DEF Ask, ClientInv, ClientTypeOK, FirstAnswerStands, Results

LEMMA TakeKeeps ==
  ASSUME ClientInv, Take
  PROVE  ClientInv'
<1>1. (Attempts - 1) * LongestPause \in Nat
  <2>1. Attempts - 1 \in Nat
    BY AttemptsPositive
  <2> QED
    BY <2>1, Products, LongestPauseNat
<1> QED
  BY <1>1, AttemptsPositive, LongestPauseNat
  DEF Take, ClientInv, ClientTypeOK, FirstAnswerStands, Results

LEMMA TryKeeps ==
  ASSUME ClientInv, NEW a \in Answers, Try(a)
  PROVE  ClientInv'
<1>1. /\ phase = "sending" /\ result = NoResult /\ decided = NoAnswer
      /\ tries \in Nat /\ tries < Attempts /\ waited \in Nat /\ wait \in 0..LongestPause
      /\ waited <= tries * LongestPause
  BY DEF Try, ClientInv, ClientTypeOK, FirstAnswerStands
<1>2. /\ a.kind \in {"body", "oversize", "torn", "transport", "status"}
      /\ a.kind = "status" => a.code \in Status
      /\ a.kind # "status" => a.code = 0
      /\ a = [kind |-> a.kind, code |-> a.code, hint |-> a.hint]
  BY DEF Answers
<1>3. Transient(a) <=> Retries(a)
  BY <1>2 DEF Transient, Retries
<1>4. /\ Retries(a) => decided' = NoAnswer
      /\ ~Retries(a) => /\ decided' = [kind |-> a.kind, code |-> a.code, hint |-> NoHint]
                        /\ decided' # NoAnswer
                        /\ a.kind \in {"body", "oversize", "status"}
  BY <1>1, <1>2, <1>3 DEF Try, Retries
<1>5. decided' \in [kind : {"none", "body", "oversize", "status"},
                    code : Status \cup {0}, hint : {NoHint}]
  BY <1>1, <1>2, <1>4
<1>6. /\ UNCHANGED <<request, interrupted, waited>> /\ tries' = tries + 1
      /\ request \in Request /\ interrupted \in BOOLEAN
      /\ waited <= (Attempts - 1) * LongestPause
  BY DEF Try, ClientInv, ClientTypeOK
<1>7. CASE phase' = "sleeping"
  <2>1. /\ Retries(a) /\ tries + 1 < Attempts
        /\ wait' \in Backoff(tries + 1, a) /\ result' = NoResult
    BY <1>1, <1>7, <1>2 DEF Try, Return, Retries
  <2>2. wait' \in 0..LongestPause
    <3>1. tries + 1 \in Nat \ {0}
      BY <1>1
    <3> QED
      BY <2>1, <3>1, BackoffBounded
  <2>3. waited' + wait' <= tries' * LongestPause
    <3>1. /\ tries' * LongestPause = tries * LongestPause + LongestPause
          /\ tries * LongestPause \in Nat
      BY <1>1, <1>6, Products, LongestPauseNat
    <3>2. waited + wait' <= tries * LongestPause + LongestPause
      <4> DEFINE p == tries * LongestPause
      <4>1. p \in Nat /\ waited \in Nat /\ wait' \in Nat /\ LongestPause \in Nat
        BY <1>1, <2>2, <3>1, LongestPauseNat
      <4>2. waited <= p /\ wait' \in 0..LongestPause
        BY <1>1, <2>2
      <4> HIDE DEF p
      <4>3. waited + wait' <= p + LongestPause
        BY <4>1, <4>2, SumsAdd
      <4> QED
        BY <4>3 DEF p
    <3> QED
      BY <1>6, <3>1, <3>2
  <2>4. decided' = NoAnswer
    BY <2>1, <1>4
  <2> QED
    BY <1>1, <1>5, <1>6, <1>7, <2>1, <2>2, <2>3, <2>4, AttemptsPositive
    DEF ClientInv, ClientTypeOK, FirstAnswerStands, Results
<1>8. CASE phase' # "sleeping"
  <2>1. phase' = "idle" /\ wait' = wait
    BY <1>8 DEF Try, Return
  <2>2. CASE ~Retries(a)
    <3>1. result' = IF a.kind = "body" THEN Returned("body")
                    ELSE IF a.kind = "oversize" THEN Returned("malformed")
                    ELSE Refused(a.code)
      BY <1>4, <2>2 DEF Try, Return, ErrorOf
    <3>2. result' \in Results
      BY <1>2, <1>4, <2>2, <3>1 DEF Results
    <3> QED
      BY <1>1, <1>4, <1>5, <1>6, <2>1, <2>2, <3>1, <3>2, AttemptsPositive
      DEF ClientInv, ClientTypeOK, FirstAnswerStands
  <2>3. CASE Retries(a)
    <3>1. /\ \/ interrupted /\ result' = Returned("cancelled")
             \/ tries + 1 = Attempts /\ result' = Returned("transient")
          /\ decided' = NoAnswer
      BY <1>4, <2>1, <2>3 DEF Try, Return, ErrorOf, Retries
    <3>2. result' \in Results
      BY <3>1 DEF Results
    <3> QED
      BY <1>1, <1>5, <1>6, <2>1, <3>1, <3>2, AttemptsPositive
      DEF ClientInv, ClientTypeOK, FirstAnswerStands
  <2> QED
    BY <2>2, <2>3
<1> QED
  BY <1>7, <1>8

LEMMA WakeKeeps ==
  ASSUME ClientInv, Wake
  PROVE  ClientInv'
<1>1. /\ phase = "sleeping" /\ result = NoResult /\ decided = NoAnswer
      /\ tries \in Nat /\ tries < Attempts /\ waited \in Nat /\ wait \in 0..LongestPause
      /\ waited + wait <= tries * LongestPause
  BY DEF Wake, ClientInv, ClientTypeOK, FirstAnswerStands
<1>2. PICK slept \in 0..wait : waited' = waited + slept
  BY <1>1, LongestPauseNat DEF Wake
<1>3. /\ waited' \in Nat /\ waited' <= tries * LongestPause
      /\ waited' <= (Attempts - 1) * LongestPause
  <2>1. tries <= Attempts - 1 /\ Attempts - 1 \in Nat
    BY <1>1, AttemptsPositive
  <2>2. /\ tries * LongestPause \in Nat
        /\ (Attempts - 1) * LongestPause \in Nat
        /\ tries * LongestPause <= (Attempts - 1) * LongestPause
    BY <1>1, <2>1, Products, LongestPauseNat
  <2> QED
    BY <1>1, <1>2, <2>2, LongestPauseNat
<1>4. /\ UNCHANGED <<request, tries, interrupted, decided, wait>>
      /\ \/ interrupted /\ phase' = "idle" /\ result' = Returned("cancelled")
         \/ phase' = "sending" /\ result' = NoResult
  BY <1>1 DEF Wake, Return
<1> QED
  BY <1>1, <1>3, <1>4, AttemptsPositive
  DEF ClientInv, ClientTypeOK, FirstAnswerStands, Results

LEMMA ContextKeeps ==
  ASSUME ClientInv, Interrupt \/ Renew
  PROVE  ClientInv'
<1>1. /\ UNCHANGED <<phase, request, tries, wait, result, decided, waited>>
      /\ interrupted' \in BOOLEAN
      /\ Interrupt => interrupted'
      /\ Renew => result = NoResult
  BY DEF Interrupt, Renew
<1>2. ClientTypeOK'
  BY <1>1 DEF ClientInv, ClientTypeOK
<1>3. FirstAnswerStands'
  BY <1>1 DEF ClientInv, FirstAnswerStands
<1>4. LongestPause' = LongestPause /\ Attempts' = Attempts
  BY DEF LongestPause, Attempts
<1> QED
  BY <1>1, <1>2, <1>3, <1>4 DEF ClientInv

LEMMA ClientInvStep == ClientInv /\ [ClientNext]_client => ClientInv'
<1> SUFFICES ASSUME ClientInv, [ClientNext]_client PROVE ClientInv'
  OBVIOUS
<1>1. CASE \E r \in Request : Ask(r)
  BY <1>1, AskKeeps
<1>2. CASE Take
  BY <1>2, TakeKeeps
<1>3. CASE \E a \in Answers : Try(a)
  BY <1>3, TryKeeps
<1>4. CASE Wake
  BY <1>4, WakeKeeps
<1>5. CASE Interrupt \/ Renew
  BY <1>5, ContextKeeps
<1>6. CASE UNCHANGED client
  BY <1>6 DEF client, ClientInv, ClientTypeOK, FirstAnswerStands
<1> QED
  BY <1>1, <1>2, <1>3, <1>4, <1>5, <1>6 DEF ClientNext

LEMMA ClientInvBounds == ClientInv => WaitsAreBounded
<1> SUFFICES ASSUME ClientInv PROVE WaitsAreBounded
  OBVIOUS
<1>1. \A n \in 1..(Attempts - 1) : JitterBound(n) \in 1..Cap
  BY JitterBounded, AttemptsPositive
<1> QED
  BY <1>1 DEF ClientInv, ClientTypeOK, WaitsAreBounded

\* The client's inductive invariant, whatever the server answers.
THEOREM ClientInvariance == ClientSpec => []ClientInv
  BY ClientInvInit, ClientInvStep, PTL DEF ClientSpec

\* A request is over with its first answer that another try could not better, and is
\* reported as it was answered (client.go get, 287-303).
THEOREM FirstAnswerStandsHolds == ClientSpec => []FirstAnswerStands
<1>1. ClientInv => FirstAnswerStands
  BY DEF ClientInv
<1> QED
  BY <1>1, ClientInvariance, PTL

\* No hint, no attempt and no width of a duration makes a pause negative or longer
\* than the caps allow (client.go backoff and retryAfter).
THEOREM WaitsAreBoundedHolds == ClientSpec => []WaitsAreBounded
  BY ClientInvBounds, ClientInvariance, PTL

\* What is left of a request: two steps a try, one if the pause before it is under way,
\* and the interrupt that may still come.
RequestLeft ==
  2 * (Attempts - tries)
    + (IF phase = "sleeping" THEN 1 ELSE 0) + (IF interrupted THEN 0 ELSE 1)

\* A step within a request is a try, the end of a pause or the interrupt.
LEMMA RequestStepIsLess ==
  ASSUME ClientInv, ClientNext, phase # "idle", phase' # "idle"
  PROVE  RequestLeft' < RequestLeft
<1>1. tries \in Int /\ Attempts \in Int /\ interrupted \in BOOLEAN
  BY AttemptsPositive DEF ClientInv, ClientTypeOK
<1>2. Attempts' = Attempts
  BY DEF Attempts
<1>3. \/ phase = "sending" /\ phase' = "sleeping" /\ tries' = tries + 1 /\ interrupted' = interrupted
      \/ phase = "sleeping" /\ phase' = "sending" /\ tries' = tries /\ interrupted' = interrupted
      \/ phase' = phase /\ tries' = tries /\ ~interrupted /\ interrupted'
  BY DEF ClientNext, Ask, Take, Renew, Try, Return, Wake, Interrupt
<1> QED
  BY <1>1, <1>2, <1>3 DEF RequestLeft

\* get comes back, whatever is answered: every step of a request brings its end nearer,
\* so it makes no more than 2 * Attempts + 1 of them (client.go get, 287-303).
THEOREM RequestCountsDown ==
  ClientSpec => /\ [](RequestLeft \in 0..(2 * Attempts + 2))
                /\ [][(phase # "idle" /\ phase' # "idle") => (RequestLeft' < RequestLeft)]_client
<1>1. ClientInv => RequestLeft \in 0..(2 * Attempts + 2)
  BY AttemptsPositive DEF ClientInv, ClientTypeOK, RequestLeft
<1>2. ClientInv /\ [ClientNext]_client
        => [(phase # "idle" /\ phase' # "idle") => (RequestLeft' < RequestLeft)]_client
  BY RequestStepIsLess
<1> QED
  BY <1>1, <1>2, ClientInvariance, PTL DEF ClientSpec
----------------------------------------------------------------------------------
\* The command.

HIDE DEF Plain, Returned, NoHint, NoAnswer, NoResult

\* Why the exit status can be trusted.  Until a pass is over it has no error, and what
\* speaks against the log is then either its error or a failed event (found is
\* exactly that); a usage error is met before anything is verified; what is written
\* and what could not be follows the error and what was verified.
CommandInv ==
  /\ stage \in Passing \cup {"off", "configure", "close", "report"}
  /\ verified \in BOOLEAN /\ failed \in BOOLEAN /\ found \in BOOLEAN
  /\ stage # "off" => (found <=> failed \/ err.kind = "finding")
  /\ stage \in {"configure"} \cup Passing => err = NoError /\ wrote = {} /\ unwritten = {}
  /\ stage = "close" => wrote = {} /\ unwritten = {}
  /\ stage \in {"configure", "start", "anchor"} => ~verified /\ ~failed
  /\ stage \in {"start", "anchor"} => request # "inclusion"
  /\ stage = "check" => verified
  /\ stage \in {"close", "report"} =>
       /\ err = NoError => verified
       /\ err.kind = "usage" => err = Error("usage") /\ ~verified /\ ~failed
       /\ err.kind = "status" => err = StatusError(err.code)
  /\ stage = "report" =>
       /\ wrote \subseteq {"state"} /\ unwritten \subseteq {"state"}
       /\ err.kind = "finding" => wrote = {}
       /\ "state" \in wrote => verified
       /\ verified /\ KeepsState /\ err.kind # "finding" => "state" \in wrote \cup unwritten
       /\ err = NoError => unwritten = {}
  /\ FindingIsReported /\ UsageIsBeforeVerified /\ RecordFollowsVerdict

LEMMA CommandInvInit == Init => CommandInv
  BY DEF Init, CommandInv, Passing, FindingIsReported, UsageIsBeforeVerified,
     RecordFollowsVerdict, Exited, NotYet

LEMMA InvokeKeeps ==
  ASSUME CommandInv, Invoke
  PROVE  CommandInv'
  BY DEF CommandInv, Invoke, Renew, Passing, FindingIsReported, UsageIsBeforeVerified,
     RecordFollowsVerdict, Exited, NoError

LEMMA VersionKeeps ==
  ASSUME CommandInv, Version
  PROVE  CommandInv'
  BY DEF CommandInv, Version, Passing, FindingIsReported, UsageIsBeforeVerified,
     RecordFollowsVerdict, Exited, NoError, KeepsState, NotYet

LEMMA ConfigureKeeps ==
  ASSUME CommandInv, Misused \/ ForgedBaseline \/ Start
  PROVE  CommandInv'
<1>1. CASE Misused
  <2>1. /\ stage = "configure" /\ stage' = "close" /\ err' = Error("usage")
        /\ UNCHANGED <<line, request, verified, failed, wrote, unwritten, exit, found>>
    BY <1>1 DEF Misused, Close, client
  <2> QED
    BY <2>1 DEF CommandInv, Passing, FindingIsReported, UsageIsBeforeVerified,
       RecordFollowsVerdict, Exited, NoError, Error
<1>2. CASE ForgedBaseline
  BY <1>2 DEF CommandInv, ForgedBaseline, Close, Passing, FindingIsReported,
     UsageIsBeforeVerified, RecordFollowsVerdict, Exited, NoError, Error, KeepsState
<1>3. CASE Start
  BY <1>3 DEF CommandInv, Start, Ask, Passing, FindingIsReported, UsageIsBeforeVerified,
     RecordFollowsVerdict, Exited, NoError, KeepsState
<1> QED
  BY <1>1, <1>2, <1>3

\* A request in flight changes nothing the command has concluded.
LEMMA ClientKeeps ==
  ASSUME CommandInv, request' = request, UNCHANGED command
  PROVE  CommandInv'
  BY DEF CommandInv, command, Passing, FindingIsReported, UsageIsBeforeVerified,
     RecordFollowsVerdict, Exited, NoError, KeepsState

\* What Has says of a pass, and of what the answer says of the log.
LEMMA HasSays ==
  ASSUME CommandInv, NEW c, Has(c)
  PROVE  /\ stage \in Passing /\ err = NoError /\ wrote = {} /\ unwritten = {}
         /\ found <=> failed
         /\ found' <=> failed \/ SpeaksAgainst(c)
         /\ result.how # "body" => c = "none"
<1>1. stage \in Passing /\ found' = (found \/ SpeaksAgainst(c))
  BY DEF Has
<1>2. result.how # "body" => c = "none"
  BY DEF Has
<1>3. err = NoError /\ wrote = {} /\ unwritten = {} /\ stage # "off"
  BY <1>1 DEF CommandInv, Passing
<1>4. found <=> failed
  <2>1. err.kind # "finding"
    BY <1>3 DEF NoError
  <2> QED
    BY <1>3, <2>1 DEF CommandInv
<1> QED
  BY <1>1, <1>2, <1>3, <1>4

\* What the pass ends with, or goes on with, is what CommandInv says of found.
LEMMA PassKeeps ==
  ASSUME CommandInv, stage \in Passing,
         failed' \in BOOLEAN, found' \in BOOLEAN, verified' \in BOOLEAN,
         found' <=> failed' \/ err'.kind = "finding",
         \/ stage' \in Passing /\ err' = err
         \/ /\ stage' = "close" /\ err'.kind \in {"none", "finding", "incomplete", "status"}
            /\ err' = NoError => verified'
            /\ err'.kind = "status" => err' = StatusError(err'.code),
         stage' \in {"start", "anchor"} =>
           ~verified' /\ ~failed' /\ request' # "inclusion",
         stage' = "check" => verified',
         UNCHANGED <<line, wrote, unwritten, exit>>
  PROVE  CommandInv'
  BY DEF CommandInv, Passing, FindingIsReported, UsageIsBeforeVerified,
     RecordFollowsVerdict, Exited, NoError, Error, StatusError

LEMMA ContradictedKeeps ==
  ASSUME CommandInv, NEW c, Contradicted(c), UNCHANGED <<line, wrote, unwritten, exit>>
  PROVE  CommandInv'
<1>1. Has(c) /\ stage \in Passing /\ (found' <=> failed \/ SpeaksAgainst(c))
      /\ (result.how # "body" => c = "none")
  BY HasSays DEF Contradicted
<1>2. SpeaksAgainst(c)
  BY <1>1 DEF Contradicted, SpeaksAgainst, RefusedProof
<1>3. /\ stage' = "close" /\ err' = Error("finding") /\ UNCHANGED <<verified, failed>>
      /\ found' \in BOOLEAN
  BY <1>1 DEF Contradicted, Close, Has
<1> QED
  BY <1>1, <1>2, <1>3, PassKeeps DEF Error, NoError, CommandInv

LEMMA BreaksKeeps ==
  ASSUME CommandInv, NEW c, Breaks(c), UNCHANGED <<line, wrote, unwritten, exit>>
  PROVE  CommandInv'
<1>1. /\ Has(c) /\ stage \in Passing /\ (found' <=> failed \/ SpeaksAgainst(c))
      /\ result.how # "body" => c = "none"
      /\ found' \in BOOLEAN
  BY HasSays DEF Breaks, Has
<1>2. ~SpeaksAgainst(c)
  BY <1>1 DEF Breaks, SpeaksAgainst, RefusedProof
<1>3. /\ stage' = "close" /\ UNCHANGED <<verified, failed>>
      /\ \/ err' = Error("incomplete")
         \/ err' = StatusError(result.code)
  BY DEF Breaks, Close, ErrorFrom
<1> QED
  BY <1>1, <1>2, <1>3, PassKeeps DEF Error, StatusError, NoError, CommandInv

LEMMA EventFailsKeeps ==
  ASSUME CommandInv, NEW c, EventFails(c), UNCHANGED <<line, wrote, unwritten, exit>>
  PROVE  CommandInv'
<1>1. /\ Has(c) /\ stage \in Passing /\ (found' <=> failed \/ SpeaksAgainst(c))
      /\ result.how # "body" => c = "none"
      /\ err = NoError /\ found' \in BOOLEAN
  BY HasSays DEF EventFails, Has
<1>2. SpeaksAgainst(c) /\ request = "inclusion"
  BY <1>1 DEF EventFails, SpeaksAgainst, RefusedProof
<1>3. /\ failed' = TRUE /\ UNCHANGED <<stage, err, verified, request>>
      /\ stage = "check"
  BY <1>1, <1>2 DEF EventFails, Take, CommandInv, Passing
<1> QED
  BY <1>1, <1>2, <1>3, PassKeeps DEF NoError, CommandInv, Passing

\* A body that holds, or whose checkpoint is still to be linked.
LEMMA HoldsKeeps ==
  ASSUME CommandInv, NEW c, Holds(c) \/ Links(c), UNCHANGED <<line, wrote, unwritten, exit>>
  PROVE  CommandInv'
<1>1. /\ Has(c) /\ stage \in Passing /\ (found' <=> failed \/ SpeaksAgainst(c))
      /\ result.how # "body" => c = "none"
      /\ err = NoError /\ found' \in BOOLEAN
  BY HasSays DEF Holds, Links, Has
<1>2. ~SpeaksAgainst(c)
  BY <1>1 DEF Holds, Links, SpeaksAgainst
<1>3. /\ UNCHANGED <<err, verified, failed>>
      /\ \/ stage' = stage /\ request' \in {request, "consistency"}
         \/ stage = "start" /\ stage' = "anchor" /\ request' = request
  BY DEF Holds, Links, Take, Ask
<1>4. err.kind # "finding"
  BY <1>1 DEF NoError
<1> QED
  BY <1>1, <1>2, <1>3, <1>4, PassKeeps DEF CommandInv, Passing

LEMMA NotServedKeeps ==
  ASSUME CommandInv, NotServed, UNCHANGED <<line, wrote, unwritten, exit>>
  PROVE  CommandInv'
<1>1. /\ Has("none") /\ stage \in Passing /\ (found' <=> failed \/ SpeaksAgainst("none"))
      /\ err = NoError /\ found' \in BOOLEAN
  BY HasSays DEF NotServed, Has
<1>2. ~SpeaksAgainst("none") /\ request = "inclusion"
  BY <1>1 DEF NotServed, SpeaksAgainst, Refused
<1>3. UNCHANGED <<stage, err, verified, failed>> /\ stage = "check"
  BY <1>1, <1>2 DEF NotServed, CommandInv, Passing
<1>4. err.kind # "finding"
  BY <1>1 DEF NoError
<1> QED
  BY <1>1, <1>2, <1>3, <1>4, PassKeeps DEF CommandInv, Passing

LEMMA AnsweredKeeps ==
  ASSUME CommandInv, Answered
  PROVE  CommandInv'
<1>1. UNCHANGED <<line, wrote, unwritten, exit>>
  BY DEF Answered
<1>2. \/ \E c : Contradicted(c) \/ Breaks(c) \/ EventFails(c) \/ Holds(c) \/ Links(c)
      \/ NotServed
  BY DEF Answered
<1> QED
  BY <1>1, <1>2, ContradictedKeeps, BreaksKeeps, EventFailsKeeps, HoldsKeeps, NotServedKeeps
----------------------------------------------------------------------------------
\* The steps of a pass that no answer brings.
LEMMA BetweenKeeps ==
  ASSUME CommandInv, ProveAnchor \/ Anchored \/ AskNext \/ RowFails \/ EndPass
  PROVE  CommandInv'
<1>1. /\ stage \in Passing /\ UNCHANGED <<line, wrote, unwritten, exit>>
      /\ RowFails \/ UNCHANGED <<failed, found>>
  BY DEF ProveAnchor, Anchored, AskNext, RowFails, EndPass, Passing
<1>2. /\ err = NoError /\ (found <=> failed)
      /\ verified \in BOOLEAN /\ failed \in BOOLEAN /\ found \in BOOLEAN
  <2>1. err = NoError /\ stage # "off"
    BY <1>1 DEF CommandInv, Passing
  <2>2. err.kind # "finding"
    BY <2>1 DEF NoError
  <2> QED
    BY <2>1, <2>2 DEF CommandInv
<1>3. err.kind = "none"
  BY <1>2 DEF NoError
<1>4. CASE ProveAnchor
  <2>1. /\ stage = "anchor" /\ UNCHANGED <<stage, err, verified, failed, found>>
        /\ request' \in {request, "consistency"}
    BY <1>4 DEF ProveAnchor, Ask, client
  <2> QED
    BY <1>1, <1>2, <1>3, <2>1, PassKeeps DEF CommandInv, Passing
<1>5. CASE Anchored
  BY <1>1, <1>2, <1>3, <1>5, PassKeeps DEF Anchored, CommandInv, Passing
<1>6. CASE AskNext
  <2>1. stage = "check" /\ UNCHANGED <<stage, err, verified, failed, found>>
    BY <1>6 DEF AskNext
  <2> QED
    BY <1>1, <1>2, <1>3, <2>1, PassKeeps DEF CommandInv, Passing
<1>7. CASE RowFails
  BY <1>1, <1>2, <1>3, <1>7, PassKeeps DEF RowFails, CommandInv, Passing
<1>8. CASE EndPass
  <2>1. /\ stage = "check" /\ stage' = "close" /\ UNCHANGED <<verified, failed, found>>
        /\ err' \in {NoError, Error("incomplete")} /\ verified
    BY <1>8 DEF EndPass, Close, CommandInv
  <2>2. err'.kind \in {"none", "incomplete"}
    BY <2>1 DEF NoError, Error
  <2> QED
    BY <1>1, <1>2, <2>1, <2>2, PassKeeps
<1> QED
  BY <1>4, <1>5, <1>6, <1>7, <1>8

\* What is saved follows the error and what was verified.
LEMMA SaveKeeps ==
  ASSUME CommandInv, Save
  PROVE  CommandInv'
<1>1. /\ stage = "close" /\ stage' = "report"
      /\ UNCHANGED <<line, request, verified, failed, exit, found>>
      /\ wrote = {} /\ unwritten = {}
  BY DEF Save, client, CommandInv
<1>2. \/ ~SavesState /\ UNCHANGED <<err, wrote, unwritten>>
      \/ SavesState /\ wrote' = {"state"} /\ UNCHANGED <<err, unwritten>>
      \/ /\ SavesState /\ unwritten' = {"state"} /\ wrote' = wrote
         /\ err' = IF err = NoError THEN Error("incomplete") ELSE err
  BY DEF Save
<1>3. SavesState => KeepsState /\ verified /\ err.kind # "finding"
  BY <1>1 DEF SavesState, CommandInv, NoError
<1>4. verified /\ KeepsState /\ err.kind # "finding" => SavesState
  BY DEF SavesState
<1>5. /\ err'.kind = "finding" <=> err.kind = "finding"
      /\ err' = NoError => err = NoError /\ unwritten' = {}
      /\ err'.kind = "usage" => err' = err
      /\ err'.kind = "status" => err' = err
  BY <1>1, <1>2 DEF NoError, Error
<1>6. KeepsState' = KeepsState
  BY <1>1 DEF KeepsState
<1>7. /\ wrote' \subseteq {"state"} /\ unwritten' \subseteq {"state"}
      /\ err'.kind = "finding" => wrote' = {}
      /\ "state" \in wrote' => verified'
      /\ verified' /\ KeepsState' /\ err'.kind # "finding" => "state" \in wrote' \cup unwritten'
  BY <1>1, <1>2, <1>3, <1>4, <1>5, <1>6
<1>8. /\ err' = NoError => verified'
      /\ err'.kind = "usage" => err' = Error("usage") /\ ~verified' /\ ~failed'
      /\ err'.kind = "status" => err' = StatusError(err'.code)
      /\ found' <=> failed' \/ err'.kind = "finding"
      /\ verified' \in BOOLEAN /\ failed' \in BOOLEAN /\ found' \in BOOLEAN
  BY <1>1, <1>5 DEF CommandInv
<1> QED
  BY <1>1, <1>5, <1>7, <1>8 DEF CommandInv, Passing, Exited, FindingIsReported,
     UsageIsBeforeVerified, RecordFollowsVerdict

\* The status says what the error, the failed events and what was written say.
LEMMA ReportKeeps ==
  ASSUME CommandInv, Report
  PROVE  CommandInv'
<1>1. PICK lost \in IF SavesNote THEN BOOLEAN ELSE {FALSE} :
        /\ wrote' = IF SavesNote /\ ~lost THEN wrote \cup {"note"} ELSE wrote
        /\ unwritten' = IF lost THEN unwritten \cup {"note"} ELSE unwritten
        /\ exit' = ExitStatus(err, failed, verified, lost)
  BY DEF Report
<1>2. /\ stage = "report" /\ stage' = "off"
      /\ UNCHANGED <<line, request, verified, failed, err, found>>
      /\ KeepsState' = KeepsState
  BY DEF Report, client, KeepsState
<1>3. /\ found <=> failed \/ err.kind = "finding"
      /\ wrote \subseteq {"state"} /\ unwritten \subseteq {"state"}
      /\ err = NoError => verified /\ unwritten = {}
      /\ err.kind = "usage" => err = Error("usage") /\ ~verified /\ ~failed
      /\ err.kind = "status" => err = StatusError(err.code)
      /\ err.kind = "finding" => wrote = {}
      /\ "state" \in wrote => verified
      /\ verified /\ KeepsState /\ err.kind # "finding" => "state" \in wrote \cup unwritten
      /\ verified \in BOOLEAN /\ failed \in BOOLEAN /\ found \in BOOLEAN
  BY <1>2 DEF CommandInv
<1>4. /\ lost \in BOOLEAN
      /\ lost => SavesNote
      /\ SavesNote => line.save /\ err = NoError /\ ~failed
  BY <1>1 DEF SavesNote
<1>5. err = NoError => err.kind = "none" /\ ~Permanent(err)
  BY DEF NoError, Permanent
<1>6. /\ exit' = 1 <=> failed \/ err.kind = "finding"
      /\ exit' = 2 => ~failed /\ err.kind # "finding"
                      /\ (err.kind = "usage" \/ (Permanent(err) /\ ~verified))
      /\ exit' = 0 => err = NoError /\ ~failed /\ ~lost
      /\ err = NoError /\ ~failed /\ ~lost => exit' = 0
      /\ exit' \in {0, 1, 2, 3}
  BY <1>1, <1>3, <1>4, <1>5 DEF ExitStatus
<1>7. FindingIsReported'
  BY <1>2, <1>3, <1>6 DEF FindingIsReported, Exited
<1>8. UsageIsBeforeVerified'
  <2> SUFFICES ASSUME exit' = 2
               PROVE  /\ ~verified' /\ ~found' /\ wrote' = {}
                      /\ err' = Error("usage") \/ err' \in {StatusError(401), StatusError(403)}
    BY DEF UsageIsBeforeVerified, Exited
  <2>1. ~failed /\ err.kind # "finding" /\ err # NoError /\ ~verified
    BY <1>3, <1>5, <1>6, <1>4
  <2>2. wrote' = wrote /\ wrote = {}
    BY <1>1, <1>3, <1>4, <2>1
  <2>3. err = Error("usage") \/ err \in {StatusError(401), StatusError(403)}
    BY <1>3, <1>6 DEF Permanent
  <2> QED
    BY <1>2, <1>3, <2>1, <2>2, <2>3
<1>9. RecordFollowsVerdict'
  <2>1. err.kind = "finding" => wrote' = {}
    BY <1>1, <1>3, <1>4, <1>5
  <2>2. "state" \in wrote' <=> "state" \in wrote
    BY <1>1
  <2>3. "state" \in unwritten => "state" \in unwritten'
    BY <1>1
  <2>4. "note" \in wrote' => SavesNote /\ ~lost
    BY <1>1, <1>3
  <2>5. exit' = 0 => /\ unwritten' = {}
                     /\ KeepsState => "state" \in wrote'
                     /\ line.save => "note" \in wrote'
    <3> SUFFICES ASSUME exit' = 0
                 PROVE  /\ unwritten' = {}
                        /\ KeepsState => "state" \in wrote'
                        /\ line.save => "note" \in wrote'
      OBVIOUS
    <3>1. err = NoError /\ ~failed /\ ~lost /\ unwritten = {} /\ verified
      BY <1>3, <1>6
    <3> QED
      BY <1>1, <1>3, <1>5, <2>2, <3>1 DEF SavesNote
  <2> QED
    BY <1>2, <1>3, <1>4, <1>5, <1>6, <2>1, <2>2, <2>3, <2>4, <2>5
    DEF RecordFollowsVerdict
<1> QED
  BY <1>2, <1>3, <1>7, <1>8, <1>9 DEF CommandInv, Passing

\* A try, the end of a pause and an interrupt leave the request what it is.
LEMMA FlightKeeps ==
  ASSUME CommandInv, Answer \/ Resume \/ Interrupted \/ UNCHANGED vars
  PROVE  CommandInv'
<1>1. request' = request /\ UNCHANGED command
  BY DEF Answer, Resume, Interrupted, Try, Wake, Interrupt, vars, client
<1> QED
  BY <1>1, ClientKeeps

LEMMA RevokeKeeps ==
  ASSUME CommandInv, Revoke
  PROVE  CommandInv'
  BY DEF CommandInv, Revoke, client, Passing, FindingIsReported, UsageIsBeforeVerified,
     RecordFollowsVerdict, Exited, NoError, KeepsState

LEMMA CommandInvStep == CommandInv /\ [Next]_vars => CommandInv'
<1> SUFFICES ASSUME CommandInv, [Next]_vars PROVE CommandInv'
  OBVIOUS
<1>1. CASE Rerun \/ Schedule
  BY <1>1, InvokeKeeps DEF Rerun, Schedule
<1>2. CASE Misused \/ ForgedBaseline \/ Start
  BY <1>2, ConfigureKeeps
<1>3. CASE Version
  BY <1>3, VersionKeeps
<1>4. CASE Answer \/ Resume \/ Interrupted \/ UNCHANGED vars
  BY <1>4, FlightKeeps
<1>5. CASE Answered
  BY <1>5, AnsweredKeeps
<1>6. CASE ProveAnchor \/ Anchored \/ AskNext \/ RowFails \/ EndPass
  BY <1>6, BetweenKeeps
<1>7. CASE Save
  BY <1>7, SaveKeeps
<1>8. CASE Report
  BY <1>8, ReportKeeps
<1>9. CASE Revoke
  BY <1>9, RevokeKeeps
<1> QED
  BY <1>1, <1>2, <1>3, <1>4, <1>5, <1>6, <1>7, <1>8, <1>9 DEF Next, Step

\* The command's inductive invariant, for any command lines, answers and order of
\* failures.
THEOREM CommandInvariance == Spec => []CommandInv
  BY CommandInvInit, CommandInvStep, PTL DEF Spec

\* Exit 1 is for findings and findings are exit 1 (main.go run, 284-337).
THEOREM FindingIsReportedHolds == Spec => []FindingIsReported
<1>1. CommandInv => FindingIsReported
  BY DEF CommandInv
<1> QED
  BY <1>1, CommandInvariance, PTL

\* Exit 2 is for an invocation that verified nothing (main.go 323-330).
THEOREM UsageIsBeforeVerifiedHolds == Spec => []UsageIsBeforeVerified
<1>1. CommandInv => UsageIsBeforeVerified
  BY DEF CommandInv
<1> QED
  BY <1>1, CommandInvariance, PTL

\* What is on disk agrees with the verdict (main.go 198-217 and 242-255).
THEOREM RecordFollowsVerdictHolds == Spec => []RecordFollowsVerdict
<1>1. CommandInv => RecordFollowsVerdict
  BY DEF CommandInv
<1> QED
  BY <1>1, CommandInvariance, PTL
----------------------------------------------------------------------------------
(***************************************************************************)
(* A dead key is not retried for ever.                                     *)
(***************************************************************************)

\* An invocation that began when the key was dead: its first request is refused, and
\* with nothing verified that is what it ends with.
DeadKeyRun ==
  /\ revoked /\ ~verified
  /\ \/ stage = "configure" /\ phase = "idle"
     \/ /\ stage = "start" /\ request = "checkpoint"
        /\ phase = "sending" \/ (phase = "idle" /\ result = Refused(401))
     \/ /\ stage \in {"close", "report"} /\ phase = "idle"
        /\ err \in {Error("usage"), Error("finding"), StatusError(401)}

\* The request of such an invocation is refused, and not tried again.
LEMMA DeadKeyRequest ==
  ASSUME DeadKeyRun, Answer \/ Resume \/ Interrupted \/ Answered
  PROVE  DeadKeyRun'
<1>1. stage = "start" /\ request = "checkpoint"
  BY DEF DeadKeyRun, Answer, Resume, Interrupted, Answered, Contradicted, Breaks, EventFails,
         Holds, Links, NotServed, Has, Try, Wake, Passing, Ask
<1>2. CASE Answer
  <2>1. PICK a \in Answers : Try(a) /\ a.kind = "status" /\ a.code = 401
    BY <1>2 DEF Answer, DeadKeyRun
  <2>2. ~Retries(a) /\ ErrorOf(a) = Refused(401)
    BY <2>1 DEF Retries, ErrorOf
  <2>3. phase' = "idle" /\ result' = Refused(401) /\ request' = request
    BY <2>1, <2>2 DEF Try, Return
  <2>4. UNCHANGED <<revoked, verified, stage>>
    BY <1>2 DEF Answer, command
  <2> QED
    BY <1>1, <2>3, <2>4 DEF DeadKeyRun
<1>3. CASE Resume
  BY <1>1, <1>3 DEF DeadKeyRun, Resume, Wake
<1>4. CASE Interrupted
  BY <1>1, <1>4 DEF DeadKeyRun, Interrupted, Interrupt, command
<1>5. CASE Answered
  <2>1. result = Refused(401)
    BY <1>1, <1>5 DEF DeadKeyRun, Answered, Contradicted, Breaks, EventFails, Holds, Links,
                      NotServed, Has
  <2>2. result.how = "status" /\ result.code = 401
    BY <2>1 DEF Refused
  <2>3. \A c : Has(c) => c = "none"
    BY <2>2 DEF Has
  <2>4. \A c : ~(Contradicted(c) \/ EventFails(c) \/ Holds(c) \/ Links(c)) /\ ~NotServed
    BY <1>1, <2>2, <2>3 DEF Contradicted, EventFails, Holds, Links, NotServed
  <2>5. PICK c : Breaks(c)
    BY <1>5, <2>4 DEF Answered
  <2>6. /\ stage' = "close" /\ err' = StatusError(401) /\ verified' = verified
        /\ phase' = "idle"
    BY <2>2, <2>5 DEF Breaks, Close, ErrorFrom, Has, Take
  <2>7. revoked' = revoked
    BY <1>5 DEF Answered
  <2> QED
    BY <2>6, <2>7 DEF DeadKeyRun
<1> QED
  BY <1>2, <1>3, <1>4, <1>5

\* What it writes does not change what it ends with, and its status says which it is.
LEMMA DeadKeyCloses ==
  ASSUME DeadKeyRun, Save \/ Report
  PROVE  DeadKeyRun' \/ (stage' = "off" /\ exit' # 3)
<1>1. err \in {Error("usage"), Error("finding"), StatusError(401)} /\ ~verified /\ revoked
  BY DEF DeadKeyRun, Save, Report
<1>2. err # NoError
  BY <1>1 DEF Error, StatusError, NoError
<1>3. CASE Save
  <2>1. ~SavesState
    BY <1>1, <1>2 DEF SavesState
  <2> QED
    BY <1>1, <1>3, <2>1 DEF Save, DeadKeyRun, client
<1>4. CASE Report
  <2>1. PICK lost : exit' = ExitStatus(err, failed, verified, lost)
    BY <1>4 DEF Report
  <2>2. err.kind \in {"usage", "finding"} \/ Permanent(err)
    BY <1>1 DEF Error, StatusError, Permanent
  <2>3. exit' # 3
    BY <1>1, <2>1, <2>2 DEF ExitStatus
  <2> QED
    BY <1>4, <2>3 DEF Report
<1> QED
  BY <1>3, <1>4

LEMMA DeadKeyStep ==
  ASSUME DeadKeyRun, Next
  PROVE  DeadKeyRun' \/ (stage' = "off" /\ exit' # 3)
<1>1. stage # "off" /\ stage # "anchor" /\ stage # "check" /\ revoked
  BY DEF DeadKeyRun
<1>2. CASE Misused \/ ForgedBaseline
  BY <1>2 DEF DeadKeyRun, Misused, ForgedBaseline, Close, client
<1>3. CASE Version
  BY <1>3 DEF Version
<1>4. CASE Start
  BY <1>4 DEF DeadKeyRun, Start, Ask
<1>5. CASE Answer \/ Resume \/ Interrupted \/ Answered
  BY <1>5, DeadKeyRequest
<1>6. CASE Save \/ Report
  BY <1>6, DeadKeyCloses
<1> QED
  BY <1>1, <1>2, <1>3, <1>4, <1>5, <1>6
  DEF Next, Step, Rerun, Schedule, Invoke, ProveAnchor, Anchored, AskNext, RowFails, EndPass, Revoke

\* Why RevokedKeyStops holds: an invocation that begins with a dead key does not end with
\* "rerun", whatever its command line, its saved state and its files, and even if the
\* operator interrupts it (main.go 323-330, trust.go permanentRequestError).
THEOREM DeadKeyIsNotRerun ==
  Spec => [][/\ (revoked /\ stage = "off" /\ stage' # "off") => DeadKeyRun'
             /\ DeadKeyRun => (DeadKeyRun' \/ (stage' = "off" /\ exit' # 3))]_vars
<1>1. Next /\ revoked /\ stage = "off" /\ stage' # "off" => DeadKeyRun'
  <2> SUFFICES ASSUME Next, revoked, stage = "off", stage' # "off" PROVE DeadKeyRun'
    OBVIOUS
  <2>1. Invoke
    BY DEF Next, Step, Rerun, Schedule, Misused, Version, ForgedBaseline, Start, Answer, Resume,
           Answered, Contradicted, Breaks, EventFails, Holds, Links, NotServed, Has, Passing,
           ProveAnchor, Anchored, AskNext, RowFails, EndPass, Save, Report, Interrupted, Revoke,
           command
  <2> QED
    BY <2>1 DEF Invoke, Renew, DeadKeyRun
<1> QED
  BY <1>1, DeadKeyStep, PTL DEF Spec
----------------------------------------------------------------------------------
\* What the command does to its client the client's specification allows.
LEMMA CommandAsks ==
  ASSUME Next
  PROVE  [ClientNext]_client
<1>1. CASE Rerun \/ Schedule
  BY <1>1 DEF Rerun, Schedule, Invoke, ClientNext
<1>2. CASE Start
  BY <1>2, RequestAssumption DEF Start, ClientNext
<1>3. CASE Answer \/ Resume \/ Interrupted
  BY <1>3 DEF Answer, Resume, Interrupted, ClientNext
<1>4. CASE Answered
  <2>1. Take \/ Ask("consistency") \/ Ask("inclusion")
    BY <1>4 DEF Answered, Contradicted, Breaks, EventFails, Holds, Links, NotServed
  <2> QED
    BY <2>1, RequestAssumption DEF ClientNext
<1>5. CASE ProveAnchor
  BY <1>5, RequestAssumption DEF ProveAnchor, ClientNext
<1>6. CASE AskNext
  <2>1. PICK r \in CASE line.cmd = "run" -> IF asks = 0 THEN {"activities"}
                                            ELSE {"activities", "inclusion"}
                     [] line.cmd = "events" -> {"checkpoint", "inclusion"}
                     [] OTHER -> {} : Ask(r)
    BY <1>6 DEF AskNext
  <2>2. r \in Request
    BY <2>1, RequestAssumption
  <2> QED
    BY <2>1, <2>2 DEF ClientNext
<1>7. CASE UNCHANGED client
  BY <1>7
<1> QED
  BY <1>1, <1>2, <1>3, <1>4, <1>5, <1>6, <1>7
  DEF Next, Step, Misused, Version, ForgedBaseline, Anchored, RowFails, EndPass, Save,
      Report, Revoke

\* The command is a client as Client specifies it, so what is proved of the client
\* holds of every request the command sends: a result is asked for only when the one
\* before it was taken up, and no invocation starts over another one's request.
THEOREM CommandUsesClient == Spec => ClientSpec
<1>1. Init => ClientInit
  BY DEF Init
<1>2. [Next]_vars => [ClientNext]_client
  BY CommandAsks DEF vars
<1> QED
  BY <1>1, <1>2, PTL DEF Spec, ClientSpec

\* The client's promises as the command sees them.
COROLLARY CommandRequests == Spec => [](FirstAnswerStands /\ WaitsAreBounded)
  BY CommandUsesClient, FirstAnswerStandsHolds, WaitsAreBoundedHolds, PTL
==================================================================================
