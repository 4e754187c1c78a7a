----------------------- MODULE GatewayDispatchProofs -----------------------
(***************************************************************************)
(* Proofs about the gateway's circuit breakers, for any providers, aliases, *)
(* modes, answers, threshold and number of concurrent requests.             *)
(***************************************************************************)
EXTENDS GatewayDispatch, TLAPS

Verdicts == {"success", "failure", "uncounted"}

-----------------------------------------------------------------------------
(* The breaker as a value *)

(* should_allow leaves a breaker; it changes a closed one in no way, and    *)
(* lets through only when it leaves a closed one, or a half-open one whose  *)
(* probe slot it has just taken.                                            *)
LEMMA ShouldAllowFacts ==
  ASSUME NEW b \in Breaker
  PROVE  /\ ShouldAllow(b) \in Breaker
         /\ b.state = "Closed" => ShouldAllow(b) = b /\ Allows(b)
         /\ ShouldAllow(b).state = "HalfOpen" => ShouldAllow(b).probe
         /\ Allows(b) /\ b.state = "HalfOpen" => ~b.probe
         /\ b.state # "Closed" => ShouldAllow(b).state # "Closed"
BY CircuitBreakerAssumption DEF Breaker, ShouldAllow, Allows, EvaluateStateTransition

(* Opening leaves an open breaker.                                          *)
LEMMA OpenedFacts ==
  ASSUME NEW b \in Breaker
  PROVE  /\ Opened(b) \in Breaker
         /\ Opened(b).state = "Open"
<1>1. 0 \in 0..(Threshold - 1)
  BY CircuitBreakerAssumption
<1> QED
  BY <1>1 DEF Opened, Breaker

(* Recording a result leaves a breaker, never makes one half-open, and      *)
(* leaves it as it was if it is half-open afterwards.                       *)
LEMMA RecordedFacts ==
  ASSUME NEW b \in Breaker, NEW v \in Verdicts
  PROVE  /\ Recorded(b, v) \in Breaker
         /\ Recorded(b, v).state = "HalfOpen" => Recorded(b, v) = b
         /\ b.state = "Closed" /\ v # "failure" => Recorded(b, v).state = "Closed"
         /\ b.state # "Closed" /\ v # "success" => Recorded(b, v).state # "Closed"
<1>1. CASE v = "success"
  <2>1. Recorded(b, v) = RecordSuccess(b)
    BY <1>1 DEF Recorded
  <2>2. CASE b.state = "Closed"
    <3>1. Recorded(b, v) = [b EXCEPT !.failures = 0]
      BY <2>1, <2>2 DEF RecordSuccess
    <3>2. Recorded(b, v) \in Breaker
      BY <3>1, CircuitBreakerAssumption DEF Breaker
    <3>3. Recorded(b, v).state = "Closed"
      BY <2>2, <3>1 DEF Breaker
    <3> QED
      BY <1>1, <2>2, <3>2, <3>3
  <2>3. CASE b.state = "HalfOpen"
    <3>1. Recorded(b, v) = NewBreaker
      BY <2>1, <2>3 DEF RecordSuccess
    <3>2. Recorded(b, v) \in Breaker
      BY <3>1, CircuitBreakerAssumption DEF Breaker, NewBreaker
    <3>3. Recorded(b, v).state = "Closed"
      BY <3>1 DEF NewBreaker
    <3> QED
      BY <1>1, <2>3, <3>2, <3>3
  <2>4. CASE b.state = "Open"
    <3>1. Recorded(b, v) = b
      BY <2>1, <2>4 DEF RecordSuccess
    <3> QED
      BY <1>1, <2>4, <3>1
  <2> QED
    BY <2>2, <2>3, <2>4 DEF Breaker
<1>2. CASE v = "failure"
  <2>1. Recorded(b, v) = RecordFailure(b)
    BY <1>2 DEF Recorded
  <2>2. CASE b.state = "Closed"
    <3>1. Recorded(b, v) = IF b.failures + 1 >= Threshold THEN Opened(b)
                           ELSE [b EXCEPT !.failures = @ + 1]
      BY <2>1, <2>2 DEF RecordFailure
    <3>2. CASE b.failures + 1 >= Threshold
      BY <1>2, <2>2, <3>1, <3>2, OpenedFacts
    <3>3. CASE ~(b.failures + 1 >= Threshold)
      <4>1. Recorded(b, v) = [b EXCEPT !.failures = @ + 1]
        BY <3>1, <3>3
      <4>2. b.failures + 1 \in 0..(Threshold - 1)
        BY <3>3, CircuitBreakerAssumption DEF Breaker
      <4>3. Recorded(b, v) \in Breaker
        BY <4>1, <4>2 DEF Breaker
      <4>4. Recorded(b, v).state = "Closed"
        BY <2>2, <4>1 DEF Breaker
      <4> QED
        BY <1>2, <2>2, <4>3, <4>4
    <3> QED
      BY <3>2, <3>3
  <2>3. CASE b.state = "HalfOpen"
    <3>1. Recorded(b, v) = [Opened(b) EXCEPT !.probe = FALSE]
      BY <2>1, <2>3 DEF RecordFailure
    <3>2. Recorded(b, v) \in Breaker
      BY <3>1, OpenedFacts DEF Breaker
    <3>3. Recorded(b, v).state = "Open"
      BY <3>1, OpenedFacts DEF Breaker
    <3> QED
      BY <1>2, <2>3, <3>2, <3>3
  <2>4. CASE b.state = "Open"
    <3>1. Recorded(b, v) = [b EXCEPT !.cooled = FALSE]
      BY <2>1, <2>4 DEF RecordFailure
    <3>2. Recorded(b, v) \in Breaker
      BY <3>1, CircuitBreakerAssumption DEF Breaker
    <3>3. Recorded(b, v).state = "Open"
      BY <2>4, <3>1 DEF Breaker
    <3> QED
      BY <1>2, <2>4, <3>2, <3>3
  <2> QED
    BY <2>2, <2>3, <2>4 DEF Breaker
<1>3. CASE v = "uncounted"
  <2>1. Recorded(b, v) = b
    BY <1>3 DEF Recorded
  <2> QED
    BY <1>3, <2>1
<1> QED
  BY <1>1, <1>2, <1>3 DEF Verdicts

(* What a path makes of an answer.                                          *)
LEMMA VerdictFacts ==
  ASSUME NEW m \in Modes, NEW o \in Outcomes
  PROVE  /\ Verdict(m, o) \in Verdicts
         /\ o = "ok" => Verdict(m, o) = "success"
         /\ o \in ProviderErrors \ PassedThrough(m) => Verdict(m, o) = "failure"
BY DEF Verdict, PassedThrough, ProviderErrors, Verdicts, Modes, Outcomes

(* A path that streams passes no error through.                             *)
LEMMA StreamsPassNothing ==
  ASSUME NEW m \in {"stream", "messages"}
  PROVE  PassedThrough(m) = {}
BY DEF PassedThrough

-----------------------------------------------------------------------------
(* The inductive invariant *)

Healthy(p) == Answers[p] = {"ok"}
Broken(p) == Answers[p] \subseteq ProviderErrors

(* A request that is not idle has a provider; it has left its primary only  *)
(* for the fallback of its alias, and never a healthy primary.              *)
ServedInv ==
  \A r \in Requests :
    /\ pc[r] # "idle" => server[r] \in Providers
    /\ pc[r] = "primary" => server[r] = Primary[r]
    /\ pc[r] = "fallback" => Fallback[r] \in Providers /\ server[r] = Fallback[r]
    /\ pc[r] # "idle" /\ Healthy(Primary[r]) => server[r] = Primary[r] /\ pc[r] # "fallback"

GatewayInv == TypeOK /\ OneProbe /\ HealthyStaysClosed /\ ServedInv

(* What reporting results may make of the breakers: none becomes half-open, *)
(* the circuit of a healthy provider stays closed, that of a broken one     *)
(* becomes so only if it is one of ex.                                      *)
Reports(old, new, ex) ==
  /\ new \in [Providers -> Breaker]
  /\ \A p \in Providers :
       /\ new[p].state = "HalfOpen" => new[p] = old[p]
       /\ Healthy(p) /\ old[p].state = "Closed" => new[p].state = "Closed"
       /\ Broken(p) /\ old[p].state # "Closed" /\ p \notin ex => new[p].state # "Closed"

ClosesOnly(ex) ==
  \A p \in Providers :
    Broken(p) /\ breaker[p].state # "Closed" /\ p \notin ex => breaker'[p].state # "Closed"

(* The step of BrokenStaysOpen.                                             *)
BrokenStep ==
  \A p \in Providers :
    Broken(p) /\ breaker[p].state # "Closed" /\ breaker'[p].state = "Closed"
      => \E r \in Requests :
           /\ server[r] = p /\ server'[r] = None
           /\ PassedThrough(Mode[r]) \cap Answers[p] # {}

LEMMA ClosesNone ==
  ASSUME ClosesOnly({})
  PROVE  BrokenStep
BY DEF ClosesOnly, BrokenStep

(* Reporting nothing is a report, and so is one result after reports.       *)
LEMMA NothingReported ==
  ASSUME TypeOK
  PROVE  Reports(breaker, breaker, {})
BY DEF TypeOK, Reports

LEMMA RecordingReports ==
  ASSUME NEW old \in [Providers -> Breaker], NEW bs, NEW ex, Reports(old, bs, ex),
         NEW q \in Providers, NEW v \in Verdicts,
         Healthy(q) => v # "failure",
         Broken(q) /\ q \notin ex => v # "success"
  PROVE  Reports(old, [bs EXCEPT ![q] = Recorded(@, v)], ex)
<1> DEFINE new == [bs EXCEPT ![q] = Recorded(@, v)]
<1>1. bs \in [Providers -> Breaker]
  BY DEF Reports
<1>2. /\ Recorded(bs[q], v) \in Breaker
      /\ Recorded(bs[q], v).state = "HalfOpen" => Recorded(bs[q], v) = bs[q]
      /\ bs[q].state = "Closed" /\ v # "failure" => Recorded(bs[q], v).state = "Closed"
      /\ bs[q].state # "Closed" /\ v # "success" => Recorded(bs[q], v).state # "Closed"
  BY <1>1, RecordedFacts
<1>3. new \in [Providers -> Breaker]
  BY <1>1, <1>2
<1>4. new[q] = Recorded(bs[q], v) /\ \A p \in Providers \ {q} : new[p] = bs[p]
  BY <1>1
<1>5. ASSUME NEW p \in Providers
      PROVE  /\ new[p].state = "HalfOpen" => new[p] = old[p]
             /\ Healthy(p) /\ old[p].state = "Closed" => new[p].state = "Closed"
             /\ Broken(p) /\ old[p].state # "Closed" /\ p \notin ex => new[p].state # "Closed"
  <2>1. CASE p = q
    BY <1>2, <1>4, <2>1 DEF Reports
  <2>2. CASE p # q
    BY <1>4, <2>2 DEF Reports
  <2> QED
    BY <2>1, <2>2
<1> QED
  BY <1>3, <1>5 DEF Reports

-----------------------------------------------------------------------------
(* The steps that actions share *)

(* Ending a request after reports.                                          *)
LEMMA EndKeeps ==
  ASSUME GatewayInv, NEW r \in Requests, NEW bs, NEW ex, Reports(breaker, bs, ex), End(r, bs)
  PROVE  GatewayInv' /\ ClosesOnly(ex)
<1>1. TypeOK'
  BY DEF GatewayInv, TypeOK, Reports, End
<1>2. OneProbe'
  BY DEF GatewayInv, TypeOK, OneProbe, Reports, End
<1>3. HealthyStaysClosed'
  BY DEF GatewayInv, HealthyStaysClosed, Healthy, Reports, End
<1>4. ServedInv'
  BY DEF GatewayInv, TypeOK, ServedInv, End
<1>5. ClosesOnly(ex)
  BY DEF ClosesOnly, Reports, End
<1> QED
  BY <1>1, <1>2, <1>3, <1>4, <1>5 DEF GatewayInv

(* Passing a request to a provider after reports.                           *)
LEMMA CallKeeps ==
  ASSUME GatewayInv, NEW r \in Requests, NEW bs, NEW ex, Reports(breaker, bs, ex),
         NEW q \in Providers, NEW stage \in {"primary", "fallback"},
         stage = "primary" => q = Primary[r],
         stage = "fallback" => Fallback[r] \in Providers /\ q = Fallback[r],
         Healthy(Primary[r]) => q = Primary[r] /\ stage = "primary",
         CallProvider(r, q, stage, bs)
  PROVE  GatewayInv' /\ ClosesOnly(ex)
<1>1. bs \in [Providers -> Breaker]
  BY DEF Reports
<1>2. /\ ShouldAllow(bs[q]) \in Breaker
      /\ bs[q].state = "Closed" => ShouldAllow(bs[q]) = bs[q]
      /\ ShouldAllow(bs[q]).state = "HalfOpen" => ShouldAllow(bs[q]).probe
      /\ bs[q].state = "HalfOpen" => ~bs[q].probe
      /\ bs[q].state # "Closed" => ShouldAllow(bs[q]).state # "Closed"
  BY <1>1, ShouldAllowFacts DEF CallProvider
<1>3. /\ breaker' = [bs EXCEPT ![q] = ShouldAllow(bs[q])]
      /\ breaker'[q] = ShouldAllow(bs[q])
      /\ \A p \in Providers \ {q} : breaker'[p] = bs[p]
  BY <1>1 DEF CallProvider
<1> DEFINE inFlight == IF ShouldAllow(bs[q]).state # "HalfOpen" THEN {}
                       ELSE IF bs[q].state = "HalfOpen" THEN probing[q] \cup {r} ELSE {r}
<1>4. /\ probing' = [probing EXCEPT ![q] = inFlight]
      /\ probing'[q] = inFlight
      /\ \A p \in Providers \ {q} : probing'[p] = probing[p]
  BY DEF CallProvider, GatewayInv, TypeOK
<1>5. TypeOK'
  <2>1. breaker' \in [Providers -> Breaker]
    BY <1>1, <1>2, <1>3
  <2>2. inFlight \in SUBSET Requests
    BY DEF GatewayInv, TypeOK
  <2>3. probing' \in [Providers -> SUBSET Requests]
    BY <1>4, <2>2 DEF GatewayInv, TypeOK
  <2> QED
    BY <2>1, <2>3 DEF GatewayInv, TypeOK, CallProvider
<1>6. OneProbe'
  <2> SUFFICES ASSUME NEW p \in Providers, breaker'[p].state = "HalfOpen"
               PROVE  /\ \A x, y \in probing'[p] : x = y
                      /\ breaker'[p].probe <=> probing'[p] # {}
    BY DEF OneProbe
  <2>1. CASE p # q
    BY <1>3, <1>4, <2>1 DEF Reports, GatewayInv, OneProbe
  <2>2. CASE p = q
    <3>1. probing'[q] = {r}
      <4>1. CASE bs[q].state = "HalfOpen"
        <5>1. breaker[q].state = "HalfOpen" /\ ~breaker[q].probe
          BY <1>2, <4>1 DEF Reports
        <5>2. probing[q] = {}
          BY <5>1 DEF GatewayInv, OneProbe
        <5> QED
          BY <1>3, <1>4, <2>2, <4>1, <5>2
      <4>2. CASE bs[q].state # "HalfOpen"
        BY <1>3, <1>4, <2>2, <4>2
      <4> QED
        BY <4>1, <4>2
    <3>2. breaker'[q].probe
      BY <1>2, <1>3, <2>2
    <3> QED
      BY <2>2, <3>1, <3>2
  <2> QED
    BY <2>1, <2>2
<1>7. HealthyStaysClosed'
  <2> SUFFICES ASSUME NEW p \in Providers, Healthy(p)
               PROVE  breaker'[p].state = "Closed"
    BY DEF HealthyStaysClosed, Healthy
  <2>1. bs[p].state = "Closed"
    BY DEF GatewayInv, HealthyStaysClosed, Healthy, Reports
  <2> QED
    BY <1>2, <1>3, <2>1
<1>8. ServedInv'
  BY DEF GatewayInv, TypeOK, ServedInv, CallProvider
<1>9. ClosesOnly(ex)
  BY <1>2, <1>3 DEF ClosesOnly, Reports
<1> QED
  BY <1>5, <1>6, <1>7, <1>8, <1>9 DEF GatewayInv

(* What the primary's failure leads to; a healthy primary does not fail.    *)
LEMMA PrimaryFailedKeeps ==
  ASSUME GatewayInv, NEW r \in Requests, NEW bs, NEW ex, Reports(breaker, bs, ex),
         NEW v \in Verdicts, v # "success",
         ~Healthy(Primary[r]),
         PrimaryFailed(r, v, bs)
  PROVE  GatewayInv' /\ ClosesOnly(ex)
<1>1. CASE TryFallback(r, bs)
  <2>1. Fallback[r] \in Providers
    BY <1>1, GatewayAssumption DEF TryFallback
  <2>2. CASE CallProvider(r, Fallback[r], "fallback", bs)
    BY <2>1, <2>2, CallKeeps
  <2>3. CASE End(r, bs)
    BY <2>3, EndKeeps
  <2> QED
    BY <1>1, <2>2, <2>3 DEF TryFallback
<1>2. CASE VisionGate(r, bs)
  BY <1>2, EndKeeps DEF VisionGate
<1>3. CASE NoFallback(r, v, bs)
  <2>1. CASE Mode[r] = "messages"
    BY <1>3, <2>1, EndKeeps DEF NoFallback
  <2>2. CASE Mode[r] # "messages"
    <3>1. Primary[r] \in Providers /\ breaker \in [Providers -> Breaker]
      BY GatewayAssumption DEF GatewayInv, TypeOK
    <3>2. Reports(breaker, [bs EXCEPT ![Primary[r]] = Recorded(@, v)], ex)
      BY <3>1, RecordingReports
    <3>3. End(r, [bs EXCEPT ![Primary[r]] = Recorded(@, v)])
      BY <1>3, <2>2 DEF NoFallback
    <3> QED
      BY <3>2, <3>3, EndKeeps
  <2> QED
    BY <2>1, <2>2
<1> QED
  BY <1>1, <1>2, <1>3 DEF PrimaryFailed

(* A call that succeeded; it was not made to the fallback of a healthy      *)
(* primary.                                                                 *)
LEMMA ServedKeeps ==
  ASSUME GatewayInv, NEW r \in Requests, NEW bs, NEW ex, Reports(breaker, bs, ex),
         pc[r] # "idle", Served(r, bs)
  PROVE  GatewayInv' /\ ClosesOnly(ex)
<1>1. CASE Mode[r] \in {"stream", "messages"}
  <2>1. breaker' = bs /\ pc' = [pc EXCEPT ![r] = "streaming"] /\ UNCHANGED <<server, probing>>
    BY <1>1 DEF Served
  <2>2. TypeOK'
    BY <2>1 DEF GatewayInv, TypeOK, Reports
  <2>3. OneProbe'
    BY <2>1 DEF GatewayInv, OneProbe, Reports
  <2>4. HealthyStaysClosed'
    BY <2>1 DEF GatewayInv, HealthyStaysClosed, Healthy, Reports
  <2>5. ServedInv'
    BY <2>1 DEF GatewayInv, TypeOK, ServedInv
  <2>6. ClosesOnly(ex)
    BY <2>1 DEF ClosesOnly, Reports
  <2> QED
    BY <2>2, <2>3, <2>4, <2>5, <2>6 DEF GatewayInv
<1>2. CASE Mode[r] \notin {"stream", "messages"}
  BY <1>2, EndKeeps DEF Served
<1> QED
  BY <1>1, <1>2

(* The verdict on an answer of q: never a failure if q is healthy, and a    *)
(* success if it is broken only where the path passes the error through.    *)
LEMMA VerdictOfProvider ==
  ASSUME NEW r \in Requests, NEW q \in Providers, NEW o \in Answers[q]
  PROVE  /\ Verdict(Mode[r], o) \in Verdicts
         /\ Healthy(q) => Verdict(Mode[r], o) = "success"
         /\ Broken(q) /\ Verdict(Mode[r], o) = "success"
              => PassedThrough(Mode[r]) \cap Answers[q] # {}
<1>1. Mode[r] \in Modes /\ o \in Outcomes
  BY GatewayAssumption
<1>2. Healthy(q) => o = "ok"
  BY DEF Healthy
<1>3. Broken(q) => o \in ProviderErrors
  BY DEF Broken
<1> QED
  BY <1>1, <1>2, <1>3, VerdictFacts

(* A request that ends may have closed the circuit of its own provider, if  *)
(* its path passes an error of that provider through.                       *)
LEMMA ClosedByEnd ==
  ASSUME NEW r \in Requests, NEW q \in Providers, server[r] = q,
         ClosesOnly({q}), server'[r] = None,
         PassedThrough(Mode[r]) \cap Answers[q] # {}
  PROVE  BrokenStep
BY DEF ClosesOnly, BrokenStep

(* A call to q that succeeded and was recorded.                             *)
LEMMA SuccessKeeps ==
  ASSUME GatewayInv, NEW r \in Requests, NEW q \in Providers, server[r] = q, pc[r] # "idle",
         NEW o \in Answers[q], Verdict(Mode[r], o) = "success",
         Served(r, [breaker EXCEPT ![q] = Recorded(@, "success")])
  PROVE  GatewayInv' /\ BrokenStep
<1> DEFINE after == [breaker EXCEPT ![q] = Recorded(@, "success")]
<1>1. breaker \in [Providers -> Breaker] /\ Reports(breaker, breaker, {}) /\ "success" \in Verdicts
  BY NothingReported DEF GatewayInv, TypeOK, Verdicts
<1>2. Broken(q) => PassedThrough(Mode[r]) \cap Answers[q] # {}
  BY VerdictOfProvider
<1>3. CASE Broken(q)
  <2>1. Reports(breaker, breaker, {q})
    BY <1>1 DEF Reports
  <2>2. Reports(breaker, after, {q})
    BY <1>1, <2>1, RecordingReports
  <2>3. GatewayInv' /\ ClosesOnly({q})
    BY <2>2, ServedKeeps
  <2>4. Mode[r] \notin {"stream", "messages"}
    BY <1>2, <1>3, StreamsPassNothing
  <2>5. server'[r] = None
    BY <2>4 DEF Served, End, GatewayInv, TypeOK
  <2> QED
    BY <1>2, <1>3, <2>3, <2>5, ClosedByEnd
<1>4. CASE ~Broken(q)
  <2>1. Reports(breaker, after, {})
    BY <1>1, <1>4, RecordingReports
  <2> QED
    BY <2>1, ServedKeeps, ClosesNone
<1> QED
  BY <1>3, <1>4

-----------------------------------------------------------------------------
(* Every action keeps the invariant *)

LEMMA StartKeeps ==
  ASSUME GatewayInv, NEW r \in Requests, Start(r)
  PROVE  GatewayInv' /\ BrokenStep
<1>1. Primary[r] \in Providers /\ breaker \in [Providers -> Breaker] /\ Reports(breaker, breaker, {})
  BY GatewayAssumption, NothingReported DEF GatewayInv, TypeOK
<1>2. CASE CallProvider(r, Primary[r], "primary", breaker)
  BY <1>1, <1>2, CallKeeps, ClosesNone
<1>3. CASE ~Allows(breaker[Primary[r]]) /\ PrimaryFailed(r, "uncounted", breaker)
  <2>1. ~Healthy(Primary[r])
    BY <1>1, <1>3, ShouldAllowFacts DEF GatewayInv, HealthyStaysClosed, Healthy
  <2>2. "uncounted" \in Verdicts
    BY DEF Verdicts
  <2> QED
    BY <1>1, <1>3, <2>1, <2>2, PrimaryFailedKeeps, ClosesNone
<1> QED
  BY <1>2, <1>3 DEF Start

LEMMA PrimaryReturnsKeeps ==
  ASSUME GatewayInv, NEW r \in Requests, PrimaryReturns(r)
  PROVE  GatewayInv' /\ BrokenStep
<1> DEFINE q == Primary[r]
           verdict(o) == Verdict(Mode[r], o)
           after(o) == [breaker EXCEPT ![q] = Recorded(@, verdict(o))]
<1>1. PICK o \in Answers[q] : \/ verdict(o) = "success" /\ Served(r, after(o))
                              \/ verdict(o) # "success" /\ PrimaryFailed(r, verdict(o), after(o))
  BY DEF PrimaryReturns
<1>2. q \in Providers /\ breaker \in [Providers -> Breaker] /\ Reports(breaker, breaker, {})
  BY GatewayAssumption, NothingReported DEF GatewayInv, TypeOK
<1>3. /\ verdict(o) \in Verdicts
      /\ Healthy(q) => verdict(o) = "success"
  BY <1>2, VerdictOfProvider
<1>4. verdict(o) # "success" => Reports(breaker, after(o), {})
  BY <1>2, <1>3, RecordingReports
<1>5. pc[r] # "idle" /\ server[r] = q
  BY DEF PrimaryReturns, GatewayInv, ServedInv
<1>6. CASE verdict(o) = "success" /\ Served(r, after(o))
  BY <1>2, <1>5, <1>6, SuccessKeeps
<1> HIDE DEF q, verdict, after
<1>7. CASE verdict(o) # "success" /\ PrimaryFailed(r, verdict(o), after(o))
  <2>1. ~Healthy(Primary[r])
    BY <1>3, <1>7 DEF q
  <2> QED
    BY <1>3, <1>4, <1>7, <2>1, PrimaryFailedKeeps, ClosesNone
<1> QED
  BY <1>1, <1>6, <1>7

LEMMA FallbackReturnsKeeps ==
  ASSUME GatewayInv, NEW r \in Requests, FallbackReturns(r)
  PROVE  GatewayInv' /\ BrokenStep
<1> DEFINE q == Fallback[r]
           verdict(o) == Verdict(Mode[r], o)
           after(o) == [breaker EXCEPT ![q] = Recorded(@, verdict(o))]
<1>1. PICK o \in Answers[q] : \/ verdict(o) = "success" /\ Served(r, after(o))
                              \/ verdict(o) # "success" /\ End(r, after(o))
  BY DEF FallbackReturns
<1>2. q \in Providers /\ breaker \in [Providers -> Breaker] /\ Reports(breaker, breaker, {})
  BY NothingReported DEF GatewayInv, TypeOK, ServedInv, FallbackReturns
<1>3. /\ verdict(o) \in Verdicts
      /\ Healthy(q) => verdict(o) = "success"
  BY <1>2, VerdictOfProvider
<1>4. verdict(o) # "success" => Reports(breaker, after(o), {})
  BY <1>2, <1>3, RecordingReports
<1>5. pc[r] # "idle" /\ server[r] = q
  BY DEF FallbackReturns, GatewayInv, ServedInv
<1>6. CASE verdict(o) = "success" /\ Served(r, after(o))
  BY <1>2, <1>5, <1>6, SuccessKeeps
<1> HIDE DEF q, verdict, after
<1> QED
  BY <1>1, <1>4, <1>6, EndKeeps, ClosesNone

LEMMA StreamBreaksKeeps ==
  ASSUME GatewayInv, NEW r \in Requests, StreamBreaks(r)
  PROVE  GatewayInv' /\ BrokenStep
<1> DEFINE blamed == IF Mode[r] = "messages" THEN Primary[r] ELSE server[r]
<1>1. pc[r] = "streaming" /\ "lost" \in Answers[server[r]]
  BY DEF StreamBreaks
<1>2. server[r] \in Providers /\ Primary[r] \in Providers
  BY <1>1, GatewayAssumption DEF GatewayInv, ServedInv
<1>3. ~Healthy(server[r])
  BY <1>1 DEF Healthy
<1>4. ~Healthy(Primary[r])
  BY <1>1, <1>3 DEF GatewayInv, ServedInv
<1>5. blamed \in Providers /\ ~Healthy(blamed)
  BY <1>2, <1>3, <1>4
<1>6. breaker \in [Providers -> Breaker] /\ Reports(breaker, breaker, {})
  BY NothingReported DEF GatewayInv, TypeOK
<1>7. "failure" \in Verdicts
  BY DEF Verdicts
<1>8. End(r, [breaker EXCEPT ![blamed] = Recorded(@, "failure")])
  BY DEF StreamBreaks, Recorded
<1> HIDE DEF blamed
<1>9. Reports(breaker, [breaker EXCEPT ![blamed] = Recorded(@, "failure")], {})
  BY <1>5, <1>6, <1>7, RecordingReports
<1> QED
  BY <1>8, <1>9, EndKeeps, ClosesNone

(* The two steps of time change a field of one breaker each, and neither    *)
(* its state nor its probe slot.                                            *)
LEMMA TimeKeeps ==
  ASSUME GatewayInv, NEW q \in Providers, CooldownElapses(q) \/ FailureAges(q)
  PROVE  GatewayInv' /\ BrokenStep
<1>1. breaker \in [Providers -> Breaker]
  BY DEF GatewayInv, TypeOK
<1>2. PICK b : /\ breaker' = [breaker EXCEPT ![q] = b]
               /\ b \in Breaker
               /\ b.state = breaker[q].state
               /\ b.probe = breaker[q].probe
  <2>1. CASE CooldownElapses(q)
    <3>1. breaker' = [breaker EXCEPT ![q] = [breaker[q] EXCEPT !.cooled = TRUE]]
      BY <2>1, <1>1 DEF CooldownElapses
    <3>2. [breaker[q] EXCEPT !.cooled = TRUE] \in Breaker
      BY <1>1 DEF Breaker
    <3>3. [breaker[q] EXCEPT !.cooled = TRUE].state = breaker[q].state
      BY <1>1 DEF Breaker
    <3>4. [breaker[q] EXCEPT !.cooled = TRUE].probe = breaker[q].probe
      BY <1>1 DEF Breaker
    <3> QED
      BY <3>1, <3>2, <3>3, <3>4
  <2>2. CASE FailureAges(q)
    <3>1. breaker' = [breaker EXCEPT ![q] = [breaker[q] EXCEPT !.failures = @ - 1]]
      BY <2>2, <1>1 DEF FailureAges
    <3>2. breaker[q].failures - 1 \in 0..(Threshold - 1)
      BY <1>1, <2>2, CircuitBreakerAssumption DEF FailureAges, Breaker
    <3>3. [breaker[q] EXCEPT !.failures = @ - 1] \in Breaker
      BY <1>1, <3>2 DEF Breaker
    <3>4. [breaker[q] EXCEPT !.failures = @ - 1].state = breaker[q].state
      BY <1>1 DEF Breaker
    <3>5. [breaker[q] EXCEPT !.failures = @ - 1].probe = breaker[q].probe
      BY <1>1 DEF Breaker
    <3> QED
      BY <3>1, <3>3, <3>4, <3>5
  <2> QED
    BY <2>1, <2>2
<1>3. UNCHANGED <<pc, server, probing>>
  BY DEF CooldownElapses, FailureAges
<1>4. \A p \in Providers : /\ breaker'[p].state = breaker[p].state
                           /\ breaker'[p].probe = breaker[p].probe
  BY <1>1, <1>2
<1>5. TypeOK'
  BY <1>1, <1>2, <1>3 DEF GatewayInv, TypeOK
<1>6. OneProbe'
  BY <1>3, <1>4 DEF GatewayInv, OneProbe
<1>7. HealthyStaysClosed'
  BY <1>4 DEF GatewayInv, HealthyStaysClosed
<1>8. ServedInv'
  BY <1>3 DEF GatewayInv, ServedInv
<1>9. BrokenStep
  BY <1>4 DEF BrokenStep
<1> QED
  BY <1>5, <1>6, <1>7, <1>8, <1>9 DEF GatewayInv

(* Initially all circuits are closed and every slot is idle.                *)
LEMMA InitEstablishes == Init => GatewayInv
<1> SUFFICES ASSUME Init
             PROVE  GatewayInv
  OBVIOUS
<1>1. NewBreaker \in Breaker /\ NewBreaker.state = "Closed"
  BY CircuitBreakerAssumption DEF NewBreaker, Breaker
<1>2. TypeOK
  BY <1>1 DEF Init, TypeOK
<1>3. OneProbe /\ HealthyStaysClosed
  BY <1>1 DEF Init, OneProbe, HealthyStaysClosed
<1>4. ServedInv
  BY DEF Init, ServedInv
<1> QED
  BY <1>2, <1>3, <1>4 DEF GatewayInv

LEMMA NextKeeps ==
  ASSUME GatewayInv, Next
  PROVE  GatewayInv' /\ BrokenStep
<1>1. ASSUME NEW r \in Requests, Start(r) \/ Returns(r) \/ Disconnect(r)
      PROVE  GatewayInv' /\ BrokenStep
  <2>1. Reports(breaker, breaker, {})
    BY NothingReported DEF GatewayInv
  <2>2. CASE Start(r)
    BY <2>2, StartKeeps
  <2>3. CASE PrimaryReturns(r)
    BY <2>3, PrimaryReturnsKeeps
  <2>4. CASE FallbackReturns(r)
    BY <2>4, FallbackReturnsKeeps
  <2>5. CASE StreamEnds(r)
    BY <2>1, <2>5, EndKeeps, ClosesNone DEF StreamEnds
  <2>6. CASE StreamBreaks(r)
    BY <2>6, StreamBreaksKeeps
  <2>7. CASE Disconnect(r)
    BY <2>1, <2>7, EndKeeps, ClosesNone DEF Disconnect
  <2> QED
    BY <1>1, <2>2, <2>3, <2>4, <2>5, <2>6, <2>7 DEF Returns
<1> QED
  BY <1>1, TimeKeeps DEF Next

LEMMA StutterKeeps ==
  ASSUME GatewayInv, UNCHANGED vars
  PROVE  GatewayInv' /\ BrokenStep
<1>1. TypeOK'
  BY DEF GatewayInv, TypeOK, vars
<1>2. OneProbe'
  BY DEF GatewayInv, OneProbe, vars
<1>3. HealthyStaysClosed'
  BY DEF GatewayInv, HealthyStaysClosed, vars
<1>4. ServedInv'
  BY DEF GatewayInv, ServedInv, vars
<1> QED
  BY <1>1, <1>2, <1>3, <1>4 DEF GatewayInv, BrokenStep, vars

LEMMA GatewayInvHolds == Spec => []GatewayInv
<1>1. GatewayInv /\ [Next]_vars => GatewayInv'
  BY NextKeeps, StutterKeeps
<1> QED
  BY InitEstablishes, <1>1, PTL DEF Spec

-----------------------------------------------------------------------------
(* The results *)

(* Breakers, request slots and the history stay well formed, for any        *)
(* providers, aliases, answers and threshold: in particular the failures    *)
(* counted in the window of record_failure never reach the threshold.       *)
THEOREM GatewayTypeCorrect == Spec => []TypeOK
<1>1. GatewayInv => TypeOK
  BY DEF GatewayInv
<1> QED
  BY GatewayInvHolds, <1>1, PTL

(* A half-open circuit lets a single request through (should_allow), for    *)
(* any number of concurrent requests and late results.                      *)
THEOREM OneProbeCorrect == Spec => []OneProbe
<1>1. GatewayInv => OneProbe
  BY DEF GatewayInv
<1> QED
  BY GatewayInvHolds, <1>1, PTL

(* A provider whose calls all succeed keeps its circuit closed, whatever    *)
(* aliases and paths (chat.rs, messages.rs, embeddings.rs) it shares with   *)
(* providers that fail.                                                     *)
THEOREM HealthyStaysClosedCorrect == Spec => []HealthyStaysClosed
<1>1. GatewayInv => HealthyStaysClosed
  BY DEF GatewayInv
<1> QED
  BY GatewayInvHolds, <1>1, PTL

(* A provider that answers nothing but the errors circuit_breaker.rs counts *)
(* has its circuit closed only by a request whose path passes one of them   *)
(* through as a response (chat.rs's slot path, embeddings.rs), for any      *)
(* aliases, modes and concurrent requests.                                  *)
THEOREM BrokenStaysOpenCorrect == Spec => BrokenStaysOpen
<1>1. GatewayInv /\ [Next]_vars =>
        [\A p \in Providers :
           Answers[p] \subseteq ProviderErrors
             /\ breaker[p].state # "Closed" /\ breaker'[p].state = "Closed"
           => \E r \in Requests :
                /\ server[r] = p /\ server'[r] = None
                /\ PassedThrough(Mode[r]) \cap Answers[p] # {}]_vars
  BY NextKeeps, StutterKeeps DEF BrokenStep, Broken
<1> QED
  BY GatewayInvHolds, <1>1, PTL DEF Spec, BrokenStaysOpen
=============================================================================
