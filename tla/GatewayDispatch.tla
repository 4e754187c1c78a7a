-------------------------- MODULE GatewayDispatch --------------------------
(***************************************************************************)
(* gradatum-gateway's dispatch of a request to the primary provider of its  *)
(* alias and then to its fallback, and what each path reports to the        *)
(* circuit breakers (handlers/chat.rs, messages.rs, embeddings.rs).  Calls  *)
(* to providers are awaited: other requests run meanwhile, and a client     *)
(* that disconnects drops its request's future wherever it is.              *)
(***************************************************************************)
EXTENDS CircuitBreaker

CONSTANTS
  Providers,
  Requests,    \* request slots; a slot serves one request after another
  Primary,     \* [Requests -> Providers], AliasTarget::provider
  Fallback,    \* [Requests -> Providers \cup {None}], fallback_provider
  Mode,        \* [Requests -> Modes], the path a request takes
  Answers,     \* [Providers -> SUBSET Outcomes], what a provider may answer
  Disconnects, \* whether clients disconnect
  None

Modes == {"chat",      \* chat.rs, JSON answer
          "slot",      \* chat.rs, slot pass-through (try_provider_with_slot);
                       \* its streams are forwarded without a report
          "stream",    \* chat.rs, SSE
          "messages",  \* messages.rs, SSE (dispatch_stream_with_fallback)
          "embed"}     \* embeddings.rs

(* What a provider answers: success, no answer (network, timeout), 5xx,    *)
(* 429, or an error of the request's own (another 4xx, decoding, ...).      *)
ProviderErrors == {"lost", "upstream", "limited"}
Outcomes == {"ok", "rejected"} \cup ProviderErrors

ASSUME GatewayAssumption ==
  /\ Primary \in [Requests -> Providers]
  /\ Fallback \in [Requests -> Providers \cup {None}]
  /\ None \notin Providers
  /\ Mode \in [Requests -> Modes]
  /\ Answers \in [Providers -> SUBSET Outcomes]
  /\ Disconnects \in BOOLEAN

VARIABLES
  breaker,   \* [Providers -> Breaker], CircuitBreakerRegistry
  pc,        \* [Requests -> {"idle", "primary", "fallback", "streaming"}]
  server,    \* [Requests -> Providers \cup {None}], the provider in use
  probing    \* history: [Providers -> SUBSET Requests], requests let through
             \* since the provider's breaker became HalfOpen

vars == <<breaker, pc, server, probing>>

TypeOK ==
  /\ breaker \in [Providers -> Breaker]
  /\ pc \in [Requests -> {"idle", "primary", "fallback", "streaming"}]
  /\ server \in [Requests -> Providers \cup {None}]
  /\ probing \in [Providers -> SUBSET Requests]

Init ==
  /\ breaker = [p \in Providers |-> NewBreaker]
  /\ pc = [r \in Requests |-> "idle"]
  /\ server = [r \in Requests |-> None]
  /\ probing = [p \in Providers |-> {}]

-----------------------------------------------------------------------------

(* The HTTP errors that a path hands to its client as an Ok response.      *)
PassedThrough(mode) ==
  CASE mode = "slot"              -> {"upstream", "limited", "rejected"}
    [] mode = "embed"             -> {"limited", "rejected"}
    [] mode \notin {"slot", "embed"} -> {}

(* Mutant: a 5xx is an answer like any other.                              *)
VerdictUpstreamOk(mode, outcome) ==
  IF outcome \in {"ok", "upstream"} THEN "success" ELSE "failure"

(* What a path makes of an answer: of the errors only those that           *)
(* counts_as_circuit_failure lists (ProviderErrors) reach the breaker.     *)
Verdict(mode, outcome) ==
  CASE outcome \in {"ok"} \cup PassedThrough(mode)           -> "success"
    [] outcome \in ProviderErrors \ PassedThrough(mode)      -> "failure"
    [] outcome \in {"rejected"} \ PassedThrough(mode)        -> "uncounted"

Recorded(b, verdict) ==
  CASE verdict = "success"   -> RecordSuccess(b)
    [] verdict = "failure"   -> RecordFailure(b)
    [] verdict = "uncounted" -> b

(* The request r goes to provider p: the breaker lets it through, and the  *)
(* call is awaited.  bs are the breakers as this step has left them so far. *)
CallProvider(r, p, stage, bs) ==
  /\ Allows(bs[p])
  /\ breaker' = [bs EXCEPT ![p] = ShouldAllow(@)]
  /\ pc' = [pc EXCEPT ![r] = stage]
  /\ server' = [server EXCEPT ![r] = p]
  /\ probing' = [probing EXCEPT ![p] =
                   IF ShouldAllow(bs[p]).state # "HalfOpen" THEN {}
                   ELSE IF bs[p].state = "HalfOpen" THEN @ \cup {r} ELSE {r}]

(* The request is over.                                                    *)
End(r, bs) ==
  /\ breaker' = bs
  /\ pc' = [pc EXCEPT ![r] = "idle"]
  /\ server' = [server EXCEPT ![r] = None]
  /\ UNCHANGED probing

(* The primary has failed and the breakers are bs: the fallback is tried.  *)
TryFallback(r, bs) ==
  /\ Fallback[r] # None
  /\ \/ CallProvider(r, Fallback[r], "fallback", bs)
     \/ /\ ~Allows(bs[Fallback[r]])
        /\ End(r, bs)

(* An image request whose primary failed is answered 503 and recorded no   *)
(* further (vision gate).                                                  *)
VisionGate(r, bs) ==
  /\ Mode[r] # "embed"
  /\ End(r, bs)

(* Without fallback the primary's error is returned, and the callers of    *)
(* dispatch_with_fallback, which has recorded it, record it once more;     *)
(* messages.rs does not.                                                   *)
NoFallback(r, verdict, bs) ==
  /\ Fallback[r] = None
  /\ End(r, IF Mode[r] = "messages" THEN bs
            ELSE [bs EXCEPT ![Primary[r]] = Recorded(@, verdict)])

PrimaryFailed(r, verdict, bs) ==
  TryFallback(r, bs) \/ VisionGate(r, bs) \/ NoFallback(r, verdict, bs)

-----------------------------------------------------------------------------

Start(r) ==
  LET p == Primary[r]
  IN /\ pc[r] = "idle"
     /\ \/ CallProvider(r, p, "primary", breaker)
        \/ /\ ~Allows(breaker[p])
           /\ PrimaryFailed(r, "uncounted", breaker)

(* A successful call ends the request, or begins to stream.                *)
Served(r, bs) ==
  IF Mode[r] \in {"stream", "messages"}
  THEN /\ breaker' = bs
       /\ pc' = [pc EXCEPT ![r] = "streaming"]
       /\ UNCHANGED <<server, probing>>
  ELSE End(r, bs)

(* Mutant: the primary's result is recorded against the fallback.          *)
PrimaryBlamesFallback(r) ==
  /\ pc[r] = "primary"
  /\ \E outcome \in Answers[Primary[r]] :
       LET verdict == Verdict(Mode[r], outcome)
           blamed == IF Fallback[r] = None THEN Primary[r] ELSE Fallback[r]
           bs == [breaker EXCEPT ![blamed] = Recorded(@, verdict)]
       IN \/ verdict = "success" /\ Served(r, bs)
          \/ verdict # "success" /\ PrimaryFailed(r, verdict, bs)
PrimaryReturns(r) ==
  /\ pc[r] = "primary"
  /\ \E outcome \in Answers[Primary[r]] :
       LET verdict == Verdict(Mode[r], outcome)
           bs == [breaker EXCEPT ![Primary[r]] = Recorded(@, verdict)]
       IN \/ verdict = "success" /\ Served(r, bs)
          \/ verdict # "success" /\ PrimaryFailed(r, verdict, bs)

(* Whatever the fallback answers is recorded against it.                   *)
FallbackReturns(r) ==
  /\ pc[r] = "fallback"
  /\ \E outcome \in Answers[Fallback[r]] :
       LET verdict == Verdict(Mode[r], outcome)
           bs == [breaker EXCEPT ![Fallback[r]] = Recorded(@, verdict)]
       IN IF verdict = "success" THEN Served(r, bs) ELSE End(r, bs)

(* The stream ends, or breaks with an error that is recorded: chat.rs      *)
(* against the provider that streams, messages.rs against the primary.     *)
StreamEnds(r) ==
  /\ pc[r] = "streaming"
  /\ End(r, breaker)

StreamBreaks(r) ==
  LET blamed == IF Mode[r] = "messages" THEN Primary[r] ELSE server[r]
  IN /\ pc[r] = "streaming"
     /\ "lost" \in Answers[server[r]]
     /\ End(r, [breaker EXCEPT ![blamed] = RecordFailure(@)])

(* The client disconnects: the future is dropped, nothing is recorded.     *)
Disconnect(r) ==
  /\ Disconnects
  /\ pc[r] \in {"primary", "fallback"}
  /\ End(r, breaker)

(* Time: the cooldown elapses, the oldest failure leaves the window.       *)
CooldownElapses(p) ==
  /\ breaker[p].state = "Open" /\ ~breaker[p].cooled
  /\ breaker' = [breaker EXCEPT ![p].cooled = TRUE]
  /\ UNCHANGED <<pc, server, probing>>

FailureAges(p) ==
  /\ breaker[p].failures > 0
  /\ breaker' = [breaker EXCEPT ![p].failures = @ - 1]
  /\ UNCHANGED <<pc, server, probing>>

Returns(r) == PrimaryReturns(r) \/ FallbackReturns(r) \/ StreamEnds(r) \/ StreamBreaks(r)

Next ==
  \/ \E r \in Requests : Start(r) \/ Returns(r) \/ Disconnect(r)
  \/ \E p \in Providers : CooldownElapses(p) \/ FailureAges(p)

Spec == Init /\ [][Next]_vars

(* Calls return (providers have timeouts), streams end, time passes, and    *)
(* requests keep coming.                                                    *)
Fairness ==
  /\ \A r \in Requests : WF_vars(Start(r)) /\ WF_vars(Returns(r))
  /\ \A p \in Providers : WF_vars(CooldownElapses(p))

FairSpec == Spec /\ Fairness

-----------------------------------------------------------------------------
(* However requests overlap, and with results of calls made before the      *)
(* circuit opened still coming in, a half-open circuit lets a single        *)
(* request through, and lets one through only if it will wait for it.       *)
OneProbe ==
  \A p \in Providers :
    breaker[p].state = "HalfOpen" =>
      /\ \A r, s \in probing[p] : r = s
      /\ breaker[p].probe <=> probing[p] # {}

(* Providers share requests through the aliases, never blame: a provider    *)
(* whose calls all succeed keeps its circuit closed, whatever its partners  *)
(* answer.                                                                  *)
HealthyStaysClosed ==
  \A p \in Providers : Answers[p] = {"ok"} => breaker[p].state = "Closed"

(* circuit_breaker.rs lists the provider-side errors that count as failures *)
(* (Network, Timeout, RateLimited, UpstreamError).  A provider that answers *)
(* nothing else has its circuit closed by no request of the chat, stream    *)
(* and messages paths, be it their primary, their fallback or a partner of  *)
(* theirs: only by one whose path passes such an error through as Ok, which *)
(* is what the slot path does with a 5xx or a 429 and embeddings with a 429.*)
BrokenStaysOpen ==
  [][\A p \in Providers :
       Answers[p] \subseteq ProviderErrors
         /\ breaker[p].state # "Closed" /\ breaker'[p].state = "Closed"
       => \E r \in Requests :
            /\ server[r] = p /\ server'[r] = None
            /\ PassedThrough(Mode[r]) \cap Answers[p] # {}]_vars

(* A broken stream of the fallback is charged to the primary (messages.rs). *)
Misblames(r, p) == StreamBreaks(r) /\ Primary[r] = p /\ server[r] # p

(* An open circuit is tried again: the failures of calls made before it     *)
(* opened restart its cooldown only so often.  Without bound it is          *)
(* restarted by one thing alone, the broken streams of fallbacks that       *)
(* messages.rs charges to a primary nobody calls.                           *)
OpenEnds ==
  \A p \in Providers :
    \/ []<>(breaker[p].state # "Open")
    \/ []<><<\E r \in Requests : Misblames(r, p)>>_vars
=============================================================================
