----------------------------- MODULE ModelGateway -----------------------------
(***************************************************************************)
(* Structured calls to the model provider: GeminiModelGateway.invoke and   *)
(* _invoke_route with their retries, repairs and fallback, over a response *)
(* cache on disk (ResponseCache).  Calls run in threads of one gateway     *)
(* (ainvoke starts one per call); the process can be killed and started    *)
(* again with another configuration, the cache stays.                      *)
(***************************************************************************)
EXTENDS Naturals

CONSTANTS
    Threads,        \* threads that can be inside a call
    Requests,       \* what the cache key is made of: prompt, schemas, inputs, route
    Premium,        \* the requests that resolve to the pro preview route
    Feedback,       \* what the validation of an artifact can find, as it is reported
    ProRetries,     \* provider_retries of the pro route, under the override
    FlashRetries,   \* provider_retries of the flash routes, under the override
    Repairs,        \* structured_repairs of a route, under the override
    MaxCalls,       \* bound on the number of calls
    None            \* absence of a request, a route, a record, a manifest

ASSUME ConstantsAssumption ==
    /\ Premium \subseteq Requests
    /\ ProRetries \in Nat /\ FlashRetries \in Nat /\ Repairs \in Nat /\ MaxCalls \in Nat
    /\ "base" \notin Feedback
    /\ None \notin {"pro", "flash"} \cup Requests \cup Threads

VARIABLES
    cached,     \* per request: the route that produced the cached response
    noted,      \* per request: the effective route its cache record names, if any
    allow,      \* allow_pro_fallback of the running gateway
    last,       \* the thread whose call last_manifest is about
    step,       \* per thread: where it is in invoke
    request,    \* per thread: the request of its call
    route,      \* per thread: the effective route
    prompt,     \* per thread: the prompt it sends next
    prompts,    \* per thread: the prompts it has sent on this route
    attempts,   \* per thread: attempts on this route
    retries,    \* per thread: provider_retries on this route
    repairs,    \* per thread: repairs on this route
    fallback,   \* per thread: is this the fallback route?
    made,       \* per thread: the route that produced the artifact it returned
    named,      \* per thread: the effective route its manifest names
    calls,      \* calls begun so far
    sent,       \* per thread: requests sent to the provider for its call
    rejected,   \* per thread: prompts whose answer was invalid on this route
    timedOut,   \* per thread: the caller of ainvoke no longer waits
    returned,   \* the thread that returned last, None once another call begins
    overlapped, \* have two calls run at the same time?
    torn,       \* has a fallback been interrupted while it wrote to the cache?
    allowed     \* has any gateway been configured to fall back?

cacheVars == <<cached, noted>>
loopVars == <<route, prompt, prompts, attempts, retries, repairs, fallback, rejected>>
callVars == <<sent, timedOut>>
resultVars == <<made, named, last, returned>>
history == <<overlapped, torn, allowed>>
vars == <<cacheVars, allow, step, request, loopVars, callVars, resultVars, calls, history>>

-----------------------------------------------------------------------------
Route == {"pro", "flash"}

Resolved(r) == IF r \in Premium THEN "pro" ELSE "flash"

RetryLimit(x) == IF x = "pro" THEN ProRetries ELSE FlashRetries

\* A corrective prompt is the base prompt with the feedback: it is known by that.
Prompt == {"base"} \cup Feedback

Init ==
    /\ last = None
    /\ returned = None
    /\ step = [t \in Threads |-> "idle"]
    /\ request = [t \in Threads |-> None]
    /\ route = [t \in Threads |-> "flash"]
    /\ prompt = [t \in Threads |-> "base"]
    /\ prompts = [t \in Threads |-> {}]
    /\ attempts = [t \in Threads |-> 0]
    /\ retries = [t \in Threads |-> 0]
    /\ repairs = [t \in Threads |-> 0]
    /\ fallback = [t \in Threads |-> FALSE]
    /\ rejected = [t \in Threads |-> {}]
    /\ made = [t \in Threads |-> None]
    /\ named = [t \in Threads |-> None]
    /\ sent = [t \in Threads |-> 0]
    /\ timedOut = [t \in Threads |-> FALSE]
    /\ cached = [r \in Requests |-> None]
    /\ noted = [r \in Requests |-> None]
    /\ allow \in BOOLEAN
    /\ calls = 0
    /\ overlapped = FALSE
    /\ torn = FALSE
    /\ allowed = allow

Goto(t, s) == step' = [step EXCEPT ![t] = s]

\* Mutant: the attempts of another route count on this one.
EnterRouteCounting(t, x, isFallback) ==
    /\ route' = [route EXCEPT ![t] = x]
    /\ prompt' = [prompt EXCEPT ![t] = "base"]
    /\ prompts' = [prompts EXCEPT ![t] = {}]
    /\ retries' = [retries EXCEPT ![t] = 0]
    /\ repairs' = [repairs EXCEPT ![t] = 0]
    /\ fallback' = [fallback EXCEPT ![t] = isFallback]
    /\ rejected' = [rejected EXCEPT ![t] = {}]
    /\ UNCHANGED attempts

\* _invoke_route starts with counters of its own.
EnterRoute(t, x, isFallback) ==
    /\ route' = [route EXCEPT ![t] = x]
    /\ prompt' = [prompt EXCEPT ![t] = "base"]
    /\ prompts' = [prompts EXCEPT ![t] = {}]
    /\ attempts' = [attempts EXCEPT ![t] = 0]
    /\ retries' = [retries EXCEPT ![t] = 0]
    /\ repairs' = [repairs EXCEPT ![t] = 0]
    /\ fallback' = [fallback EXCEPT ![t] = isFallback]
    /\ rejected' = [rejected EXCEPT ![t] = {}]

\* The locals of a call that ends are gone.
Leave(t) ==
    /\ Goto(t, "idle")
    /\ EnterRoute(t, "flash", FALSE)
    /\ sent' = [sent EXCEPT ![t] = 0]
    /\ timedOut' = [timedOut EXCEPT ![t] = FALSE]
    /\ UNCHANGED <<allow, request, calls, overlapped, allowed>>

\* The call returns an artifact made by one route and a manifest that names one.
ReturnArtifact(t, by, manifestRoute) ==
    /\ made' = [made EXCEPT ![t] = by]
    /\ named' = [named EXCEPT ![t] = manifestRoute]
    /\ last' = t
    /\ returned' = t
    /\ Leave(t)

\* The call raises; a failure of the provider is put on record first.
Raise(t, manifest) ==
    /\ last' = manifest
    /\ UNCHANGED <<made, named, returned>>
    /\ Leave(t)

-----------------------------------------------------------------------------
(* invoke, up to the provider.                                             *)

Begin(t, r, useCache) ==
    /\ step[t] = "idle"
    /\ calls < MaxCalls
    /\ calls' = calls + 1
    /\ request' = [request EXCEPT ![t] = r]
    /\ EnterRoute(t, Resolved(r), FALSE)
    /\ made' = [made EXCEPT ![t] = None]
    /\ named' = [named EXCEPT ![t] = None]
    /\ returned' = None
    /\ overlapped' = (overlapped \/ \E u \in Threads : step[u] # "idle")
    /\ Goto(t, IF useCache THEN "lookup" ELSE "send")
    /\ UNCHANGED <<cacheVars, allow, callVars, last, torn, allowed>>

\* The route a cache record names: the requested one unless it says otherwise.
NamedRoute(r) == IF noted[r] # None THEN noted[r] ELSE Resolved(r)

\* Mutant: a cache hit leaves the manifest of an earlier call.
CacheHitSilent(t) ==
    /\ step[t] = "lookup"
    /\ cached[request[t]] # None
    /\ made' = [made EXCEPT ![t] = cached[request[t]]]
    /\ named' = [named EXCEPT ![t] = NamedRoute(request[t])]
    /\ returned' = t
    /\ Leave(t)
    /\ UNCHANGED <<cacheVars, torn, last>>

\* Mutant: a cache hit names the route that was asked for.
CacheHitResolved(t) ==
    /\ step[t] = "lookup"
    /\ cached[request[t]] # None
    /\ ReturnArtifact(t, cached[request[t]], Resolved(request[t]))
    /\ UNCHANGED <<cacheVars, torn>>

CacheHit(t) ==
    /\ step[t] = "lookup"
    /\ cached[request[t]] # None
    /\ ReturnArtifact(t, cached[request[t]], NamedRoute(request[t]))
    /\ UNCHANGED <<cacheVars, torn>>

CacheMiss(t) ==
    /\ step[t] = "lookup"
    /\ cached[request[t]] = None
    /\ Goto(t, "send")
    /\ UNCHANGED <<cacheVars, allow, request, loopVars, callVars, resultVars, calls, history>>

-----------------------------------------------------------------------------
(* _invoke_route: one attempt is sent, and then judged.                    *)

Send(t) ==
    /\ step[t] = "send"
    /\ attempts' = [attempts EXCEPT ![t] = @ + 1]
    /\ prompts' = [prompts EXCEPT ![t] = @ \cup {prompt[t]}]
    /\ sent' = [sent EXCEPT ![t] = @ + 1]
    /\ Goto(t, "answer")
    /\ UNCHANGED <<cacheVars, allow, request, route, prompt, retries, repairs, fallback,
                   rejected, timedOut, resultVars, calls, history>>

\* The answer parses, is promoted, is valid and within its budget.
Accept(t) ==
    /\ step[t] = "answer"
    /\ Goto(t, "put")
    /\ UNCHANGED <<cacheVars, allow, request, loopVars, callVars, resultVars, calls, history>>

\* The next attempt on this route corrects the last one.
Correct(t, f) ==
    /\ rejected' = [rejected EXCEPT ![t] = @ \cup {prompt[t]}]
    /\ prompt' = [prompt EXCEPT ![t] = f]
    /\ repairs' = [repairs EXCEPT ![t] = @ + 1]
    /\ Goto(t, "send")
    /\ UNCHANGED <<cacheVars, allow, request, route, prompts, attempts, retries, fallback,
                   callVars, resultVars, calls, history>>

\* Mutant: a corrective prompt is sent again.
RepairAgain(t, f) ==
    /\ step[t] = "answer"
    /\ repairs[t] < Repairs
    /\ Correct(t, f)

\* Mutant: a repair gives the retries back.
RepairAfresh(t, f) ==
    /\ step[t] = "answer"
    /\ repairs[t] < Repairs
    /\ f \notin prompts[t]
    /\ rejected' = [rejected EXCEPT ![t] = @ \cup {prompt[t]}]
    /\ prompt' = [prompt EXCEPT ![t] = f]
    /\ repairs' = [repairs EXCEPT ![t] = @ + 1]
    /\ retries' = [retries EXCEPT ![t] = 0]
    /\ Goto(t, "send")
    /\ UNCHANGED <<cacheVars, allow, request, route, prompts, attempts, fallback,
                   callVars, resultVars, calls, history>>

\* The answer is no valid artifact, the next prompt says why.
Repair(t, f) ==
    /\ step[t] = "answer"
    /\ repairs[t] < Repairs
    /\ f \notin prompts[t]
    /\ Correct(t, f)

\* The repairs are used up, or the corrective prompt has been sent before.
RepairFails(t, f) ==
    /\ step[t] = "answer"
    /\ repairs[t] < Repairs => f \in prompts[t]
    /\ Raise(t, t)
    /\ UNCHANGED <<cacheVars, torn>>

\* A transient error: the same prompt once more, after a pause.
Retry(t) ==
    /\ step[t] = "answer"
    /\ retries[t] < RetryLimit(route[t])
    /\ retries' = [retries EXCEPT ![t] = @ + 1]
    /\ Goto(t, "send")
    /\ UNCHANGED <<cacheVars, allow, request, route, prompt, prompts, attempts, repairs,
                   fallback, rejected, callVars, resultVars, calls, history>>

\* A transient error too many, or one that is not transient: authentication,
\* safety, an invalid request, an exceeded budget.
ProviderFails(t) ==
    /\ step[t] = "answer"
    /\ Raise(t, t)
    /\ UNCHANGED <<cacheVars, torn>>

\* Mutant: a retired model is replaced whatever the configuration says.
FallBackAlways(t) ==
    /\ step[t] = "answer"
    /\ Resolved(request[t]) = "pro" /\ ~fallback[t]
    /\ EnterRoute(t, "flash", TRUE)
    /\ last' = t
    /\ Goto(t, "send")
    /\ UNCHANGED <<cacheVars, allow, request, callVars, made, named, returned, calls, history>>

\* Mutant: the route that takes over is the name of a stage, not resolved.
FallBackToStage(t) ==
    /\ step[t] = "answer"
    /\ allow
    /\ Resolved(request[t]) = "pro" /\ ~fallback[t]
    /\ EnterRoute(t, "audit", TRUE)
    /\ last' = t
    /\ Goto(t, "send")
    /\ UNCHANGED <<cacheVars, allow, request, callVars, made, named, returned, calls, history>>

\* The model is retired: its failure is put on record, then flash takes over, once.
FallBack(t) ==
    /\ step[t] = "answer"
    /\ allow
    /\ Resolved(request[t]) = "pro" /\ ~fallback[t]
    /\ EnterRoute(t, "flash", TRUE)
    /\ last' = t
    /\ Goto(t, "send")
    /\ UNCHANGED <<cacheVars, allow, request, callVars, made, named, returned, calls, history>>

\* The gateway cannot be configured, the attempt is interrupted, or the cached
\* response is no valid artifact: no manifest.
RaiseUnrecorded(t) ==
    /\ \/ step[t] = "answer"
       \/ step[t] = "lookup" /\ cached[request[t]] # None
    /\ Raise(t, last)
    /\ UNCHANGED <<cacheVars, torn>>

-----------------------------------------------------------------------------
(* The artifact goes to the cache, after a fallback twice.                 *)

Store(r, by, note) ==
    /\ cached' = [cached EXCEPT ![r] = by]
    /\ noted' = [noted EXCEPT ![r] = note]

\* The record of _invoke_route does not name a route.
Put(t) ==
    /\ step[t] = "put"
    /\ Store(request[t], route[t], None)
    /\ IF fallback[t]
       THEN /\ Goto(t, "put_evidence")
            /\ UNCHANGED <<allow, request, loopVars, callVars, resultVars, calls, history>>
       ELSE ReturnArtifact(t, route[t], route[t]) /\ UNCHANGED torn

\* Mutant: the second record is as silent as the first.
PutNoEvidence(t) ==
    /\ step[t] = "put_evidence"
    /\ Store(request[t], route[t], None)
    /\ ReturnArtifact(t, route[t], route[t])
    /\ UNCHANGED torn

\* invoke writes the record of a fallback again, with the route that was used.
PutEvidence(t) ==
    /\ step[t] = "put_evidence"
    /\ Store(request[t], route[t], route[t])
    /\ ReturnArtifact(t, route[t], route[t])
    /\ UNCHANGED torn

\* The write raises, before or after the record is in place.
PutFails(t) ==
    /\ step[t] \in {"put", "put_evidence"}
    /\ \/ UNCHANGED cacheVars
       \/ Store(request[t], route[t], IF step[t] = "put" THEN None ELSE route[t])
    /\ torn' = (torn \/ fallback[t])
    /\ Raise(t, last)

-----------------------------------------------------------------------------
(* Outside of the thread.                                                  *)

\* asyncio.timeout gives up on the thread, which goes on.
Timeout(t) ==
    /\ step[t] # "idle"
    /\ timedOut' = [timedOut EXCEPT ![t] = TRUE]
    /\ UNCHANGED <<cacheVars, allow, step, request, loopVars, sent, resultVars, calls, history>>

\* The process is killed; the next one may be configured differently.
Restart(a) ==
    /\ last' = None
    /\ returned' = None
    /\ step' = [t \in Threads |-> "idle"]
    /\ request' = [t \in Threads |-> None]
    /\ route' = [t \in Threads |-> "flash"]
    /\ prompt' = [t \in Threads |-> "base"]
    /\ prompts' = [t \in Threads |-> {}]
    /\ attempts' = [t \in Threads |-> 0]
    /\ retries' = [t \in Threads |-> 0]
    /\ repairs' = [t \in Threads |-> 0]
    /\ fallback' = [t \in Threads |-> FALSE]
    /\ rejected' = [t \in Threads |-> {}]
    /\ made' = [t \in Threads |-> None]
    /\ named' = [t \in Threads |-> None]
    /\ sent' = [t \in Threads |-> 0]
    /\ timedOut' = [t \in Threads |-> FALSE]
    /\ allow' = a
    /\ allowed' = (allowed \/ a)
    /\ torn' = (torn \/ \E t \in Threads : step[t] = "put_evidence")
    /\ UNCHANGED <<cacheVars, calls, overlapped>>

Answer(t) ==
    \/ Accept(t)
    \/ \E f \in Feedback : Repair(t, f) \/ RepairFails(t, f)
    \/ Retry(t)
    \/ FallBack(t)
    \/ ProviderFails(t)

\* What a thread does inside a call.
Proceeds(t) ==
    \/ CacheHit(t) \/ CacheMiss(t)
    \/ Send(t)
    \/ Answer(t)
    \/ RaiseUnrecorded(t)
    \/ Put(t) \/ PutEvidence(t) \/ PutFails(t)

Next ==
    \/ \E t \in Threads :
          \/ \E r \in Requests, useCache \in BOOLEAN : Begin(t, r, useCache)
          \/ Proceeds(t)
          \/ Timeout(t)
    \/ \E a \in BOOLEAN : Restart(a)

Spec == Init /\ [][Next]_vars

-----------------------------------------------------------------------------
(* Types.                                                                  *)

Step == {"idle", "lookup", "send", "answer", "put", "put_evidence"}

\* Every variable holds what the code stores in it; a thread inside a call has a
\* request and a route.
TypeOK ==
    /\ cached \in [Requests -> Route \cup {None}]
    /\ noted \in [Requests -> Route \cup {None}]
    /\ allow \in BOOLEAN
    /\ last \in Threads \cup {None}
    /\ step \in [Threads -> Step]
    /\ request \in [Threads -> Requests \cup {None}]
    /\ \A t \in Threads : step[t] # "idle" => request[t] \in Requests
    /\ route \in [Threads -> Route]
    /\ prompt \in [Threads -> Prompt]
    /\ prompts \in [Threads -> SUBSET Prompt]
    /\ attempts \in [Threads -> Nat]
    /\ retries \in [Threads -> Nat]
    /\ repairs \in [Threads -> Nat]
    /\ fallback \in [Threads -> BOOLEAN]
    /\ made \in [Threads -> Route \cup {None}]
    /\ named \in [Threads -> Route \cup {None}]
    /\ calls \in 0 .. MaxCalls
    /\ sent \in [Threads -> Nat]
    /\ rejected \in [Threads -> SUBSET Prompt]
    /\ timedOut \in [Threads -> BOOLEAN]
    /\ returned \in Threads \cup {None}
    /\ overlapped \in BOOLEAN
    /\ torn \in BOOLEAN
    /\ allowed \in BOOLEAN

-----------------------------------------------------------------------------
(* What a call costs.                                                      *)

\* The most attempts a route allows.
Limit(x) == 1 + RetryLimit(x) + Repairs

\* However transient errors, invalid answers and a retirement alternate, a call
\* sends no more than one request, its retries and its repairs, on each route:
\* it comes to an end whatever the provider answers.
BoundedProviderCalls ==
    \A t \in Threads :
        sent[t] <= (IF fallback[t] THEN Limit("pro") + Limit("flash")
                    ELSE Limit(route[t]))

\* A prompt whose answer was invalid is never sent again on the same route, also
\* when transient errors repeat the attempts in between.
RejectedPromptNotRepeated ==
    \A t \in Threads : step[t] = "send" => prompt[t] \notin rejected[t]

-----------------------------------------------------------------------------
(* What a call leaves behind.                                              *)

\* The cache names the route that made each response, so that a later hit reports
\* a fallback as one; the record is wrong only while the fallback that made it
\* is about to replace it, or if that one was interrupted there.
CacheNamesProducer ==
    \A r \in Requests : cached[r] # None /\ ~torn =>
        \/ NamedRoute(r) = cached[r]
        \/ \E t \in Threads : step[t] = "put_evidence" /\ request[t] = r

\* The manifest that comes with an artifact names the route that made it, also when
\* the artifact was cached by another process (tests/unit/llm/test_gateway.py:433,
\* "fallback_is_explicit_and_manifested").
ManifestNamesProducer ==
    ~overlapped /\ ~torn => \A t \in Threads : named[t] = made[t]

\* As long as no gateway that used the cache allowed it, what the pro route was
\* asked for was never made by another one (tests/unit/llm/test_gateway.py:420,
\* "fails_closed_without_explicit_fallback").
FailsClosed ==
    ~allowed => \A t \in Threads : made[t] # None => made[t] = Resolved(request[t])

\* Between calls that did not overlap, last_manifest is about the call that
\* returned last, which is how the runner reads it (runner.py:901).
LastManifestIsOwn == ~overlapped /\ returned # None => last = returned

-----------------------------------------------------------------------------
(* What the proofs need.                                                   *)

\* A thread inside a call is on the requested route or, after one fallback, on flash.
RouteInv ==
    \A t \in Threads :
        /\ step[t] # "idle" /\ ~fallback[t] => route[t] = Resolved(request[t])
        /\ fallback[t] => route[t] = "flash"
        /\ step[t] = "put_evidence" => fallback[t]

\* Each attempt but the first of a route is paid for by a retry or a repair.
CountInv ==
    \A t \in Threads :
        /\ retries[t] <= RetryLimit(route[t])
        /\ repairs[t] <= Repairs
        /\ attempts[t] <= retries[t] + repairs[t]
                             + (IF step[t] \in {"idle", "lookup", "send"} THEN 0 ELSE 1)
        /\ sent[t] <= attempts[t] + (IF fallback[t] THEN Limit("pro") ELSE 0)
        /\ step[t] = "idle" => sent[t] = 0

\* A rejected prompt was sent, and is neither under way nor the next one.
PromptInv ==
    \A t \in Threads :
        /\ rejected[t] \subseteq prompts[t]
        /\ step[t] = "lookup" => rejected[t] = {}
        /\ step[t] = "answer" => prompt[t] \in prompts[t]
        /\ step[t] \in {"send", "answer"} => prompt[t] \notin rejected[t]

\* Without a configuration that allows it nothing comes from another route.
ClosedInv ==
    /\ allow => allowed
    /\ ~allowed =>
          /\ \A t \in Threads : ~fallback[t]
          /\ \A r \in Requests : cached[r] \in {None, Resolved(r)}
          /\ FailsClosed

\* Calls that do not overlap: while one runs, none has returned since.
TurnsInv ==
    ~overlapped =>
        /\ \A t, u \in Threads : step[t] # "idle" /\ step[u] # "idle" => t = u
        /\ (\E t \in Threads : step[t] # "idle") => returned = None
        /\ LastManifestIsOwn
        /\ ManifestNamesProducer

\* The inductive invariant: what each thread has done so far, what the cache says of
\* its responses, and what last_manifest is about fit together after every step.
IInv ==
    /\ TypeOK
    /\ RouteInv
    /\ CountInv
    /\ PromptInv
    /\ CacheNamesProducer
    /\ ClosedInv
    /\ TurnsInv
=============================================================================
