--------------------------- MODULE ModelGatewayProofs ---------------------------
(***************************************************************************)
(* Theorems about ModelGateway: its inductive invariant, and the safety    *)
(* properties that follow from it, for any number of threads and calls and *)
(* any limits.  One lemma per part of the invariant, one step per action.  *)
(***************************************************************************)
EXTENDS ModelGateway, TLAPS

\* Routes have limits that are numbers, and no route is None.
LEMMA RouteFacts ==
    /\ \A r \in Requests : Resolved(r) \in Route
    /\ \A x : RetryLimit(x) \in Nat /\ Limit(x) \in Nat
    /\ Repairs \in Nat /\ MaxCalls \in Nat
    /\ None \notin Route /\ None \notin Requests /\ None \notin Threads
  BY ConstantsAssumption DEF Resolved, Route, RetryLimit, Limit

\* Every step keeps the types.
LEMMA TypeStep ==
    ASSUME IInv, [Next]_vars
    PROVE  TypeOK'
  <1>1. ASSUME NEW t \in Threads, NEW r \in Requests, NEW c \in BOOLEAN, Begin(t, r, c)
        PROVE  TypeOK'
    BY <1>1, RouteFacts DEF Begin, EnterRoute, Goto, cacheVars, callVars, IInv,
       TypeOK, Step, Route, Prompt, NamedRoute
  <1>2. ASSUME NEW t \in Threads, CacheHit(t)
        PROVE  TypeOK'
    BY <1>2, RouteFacts DEF CacheHit, ReturnArtifact, Leave, EnterRoute, Goto,
       cacheVars, IInv, TypeOK, Step, Route, Prompt, NamedRoute
  <1>3. ASSUME NEW t \in Threads, CacheMiss(t)
        PROVE  TypeOK'
    BY <1>3, RouteFacts DEF CacheMiss, Goto, cacheVars, loopVars, callVars,
       resultVars, history, IInv, TypeOK, Step, Route, Prompt, NamedRoute
  <1>4. ASSUME NEW t \in Threads, Send(t)
        PROVE  TypeOK'
    BY <1>4, RouteFacts DEF Send, Goto, cacheVars, resultVars, history, IInv,
       TypeOK, Step, Route, Prompt, NamedRoute
  <1>5. ASSUME NEW t \in Threads, Accept(t)
        PROVE  TypeOK'
    BY <1>5, RouteFacts DEF Accept, Goto, cacheVars, loopVars, callVars, resultVars,
       history, IInv, TypeOK, Step, Route, Prompt, NamedRoute
  <1>6. ASSUME NEW t \in Threads, NEW f \in Feedback, Repair(t, f)
        PROVE  TypeOK'
    BY <1>6, RouteFacts DEF Repair, Correct, Goto, cacheVars, callVars, resultVars,
       history, IInv, TypeOK, Step, Route, Prompt, NamedRoute
  <1>7. ASSUME NEW t \in Threads, NEW f \in Feedback, RepairFails(t, f)
        PROVE  TypeOK'
    BY <1>7, RouteFacts DEF RepairFails, Raise, Leave, EnterRoute, Goto, cacheVars,
       IInv, TypeOK, Step, Route, Prompt, NamedRoute
  <1>8. ASSUME NEW t \in Threads, Retry(t)
        PROVE  TypeOK'
    BY <1>8, RouteFacts DEF Retry, Goto, cacheVars, callVars, resultVars, history,
       IInv, TypeOK, Step, Route, Prompt, NamedRoute
  <1>9. ASSUME NEW t \in Threads, FallBack(t)
        PROVE  TypeOK'
    BY <1>9, RouteFacts DEF FallBack, EnterRoute, Goto, cacheVars, callVars,
       history, IInv, TypeOK, Step, Route, Prompt, NamedRoute
  <1>10. ASSUME NEW t \in Threads, ProviderFails(t)
        PROVE  TypeOK'
    BY <1>10, RouteFacts DEF ProviderFails, Raise, Leave, EnterRoute, Goto,
       cacheVars, IInv, TypeOK, Step, Route, Prompt, NamedRoute
  <1>11. ASSUME NEW t \in Threads, RaiseUnrecorded(t)
        PROVE  TypeOK'
    BY <1>11, RouteFacts DEF RaiseUnrecorded, Raise, Leave, EnterRoute, Goto,
       cacheVars, IInv, TypeOK, Step, Route, Prompt, NamedRoute
  <1>12. ASSUME NEW t \in Threads, Put(t)
        PROVE  TypeOK'
    <2>1. CASE fallback[t]
      BY <1>12, <2>1, RouteFacts DEF Put, Store, ReturnArtifact, Leave, EnterRoute,
         Goto, loopVars, callVars, resultVars, history, IInv, TypeOK, Step, Route,
         Prompt, NamedRoute
    <2>2. CASE ~fallback[t]
      <3>1. step[t] = "put" /\ Store(request[t], route[t], None)
        BY <1>12 DEF Put
      <3>2. ReturnArtifact(t, route[t], route[t]) /\ UNCHANGED torn
        BY <1>12, <2>2 DEF Put
      <3>3. QED
        BY <2>2, <3>1, <3>2, RouteFacts DEF Store, ReturnArtifact, Leave,
           EnterRoute, Goto, IInv, TypeOK, Step, Route, Prompt, NamedRoute
    <2>3. QED
      BY <2>1, <2>2
  <1>13. ASSUME NEW t \in Threads, PutEvidence(t)
        PROVE  TypeOK'
    BY <1>13, RouteFacts DEF PutEvidence, Store, ReturnArtifact, Leave, EnterRoute,
       Goto, IInv, TypeOK, Step, Route, Prompt, NamedRoute
  <1>14. ASSUME NEW t \in Threads, PutFails(t)
        PROVE  TypeOK'
    BY <1>14, RouteFacts DEF PutFails, Store, Raise, Leave, EnterRoute, Goto,
       cacheVars, IInv, TypeOK, Step, Route, Prompt, NamedRoute
  <1>15. ASSUME NEW t \in Threads, Timeout(t)
        PROVE  TypeOK'
    BY <1>15, RouteFacts DEF Timeout, cacheVars, loopVars, resultVars, history,
       IInv, TypeOK, Step, Route, Prompt, NamedRoute
  <1>16. ASSUME NEW a \in BOOLEAN, Restart(a)
        PROVE  TypeOK'
    BY <1>16, RouteFacts DEF Restart, cacheVars, IInv, TypeOK, Step, Route, Prompt,
       NamedRoute
  <1>17. ASSUME UNCHANGED vars
        PROVE  TypeOK'
    BY <1>17, RouteFacts DEF vars, cacheVars, loopVars, callVars, resultVars,
       history, IInv, TypeOK, Step, Route, Prompt, NamedRoute
  <1>18. QED
    BY <1>1, <1>2, <1>3, <1>4, <1>5, <1>6, <1>7, <1>8, <1>9, <1>10, <1>11, <1>12,
       <1>13, <1>14, <1>15, <1>16, <1>17 DEF Next, Proceeds, Answer

\* A call changes its route only for flash, once.
LEMMA RouteStep ==
    ASSUME IInv, [Next]_vars
    PROVE  RouteInv'
  <1>1. ASSUME NEW t \in Threads, NEW r \in Requests, NEW c \in BOOLEAN, Begin(t, r, c)
        PROVE  RouteInv'
    BY <1>1, RouteFacts DEF Begin, EnterRoute, Goto, cacheVars, callVars, IInv,
       TypeOK, Step, Route, RouteInv
  <1>2. ASSUME NEW t \in Threads, CacheHit(t)
        PROVE  RouteInv'
    BY <1>2, RouteFacts DEF CacheHit, ReturnArtifact, Leave, EnterRoute, Goto,
       cacheVars, IInv, TypeOK, Step, Route, RouteInv
  <1>3. ASSUME NEW t \in Threads, CacheMiss(t)
        PROVE  RouteInv'
    BY <1>3, RouteFacts DEF CacheMiss, Goto, cacheVars, loopVars, callVars,
       resultVars, history, IInv, TypeOK, Step, Route, RouteInv
  <1>4. ASSUME NEW t \in Threads, Send(t)
        PROVE  RouteInv'
    BY <1>4, RouteFacts DEF Send, Goto, cacheVars, resultVars, history, IInv,
       TypeOK, Step, Route, RouteInv
  <1>5. ASSUME NEW t \in Threads, Accept(t)
        PROVE  RouteInv'
    BY <1>5, RouteFacts DEF Accept, Goto, cacheVars, loopVars, callVars, resultVars,
       history, IInv, TypeOK, Step, Route, RouteInv
  <1>6. ASSUME NEW t \in Threads, NEW f \in Feedback, Repair(t, f)
        PROVE  RouteInv'
    BY <1>6, RouteFacts DEF Repair, Correct, Goto, cacheVars, callVars, resultVars,
       history, IInv, TypeOK, Step, Route, RouteInv
  <1>7. ASSUME NEW t \in Threads, NEW f \in Feedback, RepairFails(t, f)
        PROVE  RouteInv'
    BY <1>7, RouteFacts DEF RepairFails, Raise, Leave, EnterRoute, Goto, cacheVars,
       IInv, TypeOK, Step, Route, RouteInv
  <1>8. ASSUME NEW t \in Threads, Retry(t)
        PROVE  RouteInv'
    BY <1>8, RouteFacts DEF Retry, Goto, cacheVars, callVars, resultVars, history,
       IInv, TypeOK, Step, Route, RouteInv
  <1>9. ASSUME NEW t \in Threads, FallBack(t)
        PROVE  RouteInv'
    BY <1>9, RouteFacts DEF FallBack, EnterRoute, Goto, cacheVars, callVars,
       history, IInv, TypeOK, Step, Route, RouteInv
  <1>10. ASSUME NEW t \in Threads, ProviderFails(t)
        PROVE  RouteInv'
    BY <1>10, RouteFacts DEF ProviderFails, Raise, Leave, EnterRoute, Goto,
       cacheVars, IInv, TypeOK, Step, Route, RouteInv
  <1>11. ASSUME NEW t \in Threads, RaiseUnrecorded(t)
        PROVE  RouteInv'
    BY <1>11, RouteFacts DEF RaiseUnrecorded, Raise, Leave, EnterRoute, Goto,
       cacheVars, IInv, TypeOK, Step, Route, RouteInv
  <1>12. ASSUME NEW t \in Threads, Put(t)
        PROVE  RouteInv'
    BY <1>12, RouteFacts DEF Put, Store, ReturnArtifact, Leave, EnterRoute, Goto,
       loopVars, callVars, resultVars, history, IInv, TypeOK, Step, Route, RouteInv
  <1>13. ASSUME NEW t \in Threads, PutEvidence(t)
        PROVE  RouteInv'
    BY <1>13, RouteFacts DEF PutEvidence, Store, ReturnArtifact, Leave, EnterRoute,
       Goto, IInv, TypeOK, Step, Route, RouteInv
  <1>14. ASSUME NEW t \in Threads, PutFails(t)
        PROVE  RouteInv'
    BY <1>14, RouteFacts DEF PutFails, Store, Raise, Leave, EnterRoute, Goto,
       cacheVars, IInv, TypeOK, Step, Route, RouteInv
  <1>15. ASSUME NEW t \in Threads, Timeout(t)
        PROVE  RouteInv'
    BY <1>15, RouteFacts DEF Timeout, cacheVars, loopVars, resultVars, history,
       IInv, TypeOK, Step, Route, RouteInv
  <1>16. ASSUME NEW a \in BOOLEAN, Restart(a)
        PROVE  RouteInv'
    BY <1>16, RouteFacts DEF Restart, cacheVars, IInv, TypeOK, Step, Route, RouteInv
  <1>17. ASSUME UNCHANGED vars
        PROVE  RouteInv'
    BY <1>17, RouteFacts DEF vars, cacheVars, loopVars, callVars, resultVars,
       history, IInv, TypeOK, Step, Route, RouteInv
  <1>18. QED
    BY <1>1, <1>2, <1>3, <1>4, <1>5, <1>6, <1>7, <1>8, <1>9, <1>10, <1>11, <1>12,
       <1>13, <1>14, <1>15, <1>16, <1>17 DEF Next, Proceeds, Answer

\* Retries and repairs pay for the attempts.
LEMMA CountStep ==
    ASSUME IInv, [Next]_vars
    PROVE  CountInv'
  <1>1. ASSUME NEW t \in Threads, NEW r \in Requests, NEW c \in BOOLEAN, Begin(t, r, c)
        PROVE  CountInv'
    BY <1>1, RouteFacts DEF Begin, EnterRoute, Goto, cacheVars, callVars, IInv,
       TypeOK, Step, Route, RouteInv, CountInv, Limit
  <1>2. ASSUME NEW t \in Threads, CacheHit(t)
        PROVE  CountInv'
    BY <1>2, RouteFacts DEF CacheHit, ReturnArtifact, Leave, EnterRoute, Goto,
       cacheVars, IInv, TypeOK, Step, Route, RouteInv, CountInv, Limit
  <1>3. ASSUME NEW t \in Threads, CacheMiss(t)
        PROVE  CountInv'
    BY <1>3, RouteFacts DEF CacheMiss, Goto, cacheVars, loopVars, callVars,
       resultVars, history, IInv, TypeOK, Step, Route, RouteInv, CountInv, Limit
  <1>4. ASSUME NEW t \in Threads, Send(t)
        PROVE  CountInv'
    BY <1>4, RouteFacts DEF Send, Goto, cacheVars, resultVars, history, IInv,
       TypeOK, Step, Route, RouteInv, CountInv, Limit
  <1>5. ASSUME NEW t \in Threads, Accept(t)
        PROVE  CountInv'
    BY <1>5, RouteFacts DEF Accept, Goto, cacheVars, loopVars, callVars, resultVars,
       history, IInv, TypeOK, Step, Route, RouteInv, CountInv, Limit
  <1>6. ASSUME NEW t \in Threads, NEW f \in Feedback, Repair(t, f)
        PROVE  CountInv'
    BY <1>6, RouteFacts DEF Repair, Correct, Goto, cacheVars, callVars, resultVars,
       history, IInv, TypeOK, Step, Route, RouteInv, CountInv, Limit
  <1>7. ASSUME NEW t \in Threads, NEW f \in Feedback, RepairFails(t, f)
        PROVE  CountInv'
    BY <1>7, RouteFacts DEF RepairFails, Raise, Leave, EnterRoute, Goto, cacheVars,
       IInv, TypeOK, Step, Route, RouteInv, CountInv, Limit
  <1>8. ASSUME NEW t \in Threads, Retry(t)
        PROVE  CountInv'
    BY <1>8, RouteFacts DEF Retry, Goto, cacheVars, callVars, resultVars, history,
       IInv, TypeOK, Step, Route, RouteInv, CountInv, Limit
  <1>9. ASSUME NEW t \in Threads, FallBack(t)
        PROVE  CountInv'
    BY <1>9, RouteFacts DEF FallBack, EnterRoute, Goto, cacheVars, callVars,
       history, IInv, TypeOK, Step, Route, RouteInv, CountInv, Limit
  <1>10. ASSUME NEW t \in Threads, ProviderFails(t)
        PROVE  CountInv'
    BY <1>10, RouteFacts DEF ProviderFails, Raise, Leave, EnterRoute, Goto,
       cacheVars, IInv, TypeOK, Step, Route, RouteInv, CountInv, Limit
  <1>11. ASSUME NEW t \in Threads, RaiseUnrecorded(t)
        PROVE  CountInv'
    BY <1>11, RouteFacts DEF RaiseUnrecorded, Raise, Leave, EnterRoute, Goto,
       cacheVars, IInv, TypeOK, Step, Route, RouteInv, CountInv, Limit
  <1>12. ASSUME NEW t \in Threads, Put(t)
        PROVE  CountInv'
    <2>1. CASE fallback[t]
      BY <1>12, <2>1, RouteFacts DEF Put, Store, ReturnArtifact, Leave, EnterRoute,
         Goto, loopVars, callVars, resultVars, history, IInv, TypeOK, Step, Route,
         RouteInv, CountInv, Limit
    <2>2. CASE ~fallback[t]
      <3>1. step[t] = "put" /\ Store(request[t], route[t], None)
        BY <1>12 DEF Put
      <3>2. ReturnArtifact(t, route[t], route[t]) /\ UNCHANGED torn
        BY <1>12, <2>2 DEF Put
      <3>3. QED
        BY <2>2, <3>1, <3>2, RouteFacts DEF Store, ReturnArtifact, Leave,
           EnterRoute, Goto, IInv, TypeOK, Step, Route, RouteInv, CountInv, Limit
    <2>3. QED
      BY <2>1, <2>2
  <1>13. ASSUME NEW t \in Threads, PutEvidence(t)
        PROVE  CountInv'
    BY <1>13, RouteFacts DEF PutEvidence, Store, ReturnArtifact, Leave, EnterRoute,
       Goto, IInv, TypeOK, Step, Route, RouteInv, CountInv, Limit
  <1>14. ASSUME NEW t \in Threads, PutFails(t)
        PROVE  CountInv'
    BY <1>14, RouteFacts DEF PutFails, Store, Raise, Leave, EnterRoute, Goto,
       cacheVars, IInv, TypeOK, Step, Route, RouteInv, CountInv, Limit
  <1>15. ASSUME NEW t \in Threads, Timeout(t)
        PROVE  CountInv'
    BY <1>15, RouteFacts DEF Timeout, cacheVars, loopVars, resultVars, history,
       IInv, TypeOK, Step, Route, RouteInv, CountInv, Limit
  <1>16. ASSUME NEW a \in BOOLEAN, Restart(a)
        PROVE  CountInv'
    BY <1>16, RouteFacts DEF Restart, cacheVars, IInv, TypeOK, Step, Route,
       RouteInv, CountInv, Limit
  <1>17. ASSUME UNCHANGED vars
        PROVE  CountInv'
    BY <1>17, RouteFacts DEF vars, cacheVars, loopVars, callVars, resultVars,
       history, IInv, TypeOK, Step, Route, RouteInv, CountInv, Limit
  <1>18. QED
    BY <1>1, <1>2, <1>3, <1>4, <1>5, <1>6, <1>7, <1>8, <1>9, <1>10, <1>11, <1>12,
       <1>13, <1>14, <1>15, <1>16, <1>17 DEF Next, Proceeds, Answer

\* What was rejected stays behind.
LEMMA PromptStep ==
    ASSUME IInv, [Next]_vars
    PROVE  PromptInv'
  <1>1. ASSUME NEW t \in Threads, NEW r \in Requests, NEW c \in BOOLEAN, Begin(t, r, c)
        PROVE  PromptInv'
    BY <1>1, RouteFacts DEF Begin, EnterRoute, Goto, cacheVars, callVars, IInv,
       TypeOK, Step, PromptInv
  <1>2. ASSUME NEW t \in Threads, CacheHit(t)
        PROVE  PromptInv'
    BY <1>2, RouteFacts DEF CacheHit, ReturnArtifact, Leave, EnterRoute, Goto,
       cacheVars, IInv, TypeOK, Step, PromptInv
  <1>3. ASSUME NEW t \in Threads, CacheMiss(t)
        PROVE  PromptInv'
    BY <1>3, RouteFacts DEF CacheMiss, Goto, cacheVars, loopVars, callVars,
       resultVars, history, IInv, TypeOK, Step, PromptInv
  <1>4. ASSUME NEW t \in Threads, Send(t)
        PROVE  PromptInv'
    BY <1>4, RouteFacts DEF Send, Goto, cacheVars, resultVars, history, IInv,
       TypeOK, Step, PromptInv
  <1>5. ASSUME NEW t \in Threads, Accept(t)
        PROVE  PromptInv'
    BY <1>5, RouteFacts DEF Accept, Goto, cacheVars, loopVars, callVars, resultVars,
       history, IInv, TypeOK, Step, PromptInv
  <1>6. ASSUME NEW t \in Threads, NEW f \in Feedback, Repair(t, f)
        PROVE  PromptInv'
    BY <1>6, RouteFacts DEF Repair, Correct, Goto, cacheVars, callVars, resultVars,
       history, IInv, TypeOK, Step, PromptInv
  <1>7. ASSUME NEW t \in Threads, NEW f \in Feedback, RepairFails(t, f)
        PROVE  PromptInv'
    BY <1>7, RouteFacts DEF RepairFails, Raise, Leave, EnterRoute, Goto, cacheVars,
       IInv, TypeOK, Step, PromptInv
  <1>8. ASSUME NEW t \in Threads, Retry(t)
        PROVE  PromptInv'
    BY <1>8, RouteFacts DEF Retry, Goto, cacheVars, callVars, resultVars, history,
       IInv, TypeOK, Step, PromptInv
  <1>9. ASSUME NEW t \in Threads, FallBack(t)
        PROVE  PromptInv'
    BY <1>9, RouteFacts DEF FallBack, EnterRoute, Goto, cacheVars, callVars,
       history, IInv, TypeOK, Step, PromptInv
  <1>10. ASSUME NEW t \in Threads, ProviderFails(t)
        PROVE  PromptInv'
    BY <1>10, RouteFacts DEF ProviderFails, Raise, Leave, EnterRoute, Goto,
       cacheVars, IInv, TypeOK, Step, PromptInv
  <1>11. ASSUME NEW t \in Threads, RaiseUnrecorded(t)
        PROVE  PromptInv'
    BY <1>11, RouteFacts DEF RaiseUnrecorded, Raise, Leave, EnterRoute, Goto,
       cacheVars, IInv, TypeOK, Step, PromptInv
  <1>12. ASSUME NEW t \in Threads, Put(t)
        PROVE  PromptInv'
    BY <1>12, RouteFacts DEF Put, Store, ReturnArtifact, Leave, EnterRoute, Goto,
       loopVars, callVars, resultVars, history, IInv, TypeOK, Step, PromptInv
  <1>13. ASSUME NEW t \in Threads, PutEvidence(t)
        PROVE  PromptInv'
    BY <1>13, RouteFacts DEF PutEvidence, Store, ReturnArtifact, Leave, EnterRoute,
       Goto, IInv, TypeOK, Step, PromptInv
  <1>14. ASSUME NEW t \in Threads, PutFails(t)
        PROVE  PromptInv'
    BY <1>14, RouteFacts DEF PutFails, Store, Raise, Leave, EnterRoute, Goto,
       cacheVars, IInv, TypeOK, Step, PromptInv
  <1>15. ASSUME NEW t \in Threads, Timeout(t)
        PROVE  PromptInv'
    BY <1>15, RouteFacts DEF Timeout, cacheVars, loopVars, resultVars, history,
       IInv, TypeOK, Step, PromptInv
  <1>16. ASSUME NEW a \in BOOLEAN, Restart(a)
        PROVE  PromptInv'
    BY <1>16, RouteFacts DEF Restart, cacheVars, IInv, TypeOK, Step, PromptInv
  <1>17. ASSUME UNCHANGED vars
        PROVE  PromptInv'
    BY <1>17, RouteFacts DEF vars, cacheVars, loopVars, callVars, resultVars,
       history, IInv, TypeOK, Step, PromptInv
  <1>18. QED
    BY <1>1, <1>2, <1>3, <1>4, <1>5, <1>6, <1>7, <1>8, <1>9, <1>10, <1>11, <1>12,
       <1>13, <1>14, <1>15, <1>16, <1>17 DEF Next, Proceeds, Answer

\* A record that does not name its route is about to be replaced.
LEMMA CacheStep ==
    ASSUME IInv, [Next]_vars
    PROVE  CacheNamesProducer'
  <1>1. ASSUME NEW t \in Threads, NEW r \in Requests, NEW c \in BOOLEAN, Begin(t, r, c)
        PROVE  CacheNamesProducer'
    BY <1>1, RouteFacts DEF Begin, EnterRoute, Goto, cacheVars, callVars, IInv,
       TypeOK, Step, Route, RouteInv, CacheNamesProducer, NamedRoute
  <1>2. ASSUME NEW t \in Threads, CacheHit(t)
        PROVE  CacheNamesProducer'
    BY <1>2, RouteFacts DEF CacheHit, ReturnArtifact, Leave, EnterRoute, Goto,
       cacheVars, IInv, TypeOK, Step, Route, RouteInv, CacheNamesProducer,
       NamedRoute
  <1>3. ASSUME NEW t \in Threads, CacheMiss(t)
        PROVE  CacheNamesProducer'
    BY <1>3, RouteFacts DEF CacheMiss, Goto, cacheVars, loopVars, callVars,
       resultVars, history, IInv, TypeOK, Step, Route, RouteInv, CacheNamesProducer,
       NamedRoute
  <1>4. ASSUME NEW t \in Threads, Send(t)
        PROVE  CacheNamesProducer'
    BY <1>4, RouteFacts DEF Send, Goto, cacheVars, resultVars, history, IInv,
       TypeOK, Step, Route, RouteInv, CacheNamesProducer, NamedRoute
  <1>5. ASSUME NEW t \in Threads, Accept(t)
        PROVE  CacheNamesProducer'
    BY <1>5, RouteFacts DEF Accept, Goto, cacheVars, loopVars, callVars, resultVars,
       history, IInv, TypeOK, Step, Route, RouteInv, CacheNamesProducer, NamedRoute
  <1>6. ASSUME NEW t \in Threads, NEW f \in Feedback, Repair(t, f)
        PROVE  CacheNamesProducer'
    BY <1>6, RouteFacts DEF Repair, Correct, Goto, cacheVars, callVars, resultVars,
       history, IInv, TypeOK, Step, Route, RouteInv, CacheNamesProducer, NamedRoute
  <1>7. ASSUME NEW t \in Threads, NEW f \in Feedback, RepairFails(t, f)
        PROVE  CacheNamesProducer'
    BY <1>7, RouteFacts DEF RepairFails, Raise, Leave, EnterRoute, Goto, cacheVars,
       IInv, TypeOK, Step, Route, RouteInv, CacheNamesProducer, NamedRoute
  <1>8. ASSUME NEW t \in Threads, Retry(t)
        PROVE  CacheNamesProducer'
    BY <1>8, RouteFacts DEF Retry, Goto, cacheVars, callVars, resultVars, history,
       IInv, TypeOK, Step, Route, RouteInv, CacheNamesProducer, NamedRoute
  <1>9. ASSUME NEW t \in Threads, FallBack(t)
        PROVE  CacheNamesProducer'
    BY <1>9, RouteFacts DEF FallBack, EnterRoute, Goto, cacheVars, callVars,
       history, IInv, TypeOK, Step, Route, RouteInv, CacheNamesProducer, NamedRoute
  <1>10. ASSUME NEW t \in Threads, ProviderFails(t)
        PROVE  CacheNamesProducer'
    BY <1>10, RouteFacts DEF ProviderFails, Raise, Leave, EnterRoute, Goto,
       cacheVars, IInv, TypeOK, Step, Route, RouteInv, CacheNamesProducer,
       NamedRoute
  <1>11. ASSUME NEW t \in Threads, RaiseUnrecorded(t)
        PROVE  CacheNamesProducer'
    BY <1>11, RouteFacts DEF RaiseUnrecorded, Raise, Leave, EnterRoute, Goto,
       cacheVars, IInv, TypeOK, Step, Route, RouteInv, CacheNamesProducer,
       NamedRoute
  <1>12. ASSUME NEW t \in Threads, Put(t)
        PROVE  CacheNamesProducer'
    BY <1>12, RouteFacts DEF Put, Store, ReturnArtifact, Leave, EnterRoute, Goto,
       loopVars, callVars, resultVars, history, IInv, TypeOK, Step, Route, RouteInv,
       CacheNamesProducer, NamedRoute
  <1>13. ASSUME NEW t \in Threads, PutEvidence(t)
        PROVE  CacheNamesProducer'
    BY <1>13, RouteFacts DEF PutEvidence, Store, ReturnArtifact, Leave, EnterRoute,
       Goto, IInv, TypeOK, Step, Route, RouteInv, CacheNamesProducer, NamedRoute
  <1>14. ASSUME NEW t \in Threads, PutFails(t)
        PROVE  CacheNamesProducer'
    BY <1>14, RouteFacts DEF PutFails, Store, Raise, Leave, EnterRoute, Goto,
       cacheVars, IInv, TypeOK, Step, Route, RouteInv, CacheNamesProducer,
       NamedRoute
  <1>15. ASSUME NEW t \in Threads, Timeout(t)
        PROVE  CacheNamesProducer'
    BY <1>15, RouteFacts DEF Timeout, cacheVars, loopVars, resultVars, history,
       IInv, TypeOK, Step, Route, RouteInv, CacheNamesProducer, NamedRoute
  <1>16. ASSUME NEW a \in BOOLEAN, Restart(a)
        PROVE  CacheNamesProducer'
    BY <1>16, RouteFacts DEF Restart, cacheVars, IInv, TypeOK, Step, Route,
       RouteInv, CacheNamesProducer, NamedRoute
  <1>17. ASSUME UNCHANGED vars
        PROVE  CacheNamesProducer'
    BY <1>17, RouteFacts DEF vars, cacheVars, loopVars, callVars, resultVars,
       history, IInv, TypeOK, Step, Route, RouteInv, CacheNamesProducer, NamedRoute
  <1>18. QED
    BY <1>1, <1>2, <1>3, <1>4, <1>5, <1>6, <1>7, <1>8, <1>9, <1>10, <1>11, <1>12,
       <1>13, <1>14, <1>15, <1>16, <1>17 DEF Next, Proceeds, Answer

\* Nobody falls back unless some configuration allows it.
LEMMA ClosedStep ==
    ASSUME IInv, [Next]_vars
    PROVE  ClosedInv'
  <1>1. ASSUME NEW t \in Threads, NEW r \in Requests, NEW c \in BOOLEAN, Begin(t, r, c)
        PROVE  ClosedInv'
    BY <1>1, RouteFacts DEF Begin, EnterRoute, Goto, cacheVars, callVars, IInv,
       TypeOK, Step, RouteInv, ClosedInv, FailsClosed
  <1>2. ASSUME NEW t \in Threads, CacheHit(t)
        PROVE  ClosedInv'
    BY <1>2, RouteFacts DEF CacheHit, ReturnArtifact, Leave, EnterRoute, Goto,
       cacheVars, IInv, TypeOK, Step, RouteInv, ClosedInv, FailsClosed
  <1>3. ASSUME NEW t \in Threads, CacheMiss(t)
        PROVE  ClosedInv'
    BY <1>3, RouteFacts DEF CacheMiss, Goto, cacheVars, loopVars, callVars,
       resultVars, history, IInv, TypeOK, Step, RouteInv, ClosedInv, FailsClosed
  <1>4. ASSUME NEW t \in Threads, Send(t)
        PROVE  ClosedInv'
    BY <1>4, RouteFacts DEF Send, Goto, cacheVars, resultVars, history, IInv,
       TypeOK, Step, RouteInv, ClosedInv, FailsClosed
  <1>5. ASSUME NEW t \in Threads, Accept(t)
        PROVE  ClosedInv'
    BY <1>5, RouteFacts DEF Accept, Goto, cacheVars, loopVars, callVars, resultVars,
       history, IInv, TypeOK, Step, RouteInv, ClosedInv, FailsClosed
  <1>6. ASSUME NEW t \in Threads, NEW f \in Feedback, Repair(t, f)
        PROVE  ClosedInv'
    BY <1>6, RouteFacts DEF Repair, Correct, Goto, cacheVars, callVars, resultVars,
       history, IInv, TypeOK, Step, RouteInv, ClosedInv, FailsClosed
  <1>7. ASSUME NEW t \in Threads, NEW f \in Feedback, RepairFails(t, f)
        PROVE  ClosedInv'
    BY <1>7, RouteFacts DEF RepairFails, Raise, Leave, EnterRoute, Goto, cacheVars,
       IInv, TypeOK, Step, RouteInv, ClosedInv, FailsClosed
  <1>8. ASSUME NEW t \in Threads, Retry(t)
        PROVE  ClosedInv'
    BY <1>8, RouteFacts DEF Retry, Goto, cacheVars, callVars, resultVars, history,
       IInv, TypeOK, Step, RouteInv, ClosedInv, FailsClosed
  <1>9. ASSUME NEW t \in Threads, FallBack(t)
        PROVE  ClosedInv'
    BY <1>9, RouteFacts DEF FallBack, EnterRoute, Goto, cacheVars, callVars,
       history, IInv, TypeOK, Step, RouteInv, ClosedInv, FailsClosed
  <1>10. ASSUME NEW t \in Threads, ProviderFails(t)
        PROVE  ClosedInv'
    BY <1>10, RouteFacts DEF ProviderFails, Raise, Leave, EnterRoute, Goto,
       cacheVars, IInv, TypeOK, Step, RouteInv, ClosedInv, FailsClosed
  <1>11. ASSUME NEW t \in Threads, RaiseUnrecorded(t)
        PROVE  ClosedInv'
    BY <1>11, RouteFacts DEF RaiseUnrecorded, Raise, Leave, EnterRoute, Goto,
       cacheVars, IInv, TypeOK, Step, RouteInv, ClosedInv, FailsClosed
  <1>12. ASSUME NEW t \in Threads, Put(t)
        PROVE  ClosedInv'
    <2>1. CASE fallback[t]
      BY <1>12, <2>1, RouteFacts DEF Put, Store, ReturnArtifact, Leave, EnterRoute,
         Goto, loopVars, callVars, resultVars, history, IInv, TypeOK, Step,
         RouteInv, ClosedInv, FailsClosed
    <2>2. CASE ~fallback[t]
      <3>1. step[t] = "put" /\ Store(request[t], route[t], None)
        BY <1>12 DEF Put
      <3>2. ReturnArtifact(t, route[t], route[t]) /\ UNCHANGED torn
        BY <1>12, <2>2 DEF Put
      <3>3. QED
        BY <2>2, <3>1, <3>2, RouteFacts DEF Store, ReturnArtifact, Leave,
           EnterRoute, Goto, IInv, TypeOK, Step, RouteInv, ClosedInv, FailsClosed
    <2>3. QED
      BY <2>1, <2>2
  <1>13. ASSUME NEW t \in Threads, PutEvidence(t)
        PROVE  ClosedInv'
    BY <1>13, RouteFacts DEF PutEvidence, Store, ReturnArtifact, Leave, EnterRoute,
       Goto, IInv, TypeOK, Step, RouteInv, ClosedInv, FailsClosed
  <1>14. ASSUME NEW t \in Threads, PutFails(t)
        PROVE  ClosedInv'
    BY <1>14, RouteFacts DEF PutFails, Store, Raise, Leave, EnterRoute, Goto,
       cacheVars, IInv, TypeOK, Step, RouteInv, ClosedInv, FailsClosed
  <1>15. ASSUME NEW t \in Threads, Timeout(t)
        PROVE  ClosedInv'
    BY <1>15, RouteFacts DEF Timeout, cacheVars, loopVars, resultVars, history,
       IInv, TypeOK, Step, RouteInv, ClosedInv, FailsClosed
  <1>16. ASSUME NEW a \in BOOLEAN, Restart(a)
        PROVE  ClosedInv'
    BY <1>16, RouteFacts DEF Restart, cacheVars, IInv, TypeOK, Step, RouteInv,
       ClosedInv, FailsClosed
  <1>17. ASSUME UNCHANGED vars
        PROVE  ClosedInv'
    BY <1>17, RouteFacts DEF vars, cacheVars, loopVars, callVars, resultVars,
       history, IInv, TypeOK, Step, RouteInv, ClosedInv, FailsClosed
  <1>18. QED
    BY <1>1, <1>2, <1>3, <1>4, <1>5, <1>6, <1>7, <1>8, <1>9, <1>10, <1>11, <1>12,
       <1>13, <1>14, <1>15, <1>16, <1>17 DEF Next, Proceeds, Answer

\* Calls that take turns find what the last one left.
LEMMA TurnsStep ==
    ASSUME IInv, [Next]_vars
    PROVE  TurnsInv'
  <1>1. ASSUME NEW t \in Threads, NEW r \in Requests, NEW c \in BOOLEAN, Begin(t, r, c)
        PROVE  TurnsInv'
    BY <1>1, RouteFacts DEF Begin, EnterRoute, Goto, cacheVars, callVars, IInv,
       TypeOK, Step, CacheNamesProducer, TurnsInv, LastManifestIsOwn,
       ManifestNamesProducer
  <1>2. ASSUME NEW t \in Threads, CacheHit(t)
        PROVE  TurnsInv'
    BY <1>2, RouteFacts DEF CacheHit, ReturnArtifact, Leave, EnterRoute, Goto,
       cacheVars, IInv, TypeOK, Step, CacheNamesProducer, TurnsInv,
       LastManifestIsOwn, ManifestNamesProducer
  <1>3. ASSUME NEW t \in Threads, CacheMiss(t)
        PROVE  TurnsInv'
    BY <1>3, RouteFacts DEF CacheMiss, Goto, cacheVars, loopVars, callVars,
       resultVars, history, IInv, TypeOK, Step, CacheNamesProducer, TurnsInv,
       LastManifestIsOwn, ManifestNamesProducer
  <1>4. ASSUME NEW t \in Threads, Send(t)
        PROVE  TurnsInv'
    BY <1>4, RouteFacts DEF Send, Goto, cacheVars, resultVars, history, IInv,
       TypeOK, Step, CacheNamesProducer, TurnsInv, LastManifestIsOwn,
       ManifestNamesProducer
  <1>5. ASSUME NEW t \in Threads, Accept(t)
        PROVE  TurnsInv'
    BY <1>5, RouteFacts DEF Accept, Goto, cacheVars, loopVars, callVars, resultVars,
       history, IInv, TypeOK, Step, CacheNamesProducer, TurnsInv, LastManifestIsOwn,
       ManifestNamesProducer
  <1>6. ASSUME NEW t \in Threads, NEW f \in Feedback, Repair(t, f)
        PROVE  TurnsInv'
    BY <1>6, RouteFacts DEF Repair, Correct, Goto, cacheVars, callVars, resultVars,
       history, IInv, TypeOK, Step, CacheNamesProducer, TurnsInv, LastManifestIsOwn,
       ManifestNamesProducer
  <1>7. ASSUME NEW t \in Threads, NEW f \in Feedback, RepairFails(t, f)
        PROVE  TurnsInv'
    BY <1>7, RouteFacts DEF RepairFails, Raise, Leave, EnterRoute, Goto, cacheVars,
       IInv, TypeOK, Step, CacheNamesProducer, TurnsInv, LastManifestIsOwn,
       ManifestNamesProducer
  <1>8. ASSUME NEW t \in Threads, Retry(t)
        PROVE  TurnsInv'
    BY <1>8, RouteFacts DEF Retry, Goto, cacheVars, callVars, resultVars, history,
       IInv, TypeOK, Step, CacheNamesProducer, TurnsInv, LastManifestIsOwn,
       ManifestNamesProducer
  <1>9. ASSUME NEW t \in Threads, FallBack(t)
        PROVE  TurnsInv'
    BY <1>9, RouteFacts DEF FallBack, EnterRoute, Goto, cacheVars, callVars,
       history, IInv, TypeOK, Step, CacheNamesProducer, TurnsInv, LastManifestIsOwn,
       ManifestNamesProducer
  <1>10. ASSUME NEW t \in Threads, ProviderFails(t)
        PROVE  TurnsInv'
    BY <1>10, RouteFacts DEF ProviderFails, Raise, Leave, EnterRoute, Goto,
       cacheVars, IInv, TypeOK, Step, CacheNamesProducer, TurnsInv,
       LastManifestIsOwn, ManifestNamesProducer
  <1>11. ASSUME NEW t \in Threads, RaiseUnrecorded(t)
        PROVE  TurnsInv'
    BY <1>11, RouteFacts DEF RaiseUnrecorded, Raise, Leave, EnterRoute, Goto,
       cacheVars, IInv, TypeOK, Step, CacheNamesProducer, TurnsInv,
       LastManifestIsOwn, ManifestNamesProducer
  <1>12. ASSUME NEW t \in Threads, Put(t)
        PROVE  TurnsInv'
    <2>1. CASE fallback[t]
      BY <1>12, <2>1, RouteFacts DEF Put, Store, ReturnArtifact, Leave, EnterRoute,
         Goto, loopVars, callVars, resultVars, history, IInv, TypeOK, Step,
         CacheNamesProducer, TurnsInv, LastManifestIsOwn, ManifestNamesProducer
    <2>2. CASE ~fallback[t]
      <3>1. step[t] = "put" /\ Store(request[t], route[t], None)
        BY <1>12 DEF Put
      <3>2. ReturnArtifact(t, route[t], route[t]) /\ UNCHANGED torn
        BY <1>12, <2>2 DEF Put
      <3>3. QED
        BY <2>2, <3>1, <3>2, RouteFacts DEF Store, ReturnArtifact, Leave,
           EnterRoute, Goto, IInv, TypeOK, Step, CacheNamesProducer, TurnsInv,
           LastManifestIsOwn, ManifestNamesProducer
    <2>3. QED
      BY <2>1, <2>2
  <1>13. ASSUME NEW t \in Threads, PutEvidence(t)
        PROVE  TurnsInv'
    BY <1>13, RouteFacts DEF PutEvidence, Store, ReturnArtifact, Leave, EnterRoute,
       Goto, IInv, TypeOK, Step, CacheNamesProducer, TurnsInv, LastManifestIsOwn,
       ManifestNamesProducer
  <1>14. ASSUME NEW t \in Threads, PutFails(t)
        PROVE  TurnsInv'
    BY <1>14, RouteFacts DEF PutFails, Store, Raise, Leave, EnterRoute, Goto,
       cacheVars, IInv, TypeOK, Step, CacheNamesProducer, TurnsInv,
       LastManifestIsOwn, ManifestNamesProducer
  <1>15. ASSUME NEW t \in Threads, Timeout(t)
        PROVE  TurnsInv'
    BY <1>15, RouteFacts DEF Timeout, cacheVars, loopVars, resultVars, history,
       IInv, TypeOK, Step, CacheNamesProducer, TurnsInv, LastManifestIsOwn,
       ManifestNamesProducer
  <1>16. ASSUME NEW a \in BOOLEAN, Restart(a)
        PROVE  TurnsInv'
    BY <1>16, RouteFacts DEF Restart, cacheVars, IInv, TypeOK, Step,
       CacheNamesProducer, TurnsInv, LastManifestIsOwn, ManifestNamesProducer
  <1>17. ASSUME UNCHANGED vars
        PROVE  TurnsInv'
    BY <1>17, RouteFacts DEF vars, cacheVars, loopVars, callVars, resultVars,
       history, IInv, TypeOK, Step, CacheNamesProducer, TurnsInv, LastManifestIsOwn,
       ManifestNamesProducer
  <1>18. QED
    BY <1>1, <1>2, <1>3, <1>4, <1>5, <1>6, <1>7, <1>8, <1>9, <1>10, <1>11, <1>12,
       <1>13, <1>14, <1>15, <1>16, <1>17 DEF Next, Proceeds, Answer

\* A fresh gateway over an empty cache.
LEMMA InitIInv == Init => IInv
  <1> SUFFICES ASSUME Init PROVE IInv
    OBVIOUS
  <1>1. allow \in BOOLEAN /\ allowed \in BOOLEAN /\ (allow => allowed)
    BY Zenon DEF Init
  <1>2. TypeOK
    <2>1. cached \in [Requests -> Route \cup {None}] /\ noted \in [Requests -> Route \cup {None}]
      BY DEF Init
    <2>2. /\ step \in [Threads -> Step] /\ request \in [Threads -> Requests \cup {None}]
          /\ \A t \in Threads : step[t] # "idle" => request[t] \in Requests
          /\ made \in [Threads -> Route \cup {None}] /\ named \in [Threads -> Route \cup {None}]
      BY DEF Init, Step
    <2>3. /\ route \in [Threads -> Route] /\ prompt \in [Threads -> Prompt]
          /\ prompts \in [Threads -> SUBSET Prompt] /\ rejected \in [Threads -> SUBSET Prompt]
          /\ fallback \in [Threads -> BOOLEAN] /\ timedOut \in [Threads -> BOOLEAN]
      BY DEF Init, Route, Prompt
    <2>4. /\ attempts \in [Threads -> Nat] /\ retries \in [Threads -> Nat]
          /\ repairs \in [Threads -> Nat] /\ sent \in [Threads -> Nat]
          /\ calls \in 0 .. MaxCalls
      BY RouteFacts DEF Init
    <2>5. overlapped \in BOOLEAN /\ torn \in BOOLEAN
      BY Zenon DEF Init
    <2>6. last \in Threads \cup {None} /\ returned \in Threads \cup {None}
      BY DEF Init
    <2>7. QED
      BY <1>1, <2>1, <2>2, <2>3, <2>4, <2>5, <2>6, Zenon DEF TypeOK
  <1>3. RouteInv /\ PromptInv /\ CacheNamesProducer
    BY DEF Init, RouteInv, PromptInv, CacheNamesProducer
  <1>4. CountInv
    <2> SUFFICES ASSUME NEW t \in Threads
                 PROVE  /\ retries[t] <= RetryLimit(route[t])
                        /\ repairs[t] <= Repairs
                        /\ attempts[t] <= retries[t] + repairs[t]
                              + (IF step[t] \in {"idle", "lookup", "send"} THEN 0 ELSE 1)
                        /\ sent[t] <= attempts[t] + (IF fallback[t] THEN Limit("pro") ELSE 0)
                        /\ step[t] = "idle" => sent[t] = 0
      BY DEF CountInv
    <2>1. retries[t] = 0 /\ repairs[t] = 0 /\ attempts[t] = 0 /\ sent[t] = 0
      BY DEF Init
    <2>2. step[t] = "idle" /\ ~fallback[t]
      BY DEF Init
    <2>3. QED
      BY <2>1, <2>2, RouteFacts
  <1>5. ClosedInv
    BY <1>1 DEF Init, ClosedInv, FailsClosed
  <1>6. TurnsInv
    BY DEF Init, TurnsInv, LastManifestIsOwn, ManifestNamesProducer
  <1>7. QED
    BY <1>2, <1>3, <1>4, <1>5, <1>6 DEF IInv

\* The invariant holds in every reachable state.
THEOREM GatewayInvariance == Spec => []IInv
  <1>1. IInv /\ [Next]_vars => IInv'
    <2> SUFFICES ASSUME IInv, [Next]_vars PROVE IInv'
      OBVIOUS
    <2>1. TypeOK' /\ RouteInv' /\ CountInv' /\ PromptInv'
      BY TypeStep, RouteStep, CountStep, PromptStep
    <2>2. CacheNamesProducer' /\ ClosedInv' /\ TurnsInv'
      BY CacheStep, ClosedStep, TurnsStep
    <2>3. QED
      BY <2>1, <2>2 DEF IInv
  <1>2. QED
    BY InitIInv, <1>1, PTL DEF Spec

\* Every variable of the gateway keeps its type.
THEOREM GatewayTypes == Spec => []TypeOK
  <1>1. IInv => TypeOK
    BY DEF IInv
  <1>2. QED
    BY GatewayInvariance, <1>1, PTL

\* A call sends one request, its retries and its repairs on each route, and no more,
\* whatever the provider answers (the loop of _invoke_route has no other bound).
THEOREM CallsAreBounded == Spec => []BoundedProviderCalls
  <1>1. IInv => BoundedProviderCalls
    <2> SUFFICES ASSUME IInv, NEW t \in Threads
                 PROVE  sent[t] <= (IF fallback[t] THEN Limit("pro") + Limit("flash")
                                    ELSE Limit(route[t]))
      BY DEF BoundedProviderCalls
    <2>1. attempts[t] <= Limit(route[t])
      BY RouteFacts DEF IInv, TypeOK, CountInv, Limit
    <2>2. sent[t] <= attempts[t] + (IF fallback[t] THEN Limit("pro") ELSE 0)
      BY DEF IInv, CountInv
    <2>3. fallback[t] => route[t] = "flash"
      BY DEF IInv, RouteInv
    <2>4. sent[t] \in Nat /\ attempts[t] \in Nat /\ fallback[t] \in BOOLEAN
      BY DEF IInv, TypeOK
    <2>5. QED
      BY <2>1, <2>2, <2>3, <2>4, RouteFacts
  <1>2. QED
    BY GatewayInvariance, <1>1, PTL

\* _invoke_route never sends a prompt again whose answer was invalid.
THEOREM RejectedStaysBehind == Spec => []RejectedPromptNotRepeated
  <1>1. IInv => RejectedPromptNotRepeated
    BY DEF IInv, PromptInv, RejectedPromptNotRepeated
  <1>2. QED
    BY GatewayInvariance, <1>1, PTL

\* The cache names the route of every response, but for an interrupted fallback.
THEOREM CacheIsTrue == Spec => []CacheNamesProducer
  <1>1. IInv => CacheNamesProducer
    BY DEF IInv
  <1>2. QED
    BY GatewayInvariance, <1>1, PTL

\* So does every manifest that comes with an artifact, fresh or cached.
THEOREM ManifestIsTrue == Spec => []ManifestNamesProducer
  <1>1. IInv => ManifestNamesProducer
    BY DEF IInv, TurnsInv, ManifestNamesProducer
  <1>2. QED
    BY GatewayInvariance, <1>1, PTL

\* Unless some configuration allows it, no artifact comes from another route.
THEOREM NoSilentFallback == Spec => []FailsClosed
  <1>1. IInv => FailsClosed
    BY DEF IInv, ClosedInv, FailsClosed
  <1>2. QED
    BY GatewayInvariance, <1>1, PTL

\* Between calls that do not overlap, last_manifest is that of the last one.
THEOREM LastManifestIsTrue == Spec => []LastManifestIsOwn
  <1>1. IInv => LastManifestIsOwn
    BY DEF IInv, TurnsInv, LastManifestIsOwn
  <1>2. QED
    BY GatewayInvariance, <1>1, PTL
=============================================================================
