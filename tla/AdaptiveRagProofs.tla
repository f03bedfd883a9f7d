--------------------------- MODULE AdaptiveRagProofs ---------------------------
(***************************************************************************)
(* What holds of both ways to answer a question for any number of tool     *)
(* threads, any catalog, any limits and whatever the model replies: the    *)
(* invariants of AdaptiveRagInvariants and the properties that follow.     *)
(***************************************************************************)
EXTENDS AdaptiveRagInvariants, FiniteSetTheorems, TLAPS

\* The folds of the answerers: names asked for, rows of a report, characters of a
\* batch and the packing of batches.
AddName(p, q, done, next) == WithNew(done, next)

Names == INSTANCE FoldTheorems WITH Op <- AddName

AddRow(p, q, done, next) == WithNewRow(done, next)

NewRows == INSTANCE FoldTheorems WITH Op <- AddRow

AddLength(p, q, done, next) == Longer(done, next)

Lengths == INSTANCE FoldTheorems WITH Op <- AddLength

AddToBatch(p, q, done, next) == Place(done, next)

Placed == INSTANCE FoldTheorems WITH Op <- AddToBatch

-----------------------------------------------------------------------------
(* Each step of a tool.  Facts a to d say what the step does.              *)

\* Checking can be counted.
LEMMA CheckingFinite ==
  IsFiniteSet(Checking)
BY RagAnswerAssumption, FS_Subset DEF Checking

\* Moving a thread changes its place only.
LEMMA AtFields ==
  ASSUME Types, NEW t \in Threads, NEW place
  PROVE  At(t, place) = [at |-> place, todo |-> call[t].todo, ids |-> call[t].ids,
                         number |-> call[t].number, before |-> call[t].before]
<1>1. call[t] \in [at : Places, todo : Hit, ids : Collected, number : Nat, before : Int]
  BY DEF Types
<1> QED
  BY <1>1 DEF At

\* The evidence is as long as the ledger.
LEMMA LedgerSize ==
  ASSUME Types
  PROVE  Evidence = Len(closure.ledger) /\ DOMAIN closure.ledger = 1 .. Evidence
<1>1. DOMAIN closure.ledger = 1 .. Len(closure.ledger) /\ Len(closure.ledger) \in Nat
  BY DEF Types
<1>2. Cardinality(1 .. Len(closure.ledger)) = Len(closure.ledger)
  BY <1>1, FS_Interval
<1> QED
  BY <1>1, <1>2 DEF Evidence

\* What the catalog returns is a sequence of chunks.
LEMMA HitsAreHits ==
  Hits \subseteq Hit
BY DEF Hits, Hit

\* A call of the right type keeps the function of calls well typed.
LEMMA CallTypes ==
  ASSUME Types, NEW t \in Threads, NEW at \in Places, NEW todo \in Hit, NEW ids \in Collected,
         NEW number \in Nat, NEW before \in Int,
         call' = [call EXCEPT ![t] = [at |-> at, todo |-> todo, ids |-> ids,
                                      number |-> number, before |-> before]]
  PROVE  call' \in [Threads -> [at : Places, todo : Hit, ids : Collected, number : Nat, before : Int]]
BY DEF Types

\* Updating todo and ids leaves the other fields alone.
LEMMA TwoFields ==
  ASSUME NEW r, NEW a, NEW b, NEW c, NEW d, NEW e, NEW x, NEW y,
         r = [at |-> a, todo |-> b, ids |-> c, number |-> d, before |-> e]
  PROVE  [r EXCEPT !.todo = x, !.ids = y]
         = [at |-> a, todo |-> x, ids |-> y, number |-> d, before |-> e]
<1>1. [r EXCEPT !.todo = x] = [at |-> a, todo |-> x, ids |-> c, number |-> d, before |-> e]
  OBVIOUS
<1>2. \A s: s = [at |-> a, todo |-> x, ids |-> c, number |-> d, before |-> e]
             => [s EXCEPT !.ids = y] = [at |-> a, todo |-> x, ids |-> y, number |-> d, before |-> e]
  OBVIOUS
<1> QED
  BY <1>1, <1>2

\* Updating one field leaves the other fields alone.
LEMMA OneField ==
  ASSUME NEW r, NEW a, NEW b, NEW c, NEW d, NEW e, NEW x,
         r = [at |-> a, todo |-> b, ids |-> c, number |-> d, before |-> e]
  PROVE  /\ [r EXCEPT !.at = x] = [at |-> x, todo |-> b, ids |-> c, number |-> d, before |-> e]
         /\ [r EXCEPT !.todo = x] = [at |-> a, todo |-> x, ids |-> c, number |-> d, before |-> e]
OBVIOUS

\* A thread that shows a number drops its chunk and goes on looking.
LEMMA ShownFields ==
  ASSUME Types, NEW t \in Threads, NEW e
  PROVE  Shown(t, e) = [at |-> "look", todo |-> Tail(call[t].todo), ids |-> call[t].ids \cup {e},
                        number |-> call[t].number, before |-> call[t].before]
<1>1. At(t, "look") = [at |-> "look", todo |-> call[t].todo, ids |-> call[t].ids,
                       number |-> call[t].number, before |-> call[t].before]
  BY AtFields
<1>2. At(t, "look").todo = call[t].todo /\ At(t, "look").ids = call[t].ids
  BY <1>1
<1>3. Shown(t, e) = [At(t, "look") EXCEPT !.todo = Tail(At(t, "look").todo),
                                          !.ids = At(t, "look").ids \cup {e}]
  BY DEF Shown
<1>4. Shown(t, e) = [At(t, "look") EXCEPT !.todo = Tail(call[t].todo),
                                          !.ids = call[t].ids \cup {e}]
  BY <1>2, <1>3
<1> DEFINE todo == call[t].todo  ids == call[t].ids  number == call[t].number
           before == call[t].before  rest == Tail(call[t].todo)  more == call[t].ids \cup {e}
           r == At(t, "look")
<1>5. r = [at |-> "look", todo |-> todo, ids |-> ids, number |-> number, before |-> before]
  BY <1>1
<1>6. Shown(t, e) = [r EXCEPT !.todo = rest, !.ids = more]
  BY <1>4
<1> HIDE DEF todo, ids, number, before, rest, more, r
<1>7. Shown(t, e) = [at |-> "look", todo |-> rest, ids |-> more, number |-> number, before |-> before]
  BY <1>5, <1>6, TwoFields
<1> QED
  BY <1>7 DEF rest, more, number, before

\* Writing a number of the ledger, or the next one, leaves it a sequence.
LEMMA PutSeq ==
  ASSUME NEW S, NEW s \in Seq(S), NEW n \in 1 .. (Len(s) + 1), NEW x \in S
  PROVE  /\ Put(s, n, x) \in Seq(S)
         /\ Len(Put(s, n, x)) = IF n = Len(s) + 1 THEN Len(s) + 1 ELSE Len(s)
<1> DEFINE m == IF n = Len(s) + 1 THEN Len(s) + 1 ELSE Len(s)
<1>1. m \in Nat /\ DOMAIN s \cup {n} = 1 .. m
  OBVIOUS
<1>2. Put(s, n, x) = [k \in 1 .. m |-> IF k = n THEN x ELSE s[k]]
  BY <1>1 DEF Put
<1>3. \A k \in 1 .. m: (IF k = n THEN x ELSE s[k]) \in S
  OBVIOUS
<1> HIDE DEF m
<1>4. Put(s, n, x) \in [1 .. m -> S]
  BY <1>2, <1>3
<1>5. Put(s, n, x) \in Seq(S) /\ Len(Put(s, n, x)) = m
  BY <1>1, <1>4
<1> QED
  BY <1>5 DEF m

\* tool_calls is counted before the thread compares it.
LEMMA EnterKeeps ==
  ASSUME RagIInv, NEW t \in Threads, Enter(t)
  PROVE  RagIInv'
<1>a. phase = "tools" /\ call[t].at = "enter" /\ UNCHANGED <<phase, supersteps, sources>>
  BY DEF Step, Enter
<1>b. call' = [call EXCEPT ![t] =
       [at |-> "check", todo |-> call[t].todo, ids |-> call[t].ids, number |-> call[t].number,
         before |-> call[t].before]]
  BY AtFields DEF RagIInv, Step, NoCall, Enter
<1>c. closure' = [toolCalls |-> closure.toolCalls + 1, ledger |-> closure.ledger,
                  evidenceOf |-> closure.evidenceOf, characters |-> closure.characters]
  BY DEF RagIInv, Types, Enter
<1>d. seen' = seen
  BY DEF Enter
<1>1. Types'
  BY <1>a, <1>b, <1>c, <1>d DEF RagIInv, Types, Hit, Collected, Places, Outside, Registering
<1>2. Numbers'
  BY <1>a, <1>b, <1>c, <1>d DEF RagIInv, Types, Hit, Collected, Numbers, Places,
      Outside, Registering
<1>3. Accounted'
  BY <1>a, <1>b, <1>c, <1>d DEF RagIInv, Types, Hit, Collected, Accounted, Numbers, Places,
      Outside, Registering
<1>4. Turns'
  BY <1>a, <1>b, <1>c, <1>d DEF RagIInv, Types, Hit, Collected, Turns, Places, Outside, Registering
<1>5. Counted'
  <2>1. Checking' = Checking \cup {t}
    BY <1>a, <1>b DEF Checking, RagIInv, Types
  <2>2. IsFiniteSet(Checking) /\ Cardinality(Checking) \in Nat /\ t \notin Checking
    BY <1>a, CheckingFinite, FS_CardinalityType DEF Checking
  <2>3. Cardinality(Checking') = Cardinality(Checking) + 1
    BY <2>1, <2>2, FS_AddElement
  <2> QED
    BY <1>c, <1>d, <2>2, <2>3 DEF RagIInv, Types, Counted
<1>6. Alone'
  BY <1>a, <1>b, <1>c, <1>d DEF RagIInv, Types, Hit, Collected, Alone, Numbers, Registering
<1> QED
  BY <1>1, <1>2, <1>3, <1>4, <1>5, <1>6 DEF RagIInv

\* A refused call ends with nothing collected.
LEMMA RefuseKeeps ==
  ASSUME RagIInv, NEW t \in Threads, Refuse(t)
  PROVE  RagIInv'
<1>a. phase = "tools" /\ call[t].at = "check" /\ UNCHANGED <<phase, supersteps, sources>>
  BY DEF Step, Refuse
<1>b. call' = [call EXCEPT ![t] =
       [at |-> "idle", todo |-> <<>>, ids |-> {}, number |-> 0, before |-> 0]]
  BY AtFields DEF RagIInv, Step, NoCall, Refuse
<1>c. closure' = closure
  BY DEF Refuse
<1>d. seen' = seen
  BY DEF Refuse
<1>1. Types'
  BY <1>a, <1>b, <1>c, <1>d DEF RagIInv, Types, Hit, Collected, Places, Outside, Registering
<1>2. Numbers'
  BY <1>a, <1>b, <1>c, <1>d DEF RagIInv, Types, Hit, Collected, Numbers, Places,
      Outside, Registering
<1>3. Accounted'
  BY <1>a, <1>b, <1>c, <1>d DEF RagIInv, Types, Hit, Collected, Accounted, Numbers, Places,
      Outside, Registering
<1>4. Turns'
  BY <1>a, <1>b, <1>c, <1>d DEF RagIInv, Types, Hit, Collected, Turns, Places, Outside, Registering
<1>5. Counted'
  <2>1. Checking' = Checking \ {t}
    BY <1>a, <1>b DEF Checking, RagIInv, Types
  <2>2. IsFiniteSet(Checking) /\ Cardinality(Checking) \in Nat /\ t \in Checking
    BY <1>a, CheckingFinite, FS_CardinalityType DEF Checking
  <2>3. Cardinality(Checking') = Cardinality(Checking) - 1
    BY <2>1, <2>2, FS_RemoveElement
  <2> QED
    BY <1>c, <1>d, <2>2, <2>3 DEF RagIInv, Types, Counted
<1>6. Alone'
  BY <1>a, <1>b, <1>c, <1>d DEF RagIInv, Types, Hit, Collected, Alone, Numbers, Registering
<1> QED
  BY <1>1, <1>2, <1>3, <1>4, <1>5, <1>6 DEF RagIInv

\* A call is served only within the budget, and is no longer waiting to compare.
LEMMA ServeKeeps ==
  ASSUME RagIInv, NEW t \in Threads, Serve(t)
  PROVE  RagIInv'
<1>a. phase = "tools" /\ call[t].at = "check" /\ UNCHANGED <<phase, supersteps, sources>>
  BY DEF Step, Serve, OverBudget
<1>b. call' = [call EXCEPT ![t] =
       [at |-> "search", todo |-> call[t].todo, ids |-> call[t].ids, number |-> call[t].number,
         before |-> call[t].before]]
  BY AtFields DEF RagIInv, Step, NoCall, Serve, OverBudget
<1>c. closure' = closure
  BY DEF Serve, OverBudget
<1>d. seen' = [served |-> seen.served + 1, shown |-> seen.shown, raced |-> seen.raced,
               failed |-> seen.failed]
  BY DEF RagIInv, Types, Serve, OverBudget
<1>1. Types'
  BY <1>a, <1>b, <1>c, <1>d DEF RagIInv, Types, Hit, Collected, Places, Outside, Registering
<1>2. Numbers'
  BY <1>a, <1>b, <1>c, <1>d DEF RagIInv, Types, Hit, Collected, Numbers, Places,
      Outside, Registering
<1>3. Accounted'
  BY <1>a, <1>b, <1>c, <1>d DEF RagIInv, Types, Hit, Collected, Accounted, Numbers, Places,
      Outside, Registering
<1>4. Turns'
  BY <1>a, <1>b, <1>c, <1>d DEF RagIInv, Types, Hit, Collected, Turns, Places, Outside, Registering
<1>5. Counted'
  <2>1. Checking' = Checking \ {t}
    BY <1>a, <1>b DEF Checking, RagIInv, Types
  <2>2. IsFiniteSet(Checking) /\ Cardinality(Checking) \in Nat /\ t \in Checking
    BY <1>a, CheckingFinite, FS_CardinalityType DEF Checking
  <2>3. Cardinality(Checking') = Cardinality(Checking) - 1 /\ Cardinality(Checking') \in Nat
    BY <2>1, <2>2, FS_CardinalityType, FS_RemoveElement
  <2>4. closure.toolCalls <= MaxToolCalls /\ MaxToolCalls \in Nat /\ closure.toolCalls \in Nat
        /\ seen.served \in Nat
    BY RagAnswerAssumption DEF RagIInv, Types, Serve, OverBudget
  <2>5. seen.served + Cardinality(Checking) <= closure.toolCalls
    BY DEF RagIInv, Counted
  <2>6. Cardinality(Checking) >= 1
    <3>1. Cardinality(Checking) # 0
      BY <2>2, FS_EmptySet
    <3> QED BY <2>2, <3>1
  <2>7. seen.served + 1 + Cardinality(Checking') <= closure.toolCalls
        /\ seen.served + 1 <= MaxToolCalls
    BY <2>2, <2>3, <2>4, <2>5, <2>6
  <2> QED
    BY <1>c, <1>d, <2>7 DEF Counted
<1>6. Alone'
  BY <1>a, <1>b, <1>c, <1>d DEF RagIInv, Types, Hit, Collected, Alone, Numbers, Registering
<1> QED
  BY <1>1, <1>2, <1>3, <1>4, <1>5, <1>6 DEF RagIInv

\* A thread that enters register makes a race of it if another is there.
LEMMA SearchKeeps ==
  ASSUME RagIInv, NEW t \in Threads, Search(t)
  PROVE  RagIInv'
<1>a. phase = "tools" /\ call[t].at = "search" /\ UNCHANGED <<phase, supersteps, sources>>
  BY DEF Step, Search, Hits
<1>b. PICK hits \in Hit:
     call' = [call EXCEPT ![t] =
       [at |-> "look", todo |-> hits, ids |-> call[t].ids, number |-> call[t].number,
         before |-> call[t].before]]
  <2>1. PICK hits \in Hits: call' = [call EXCEPT ![t] = [At(t, "look") EXCEPT !.todo = hits]]
    BY DEF Step, Search
  <2>2. At(t, "look") = [at |-> "look", todo |-> call[t].todo, ids |-> call[t].ids,
                         number |-> call[t].number, before |-> call[t].before]
    BY AtFields DEF RagIInv
  <2>3. [At(t, "look") EXCEPT !.todo = hits]
        = [at |-> "look", todo |-> hits, ids |-> call[t].ids,
           number |-> call[t].number, before |-> call[t].before]
    BY <2>2, OneField
  <2> QED
    BY <2>1, <2>3, HitsAreHits
<1>c. closure' = closure
  BY DEF Search, Hits
<1>d. seen' = [served |-> seen.served, shown |-> seen.shown,
               raced |-> (seen.raced \/ \E u \in Threads: call[u].at \in Registering),
               failed |-> seen.failed]
  BY DEF RagIInv, Types, Search, Hits
<1>1. Types'
  BY <1>a, <1>b, <1>c, <1>d DEF RagIInv, Types, Hit, Collected, Places, Outside, Registering
<1>2. Numbers'
  BY <1>a, <1>b, <1>c, <1>d DEF RagIInv, Types, Hit, Collected, Numbers, Places,
      Outside, Registering
<1>3. Accounted'
  BY <1>a, <1>b, <1>c, <1>d DEF RagIInv, Types, Hit, Collected, Accounted, Numbers, Places,
      Outside, Registering
<1>4. Turns'
  BY <1>a, <1>b, <1>c, <1>d DEF RagIInv, Types, Hit, Collected, Turns, Places, Outside, Registering
<1>5. Counted'
  <2>1. Checking' = Checking
    BY <1>a, <1>b DEF Checking, RagIInv, Types
  <2>2. IsFiniteSet(Checking) /\ Cardinality(Checking) \in Nat 
    BY <1>a, CheckingFinite, FS_CardinalityType DEF Checking
  <2>3. Cardinality(Checking') = Cardinality(Checking)
    BY <2>1, <2>2
  <2> QED
    BY <1>c, <1>d, <2>2, <2>3 DEF RagIInv, Types, Counted
<1>6. Alone'
  BY <1>a, <1>b, <1>c, <1>d DEF RagIInv, Types, Hit, Collected, Alone, Numbers, Registering
<1> QED
  BY <1>1, <1>2, <1>3, <1>4, <1>5, <1>6 DEF RagIInv

\* A failed search collects nothing.
LEMMA SearchFailsKeeps ==
  ASSUME RagIInv, NEW t \in Threads, SearchFails(t)
  PROVE  RagIInv'
<1>a. phase = "tools" /\ call[t].at = "search" /\ UNCHANGED <<phase, supersteps, sources>>
  BY DEF Step, SearchFails
<1>b. call' = [call EXCEPT ![t] =
       [at |-> "raised", todo |-> <<>>, ids |-> {}, number |-> 0, before |-> 0]]
  <2>1. NoCall = [at |-> "idle", todo |-> <<>>, ids |-> {}, number |-> 0, before |-> 0]
    BY DEF NoCall
  <2>2. \A b, c: [[at |-> "idle", todo |-> b, ids |-> c, number |-> 0, before |-> 0] EXCEPT !.at = "raised"]
                  = [at |-> "raised", todo |-> b, ids |-> c, number |-> 0, before |-> 0]
    OBVIOUS
  <2>3. [NoCall EXCEPT !.at = "raised"]
        = [at |-> "raised", todo |-> <<>>, ids |-> {}, number |-> 0, before |-> 0]
    BY <2>1, <2>2, Zenon
  <2> QED
    BY <2>3 DEF Step, SearchFails
<1>c. closure' = closure
  BY DEF SearchFails
<1>d. seen' = [served |-> seen.served, shown |-> seen.shown, raced |-> seen.raced, failed |-> TRUE]
  BY DEF RagIInv, Types, SearchFails
<1>1. Types'
  BY <1>a, <1>b, <1>c, <1>d DEF RagIInv, Types, Hit, Collected, Places, Outside, Registering
<1>2. Numbers'
  BY <1>a, <1>b, <1>c, <1>d DEF RagIInv, Types, Hit, Collected, Numbers, Places,
      Outside, Registering
<1>3. Accounted'
  BY <1>a, <1>b, <1>c, <1>d DEF RagIInv, Types, Hit, Collected, Accounted, Numbers, Places,
      Outside, Registering
<1>4. Turns'
  BY <1>a, <1>b, <1>c, <1>d DEF RagIInv, Types, Hit, Collected, Turns, Places, Outside, Registering
<1>5. Counted'
  <2>1. Checking' = Checking
    BY <1>a, <1>b DEF Checking, RagIInv, Types
  <2>2. IsFiniteSet(Checking) /\ Cardinality(Checking) \in Nat 
    BY <1>a, CheckingFinite, FS_CardinalityType DEF Checking
  <2>3. Cardinality(Checking') = Cardinality(Checking)
    BY <2>1, <2>2
  <2> QED
    BY <1>c, <1>d, <2>2, <2>3 DEF RagIInv, Types, Counted
<1>6. Alone'
  BY <1>a, <1>b, <1>c, <1>d DEF RagIInv, Types, Hit, Collected, Alone, Numbers, Registering
<1> QED
  BY <1>1, <1>2, <1>3, <1>4, <1>5, <1>6 DEF RagIInv

\* After the last hit the cards are made.
LEMMA LookEndKeeps ==
  ASSUME RagIInv, NEW t \in Threads, Look(t), call[t].todo = <<>>
  PROVE  RagIInv'
<1>a. phase = "tools" /\ call[t].at = "look" /\ UNCHANGED <<phase, supersteps, sources>>
  BY DEF Step, Look
<1>b. call' = [call EXCEPT ![t] =
       [at |-> "cards", todo |-> call[t].todo, ids |-> call[t].ids, number |-> call[t].number,
         before |-> call[t].before]]
  BY AtFields DEF RagIInv, Step, NoCall, Look
<1>c. closure' = closure
  BY DEF Look
<1>d. seen' = seen
  BY DEF Look
<1>1. Types'
  BY <1>a, <1>b, <1>c, <1>d DEF RagIInv, Types, Hit, Collected, Places, Outside, Registering
<1>2. Numbers'
  BY <1>a, <1>b, <1>c, <1>d DEF RagIInv, Types, Hit, Collected, Numbers, Places,
      Outside, Registering
<1>3. Accounted'
  BY <1>a, <1>b, <1>c, <1>d DEF RagIInv, Types, Hit, Collected, Accounted, Numbers, Places,
      Outside, Registering
<1>4. Turns'
  BY <1>a, <1>b, <1>c, <1>d DEF RagIInv, Types, Hit, Collected, Turns, Places, Outside, Registering
<1>5. Counted'
  <2>1. Checking' = Checking
    BY <1>a, <1>b DEF Checking, RagIInv, Types
  <2>2. IsFiniteSet(Checking) /\ Cardinality(Checking) \in Nat 
    BY <1>a, CheckingFinite, FS_CardinalityType DEF Checking
  <2>3. Cardinality(Checking') = Cardinality(Checking)
    BY <2>1, <2>2
  <2> QED
    BY <1>c, <1>d, <2>2, <2>3 DEF RagIInv, Types, Counted
<1>6. Alone'
  BY <1>a, <1>b, <1>c, <1>d DEF RagIInv, Types, Hit, Collected, Alone, Numbers, Registering
<1> QED
  BY <1>1, <1>2, <1>3, <1>4, <1>5, <1>6 DEF RagIInv

\* A known chunk is shown under the number it has.
LEMMA LookKnownKeeps ==
  ASSUME RagIInv, NEW t \in Threads, Look(t), call[t].todo # <<>>, Current(t) \in DOMAIN closure.evidenceOf
  PROVE  RagIInv'
<1>a. phase = "tools" /\ call[t].at = "look" /\ UNCHANGED <<phase, supersteps, sources>>
  BY DEF Step, Look, Shown
<1>b. call' = [call EXCEPT ![t] =
       [at |-> call[t].at, todo |-> Tail(call[t].todo),
         ids |-> call[t].ids \cup {closure.evidenceOf[Current(t)]}, number |-> call[t].number,
         before |-> call[t].before]]
  BY ShownFields DEF RagIInv, Step, Look
<1>c. closure' = closure
  BY DEF Look, Shown
<1>d. seen' = seen
  BY DEF Look, Shown
<1>1. Types'
  BY <1>a, <1>b, <1>c, <1>d DEF RagIInv, Types, Hit, Collected, Places, Outside, Registering
<1>2. Numbers'
  BY <1>a, <1>b, <1>c, <1>d DEF RagIInv, Types, Hit, Collected, Numbers, Places,
      Outside, Registering
<1>3. Accounted'
  BY <1>a, <1>b, <1>c, <1>d DEF RagIInv, Types, Hit, Collected, Accounted, Numbers, Places,
      Outside, Registering
<1>4. Turns'
  BY <1>a, <1>b, <1>c, <1>d DEF RagIInv, Types, Hit, Collected, Turns, Places, Outside, Registering
<1>5. Counted'
  <2>1. Checking' = Checking
    BY <1>a, <1>b DEF Checking, RagIInv, Types
  <2>2. IsFiniteSet(Checking) /\ Cardinality(Checking) \in Nat 
    BY <1>a, CheckingFinite, FS_CardinalityType DEF Checking
  <2>3. Cardinality(Checking') = Cardinality(Checking)
    BY <2>1, <2>2
  <2> QED
    BY <1>c, <1>d, <2>2, <2>3 DEF RagIInv, Types, Counted
<1>6. Alone'
  BY <1>a, <1>b, <1>c, <1>d DEF RagIInv, Types, Hit, Collected, Alone, Numbers, Registering
<1> QED
  BY <1>1, <1>2, <1>3, <1>4, <1>5, <1>6 DEF RagIInv

\* A chunk without a number asks for room.
LEMMA LookNewKeeps ==
  ASSUME RagIInv, NEW t \in Threads, Look(t), call[t].todo # <<>>, Current(t) \notin DOMAIN closure.evidenceOf
  PROVE  RagIInv'
<1>a. phase = "tools" /\ call[t].at = "look" /\ UNCHANGED <<phase, supersteps, sources>>
  BY DEF Step, Look
<1>b. call' = [call EXCEPT ![t] =
       [at |-> "room", todo |-> call[t].todo, ids |-> call[t].ids, number |-> call[t].number,
         before |-> call[t].before]]
  BY AtFields DEF RagIInv, Step, NoCall, Look
<1>c. closure' = closure
  BY DEF Look
<1>d. seen' = seen
  BY DEF Look
<1>1. Types'
  BY <1>a, <1>b, <1>c, <1>d DEF RagIInv, Types, Hit, Collected, Places, Outside, Registering
<1>2. Numbers'
  BY <1>a, <1>b, <1>c, <1>d DEF RagIInv, Types, Hit, Collected, Numbers, Places,
      Outside, Registering
<1>3. Accounted'
  BY <1>a, <1>b, <1>c, <1>d DEF RagIInv, Types, Hit, Collected, Accounted, Numbers, Places,
      Outside, Registering
<1>4. Turns'
  BY <1>a, <1>b, <1>c, <1>d DEF RagIInv, Types, Hit, Collected, Turns, Places, Outside, Registering
<1>5. Counted'
  <2>1. Checking' = Checking
    BY <1>a, <1>b DEF Checking, RagIInv, Types
  <2>2. IsFiniteSet(Checking) /\ Cardinality(Checking) \in Nat 
    BY <1>a, CheckingFinite, FS_CardinalityType DEF Checking
  <2>3. Cardinality(Checking') = Cardinality(Checking)
    BY <2>1, <2>2
  <2> QED
    BY <1>c, <1>d, <2>2, <2>3 DEF RagIInv, Types, Counted
<1>6. Alone'
  BY <1>a, <1>b, <1>c, <1>d DEF RagIInv, Types, Hit, Collected, Alone, Numbers, Registering
<1> QED
  BY <1>1, <1>2, <1>3, <1>4, <1>5, <1>6 DEF RagIInv

\* Room or not, the thread keeps what it has collected.
LEMMA RoomKeeps ==
  ASSUME RagIInv, NEW t \in Threads, Room(t)
  PROVE  RagIInv'
<1>a. phase = "tools" /\ call[t].at = "room" /\ UNCHANGED <<phase, supersteps, sources>>
  BY DEF Step, Room
<1>b. PICK place \in {"number", "cards"}:
     call' = [call EXCEPT ![t] =
       [at |-> place, todo |-> call[t].todo, ids |-> call[t].ids, number |-> call[t].number,
         before |-> call[t].before]]
  BY AtFields DEF RagIInv, Step, NoCall, Room
<1>c. closure' = closure
  BY DEF Room
<1>d. seen' = seen
  BY DEF Room
<1>1. Types'
  BY <1>a, <1>b, <1>c, <1>d DEF RagIInv, Types, Hit, Collected, Places, Outside, Registering
<1>2. Numbers'
  BY <1>a, <1>b, <1>c, <1>d DEF RagIInv, Types, Hit, Collected, Numbers, Places,
      Outside, Registering
<1>3. Accounted'
  BY <1>a, <1>b, <1>c, <1>d DEF RagIInv, Types, Hit, Collected, Accounted, Numbers, Places,
      Outside, Registering
<1>4. Turns'
  BY <1>a, <1>b, <1>c, <1>d DEF RagIInv, Types, Hit, Collected, Turns, Places, Outside, Registering
<1>5. Counted'
  <2>1. Checking' = Checking
    BY <1>a, <1>b DEF Checking, RagIInv, Types
  <2>2. IsFiniteSet(Checking) /\ Cardinality(Checking) \in Nat 
    BY <1>a, CheckingFinite, FS_CardinalityType DEF Checking
  <2>3. Cardinality(Checking') = Cardinality(Checking)
    BY <2>1, <2>2
  <2> QED
    BY <1>c, <1>d, <2>2, <2>3 DEF RagIInv, Types, Counted
<1>6. Alone'
  BY <1>a, <1>b, <1>c, <1>d DEF RagIInv, Types, Hit, Collected, Alone, Numbers, Registering
<1> QED
  BY <1>1, <1>2, <1>3, <1>4, <1>5, <1>6 DEF RagIInv

\* The number taken is the next one of the ledger as it is now.
LEMMA NumberKeeps ==
  ASSUME RagIInv, NEW t \in Threads, Number(t)
  PROVE  RagIInv'
<1>a. phase = "tools" /\ call[t].at = "number" /\ UNCHANGED <<phase, supersteps, sources>>
  BY DEF Step, Number
<1>b. call' = [call EXCEPT ![t] =
       [at |-> "store", todo |-> call[t].todo, ids |-> call[t].ids,
         number |-> Len(closure.ledger) + 1, before |-> call[t].before]]
  <2>1. At(t, "store") = [at |-> "store", todo |-> call[t].todo, ids |-> call[t].ids,
                          number |-> call[t].number, before |-> call[t].before]
    BY AtFields DEF RagIInv
  <2>2. [[at |-> "store", todo |-> call[t].todo, ids |-> call[t].ids, number |-> call[t].number, before |-> call[t].before]
           EXCEPT !.number = Len(closure.ledger) + 1]
         = [at |-> "store", todo |-> call[t].todo, ids |-> call[t].ids,
            number |-> Len(closure.ledger) + 1, before |-> call[t].before]
    OBVIOUS
  <2> QED
    BY <2>1, <2>2, LedgerSize DEF RagIInv, Step, Number
<1>c. closure' = closure
  BY DEF Number
<1>d. seen' = seen
  BY DEF Number
<1>1. Types'
  BY <1>a, <1>b, <1>c, <1>d DEF RagIInv, Types, Hit, Collected, Places, Outside, Registering
<1>2. Numbers'
  BY <1>a, <1>b, <1>c, <1>d DEF RagIInv, Types, Hit, Collected, Numbers, Places,
      Outside, Registering
<1>3. Accounted'
  BY <1>a, <1>b, <1>c, <1>d DEF RagIInv, Types, Hit, Collected, Accounted, Numbers, Places,
      Outside, Registering
<1>4. Turns'
  BY <1>a, <1>b, <1>c, <1>d DEF RagIInv, Types, Hit, Collected, Turns, Places, Outside, Registering
<1>5. Counted'
  <2>1. Checking' = Checking
    BY <1>a, <1>b DEF Checking, RagIInv, Types
  <2>2. IsFiniteSet(Checking) /\ Cardinality(Checking) \in Nat 
    BY <1>a, CheckingFinite, FS_CardinalityType DEF Checking
  <2>3. Cardinality(Checking') = Cardinality(Checking)
    BY <2>1, <2>2
  <2> QED
    BY <1>c, <1>d, <2>2, <2>3 DEF RagIInv, Types, Counted
<1>6. Alone'
  BY <1>a, <1>b, <1>c, <1>d DEF RagIInv, Types, Hit, Collected, Alone, Numbers, Registering
<1> QED
  BY <1>1, <1>2, <1>3, <1>4, <1>5, <1>6 DEF RagIInv

\* Storing fills the number taken: an old entry, which this thread will show, or
\* the next one; the ledger never shrinks.
LEMMA StoreKeeps ==
  ASSUME RagIInv, NEW t \in Threads, Store(t)
  PROVE  RagIInv'
<1>a. phase = "tools" /\ call[t].at = "store" /\ UNCHANGED <<phase, supersteps, sources>>
  BY DEF Step, Store
<1>b. call' = [call EXCEPT ![t] =
       [at |-> "add", todo |-> call[t].todo, ids |-> call[t].ids, number |-> call[t].number,
         before |-> closure.characters]]
  <2>1. At(t, "add") = [at |-> "add", todo |-> call[t].todo, ids |-> call[t].ids,
                        number |-> call[t].number, before |-> call[t].before]
    BY AtFields DEF RagIInv
  <2>2. call' = [call EXCEPT ![t] = [At(t, "add") EXCEPT !.before = closure.characters]]
    BY DEF Step, Store
  <2>3. \A r, x: r = [at |-> "add", todo |-> call[t].todo, ids |-> call[t].ids,
                      number |-> call[t].number, before |-> call[t].before]
          => [r EXCEPT !.before = x]
             = [at |-> "add", todo |-> call[t].todo, ids |-> call[t].ids,
                number |-> call[t].number, before |-> x]
    OBVIOUS
  <2> QED
    BY <2>1, <2>2, <2>3, Zenon
<1>c. closure' = [toolCalls |-> closure.toolCalls,
                  ledger |-> Put(closure.ledger, call[t].number, Current(t)),
                  evidenceOf |-> Put(closure.evidenceOf, Current(t), call[t].number),
                  characters |-> closure.characters]
  BY DEF RagIInv, Types, Store
<1>d. seen' = seen
  BY DEF Store
<1>e. /\ call[t] \in [at : Places, todo : Hit, ids : Collected, number : Nat, before : Int]
      /\ call[t].number \in 1 .. (Len(closure.ledger) + 1)
      /\ Current(t) \in Chunk
  BY <1>a DEF RagIInv, Types, Numbers, Hit, Current
<1>f. /\ closure'.ledger \in Seq(Chunk)
      /\ Len(closure'.ledger) = IF call[t].number = Len(closure.ledger) + 1
                                THEN Len(closure.ledger) + 1 ELSE Len(closure.ledger)
      /\ DOMAIN closure'.ledger = DOMAIN closure.ledger \cup {call[t].number}
      /\ closure'.ledger[call[t].number] = Current(t)
      /\ \A e \in DOMAIN closure.ledger \ {call[t].number}: closure'.ledger[e] = closure.ledger[e]
  <2>1. closure'.ledger = Put(closure.ledger, call[t].number, Current(t)) /\ closure.ledger \in Seq(Chunk)
    BY <1>c DEF RagIInv, Types
  <2>2. /\ Put(closure.ledger, call[t].number, Current(t)) \in Seq(Chunk)
        /\ Len(Put(closure.ledger, call[t].number, Current(t)))
             = IF call[t].number = Len(closure.ledger) + 1
               THEN Len(closure.ledger) + 1 ELSE Len(closure.ledger)
    BY <1>e, <2>1, PutSeq
  <2>3. /\ DOMAIN Put(closure.ledger, call[t].number, Current(t)) = DOMAIN closure.ledger \cup {call[t].number}
        /\ Put(closure.ledger, call[t].number, Current(t))[call[t].number] = Current(t)
        /\ \A e \in DOMAIN closure.ledger \ {call[t].number}:
               Put(closure.ledger, call[t].number, Current(t))[e] = closure.ledger[e]
    <3> DEFINE d == closure.ledger  k == call[t].number  v == Current(t)
    <3> HIDE DEF d, k, v
    <3>1. /\ DOMAIN Put(d, k, v) = DOMAIN d \cup {k}
          /\ Put(d, k, v)[k] = v
          /\ \A x \in DOMAIN d \ {k}: Put(d, k, v)[x] = d[x]
      BY DEF Put
    <3> QED
      BY <3>1 DEF d, k, v
  <2> QED
    BY <2>1, <2>2, <2>3
<1>g. /\ DOMAIN closure'.evidenceOf = DOMAIN closure.evidenceOf \cup {Current(t)}
      /\ closure'.evidenceOf[Current(t)] = call[t].number
      /\ \A c \in DOMAIN closure.evidenceOf \ {Current(t)}:
             closure'.evidenceOf[c] = closure.evidenceOf[c]
      /\ closure'.evidenceOf \in UNION {[C -> Nat] : C \in SUBSET Chunk}
  <2>1. closure'.evidenceOf = Put(closure.evidenceOf, Current(t), call[t].number)
    BY <1>c
  <2>2. PICK C \in SUBSET Chunk: closure.evidenceOf \in [C -> Nat]
    BY DEF RagIInv, Types
  <2>3. closure'.evidenceOf \in [C \cup {Current(t)} -> Nat]
    BY <1>e, <2>1, <2>2 DEF Put
  <2>4. C \cup {Current(t)} \in SUBSET Chunk
    BY <1>e, <2>2
  <2>5. closure'.evidenceOf \in UNION {[D -> Nat] : D \in SUBSET Chunk}
    BY <2>3, <2>4
  <2>6. /\ DOMAIN Put(closure.evidenceOf, Current(t), call[t].number) = DOMAIN closure.evidenceOf \cup {Current(t)}
        /\ Put(closure.evidenceOf, Current(t), call[t].number)[Current(t)] = call[t].number
        /\ \A c \in DOMAIN closure.evidenceOf \ {Current(t)}:
               Put(closure.evidenceOf, Current(t), call[t].number)[c] = closure.evidenceOf[c]
    <3> DEFINE d == closure.evidenceOf  k == Current(t)  v == call[t].number
    <3> HIDE DEF d, k, v
    <3>1. /\ DOMAIN Put(d, k, v) = DOMAIN d \cup {k}
          /\ Put(d, k, v)[k] = v
          /\ \A x \in DOMAIN d \ {k}: Put(d, k, v)[x] = d[x]
      BY DEF Put
    <3> QED
      BY <3>1 DEF d, k, v
  <2> QED
    BY <2>1, <2>5, <2>6
<1>h. /\ DOMAIN closure.ledger \subseteq DOMAIN closure'.ledger
      /\ call[t].number \in DOMAIN closure'.ledger
  BY <1>f
<1>1. Types'
  <2>1. call' \in [Threads -> [at : Places, todo : Hit, ids : Collected, number : Nat, before : Int]]
    <3>1. "add" \in Places /\ closure.characters \in Int
      BY DEF Places, Registering, RagIInv, Types
    <3> QED
      BY <1>b, <1>e, <3>1, CallTypes DEF RagIInv
  <2>2. closure' \in [toolCalls : Nat, ledger : Seq(Chunk),
                      evidenceOf : UNION {[C -> Nat] : C \in SUBSET Chunk}, characters : Int]
    <3> DEFINE E == UNION {[C -> Nat] : C \in SUBSET Chunk}
               L == Seq(Chunk)
    <3>1. closure \in [toolCalls : Nat, ledger : L, evidenceOf : E, characters : Int]
      BY DEF RagIInv, Types
    <3>2. closure'.ledger \in L /\ closure'.evidenceOf \in E
      BY <1>f, <1>g
    <3> HIDE DEF E, L
    <3>3. closure' \in [toolCalls : Nat, ledger : L, evidenceOf : E, characters : Int]
      BY <1>c, <3>1, <3>2
    <3> QED
      BY <3>3 DEF E, L
  <2> QED
    BY <1>d, <2>1, <2>2 DEF RagIInv, Types
<1>i. Len(closure'.ledger) \in Nat /\ DOMAIN closure'.ledger = 1 .. Len(closure'.ledger)
      /\ Len(closure.ledger) \in Nat /\ Len(closure'.ledger) >= Len(closure.ledger)
  BY <1>f DEF RagIInv, Types
<1>j. /\ call'[t].at = "add" /\ call'[t].todo = call[t].todo /\ call'[t].ids = call[t].ids
      /\ call'[t].number = call[t].number
      /\ \A u \in Threads \ {t}: call'[u] = call[u]
  BY <1>b DEF RagIInv, Types
<1>2. Numbers'
  <2>1. \A c \in DOMAIN closure'.evidenceOf: closure'.evidenceOf[c] \in DOMAIN closure'.ledger
    BY <1>g, <1>h DEF RagIInv, Numbers
  <2>2. ASSUME NEW u \in Threads
        PROVE  /\ call'[u].ids \subseteq DOMAIN closure'.ledger
               /\ call'[u].at \in {"room", "number", "store", "add"} => call'[u].todo # <<>>
               /\ call'[u].at = "store" => call'[u].number \in 1 .. (Len(closure'.ledger) + 1)
               /\ call'[u].at = "add" => call'[u].number \in DOMAIN closure'.ledger
               /\ call'[u].at \in Outside => call'[u].ids = {}
    <3>1. CASE u = t
      BY <1>a, <1>h, <1>j, <3>1 DEF RagIInv, Numbers, Outside
    <3>2. CASE u # t
      BY <1>h, <1>i, <1>j, <3>2 DEF RagIInv, Types, Numbers
    <3> QED
      BY <3>1, <3>2
  <2> QED
    BY <2>1, <2>2 DEF Numbers
<1>3. Accounted'
  <2>1. ASSUME NEW e \in DOMAIN closure'.ledger
        PROVE  \/ <<e, closure'.ledger[e]>> \in seen'.shown
               \/ \E u \in Threads: e \in call'[u].ids \/ (call'[u].at = "add" /\ call'[u].number = e)
    <3>1. CASE e = call[t].number
      BY <1>j, <3>1
    <3>2. CASE e # call[t].number
      <4>1. e \in DOMAIN closure.ledger /\ closure'.ledger[e] = closure.ledger[e]
        BY <1>f, <3>2
      <4>2. \A u \in Threads: u # t \/ call[u].at # "add"
        BY <1>a
      <4> QED
        BY <1>d, <1>j, <4>1, <4>2 DEF RagIInv, Accounted
    <3> QED
      BY <3>1, <3>2
  <2> QED
    BY <2>1 DEF Accounted
<1>4. Turns'
  BY <1>a, <1>b, <1>c, <1>d DEF RagIInv, Types, Hit, Collected, Turns, Places, Outside, Registering
<1>5. Counted'
  <2>1. Checking' = Checking
    BY <1>a, <1>b DEF Checking, RagIInv, Types
  <2>2. IsFiniteSet(Checking) /\ Cardinality(Checking) \in Nat 
    BY <1>a, CheckingFinite, FS_CardinalityType DEF Checking
  <2>3. Cardinality(Checking') = Cardinality(Checking)
    BY <2>1, <2>2
  <2> QED
    BY <1>c, <1>d, <2>2, <2>3 DEF RagIInv, Types, Counted
<1>6. Alone'
  <2> SUFFICES ASSUME ~seen.raced
               PROVE  Alone'
    BY <1>d DEF Alone
  <2>1. \A u \in Threads: call[u].at \in Registering => u = t
    BY <1>a DEF RagIInv, Alone, Registering
  <2>2. call[t].number = Len(closure.ledger) + 1
    BY <1>a DEF RagIInv, Alone
  <2>3. \A u, v \in Threads: call'[u].at \in Registering /\ call'[v].at \in Registering => u = v
    BY <1>j, <2>1
  <2>4. \A u \in Threads: call'[u].at # "store"
    BY <1>j, <2>1 DEF Registering
  <2>5. ASSUME NEW s \in seen'.shown
        PROVE  s[1] \in DOMAIN closure'.ledger /\ closure'.ledger[s[1]] = s[2]
    <3>1. s[1] \in DOMAIN closure.ledger /\ closure.ledger[s[1]] = s[2]
      BY <1>d DEF RagIInv, Alone
    <3>2. s[1] # call[t].number
      BY <1>i, <2>2, <3>1 DEF RagIInv, Types
    <3> QED
      BY <1>f, <3>1, <3>2
  <2> QED
    BY <2>3, <2>4, <2>5 DEF Alone
<1> QED
  BY <1>1, <1>2, <1>3, <1>4, <1>5, <1>6 DEF RagIInv

\* The number stored joins the numbers to be shown.
LEMMA AddKeeps ==
  ASSUME RagIInv, NEW t \in Threads, Add(t)
  PROVE  RagIInv'
<1>a. phase = "tools" /\ call[t].at = "add" /\ UNCHANGED <<phase, supersteps, sources>>
  BY DEF Step, Add, Shown
<1>b. call' = [call EXCEPT ![t] =
       [at |-> "look", todo |-> Tail(call[t].todo), ids |-> call[t].ids \cup {call[t].number},
         number |-> call[t].number, before |-> call[t].before]]
  BY ShownFields DEF RagIInv, Step, Add
<1>c. closure' = [toolCalls |-> closure.toolCalls, ledger |-> closure.ledger,
                  evidenceOf |-> closure.evidenceOf,
                  characters |-> call[t].before + Size[Current(t)]]
  BY DEF RagIInv, Types, Add, Shown
<1>d. seen' = seen
  BY DEF Add, Shown
<1>1. Types'
  <2>1. call[t] \in [at : Places, todo : Hit, ids : Collected, number : Nat, before : Int]
    BY DEF RagIInv, Types
  <2>2. Tail(call[t].todo) \in Hit /\ Current(t) \in Chunk
    BY <1>a, <2>1 DEF RagIInv, Numbers, Hit, Current
  <2>3. call[t].ids \cup {call[t].number} \in Collected
    BY <2>1 DEF Collected
  <2>4. call' \in [Threads -> [at : Places, todo : Hit, ids : Collected, number : Nat, before : Int]]
    <3>1. "look" \in Places /\ call[t].number \in Nat /\ call[t].before \in Int
      BY <2>1 DEF Places, Registering
    <3> QED
      BY <1>b, <2>2, <2>3, <3>1, CallTypes DEF RagIInv
  <2>5. call[t].before + Size[Current(t)] \in Int
    BY <2>1, <2>2, RagAnswerAssumption
  <2>6. closure' \in [toolCalls : Nat, ledger : Seq(Chunk),
                      evidenceOf : UNION {[C -> Nat] : C \in SUBSET Chunk}, characters : Int]
    <3> DEFINE E == UNION {[C -> Nat] : C \in SUBSET Chunk}
    <3>1. closure \in [toolCalls : Nat, ledger : Seq(Chunk), evidenceOf : E, characters : Int]
      BY DEF RagIInv, Types
    <3> HIDE DEF E
    <3>2. closure' \in [toolCalls : Nat, ledger : Seq(Chunk), evidenceOf : E, characters : Int]
      BY <1>c, <2>5, <3>1
    <3> QED
      BY <3>2 DEF E
  <2> QED
    BY <1>d, <2>4, <2>6 DEF RagIInv, Types
<1>2. Numbers'
  BY <1>a, <1>b, <1>c, <1>d DEF RagIInv, Types, Hit, Collected, Numbers, Places,
      Outside, Registering
<1>3. Accounted'
  BY <1>a, <1>b, <1>c, <1>d DEF RagIInv, Types, Hit, Collected, Accounted, Numbers, Places,
      Outside, Registering
<1>4. Turns'
  BY <1>a, <1>b, <1>c, <1>d DEF RagIInv, Types, Hit, Collected, Turns, Places, Outside, Registering
<1>5. Counted'
  <2>1. Checking' = Checking
    BY <1>a, <1>b DEF Checking, RagIInv, Types
  <2>2. IsFiniteSet(Checking) /\ Cardinality(Checking) \in Nat 
    BY <1>a, CheckingFinite, FS_CardinalityType DEF Checking
  <2>3. Cardinality(Checking') = Cardinality(Checking)
    BY <2>1, <2>2
  <2> QED
    BY <1>c, <1>d, <2>2, <2>3 DEF RagIInv, Types, Counted
<1>6. Alone'
  BY <1>a, <1>b, <1>c, <1>d DEF RagIInv, Types, Hit, Collected, Alone, Numbers, Registering
<1> QED
  BY <1>1, <1>2, <1>3, <1>4, <1>5, <1>6 DEF RagIInv

\* Cards are shown as the ledger has them, so nothing is unaccounted for.
LEMMA CardsKeeps ==
  ASSUME RagIInv, NEW t \in Threads, Cards(t)
  PROVE  RagIInv'
<1>a. phase = "tools" /\ call[t].at = "cards" /\ UNCHANGED <<phase, supersteps, sources>>
  BY DEF Step, Cards
<1>b. call' = [call EXCEPT ![t] =
       [at |-> "idle", todo |-> <<>>, ids |-> {}, number |-> 0, before |-> 0]]
  BY AtFields DEF RagIInv, Step, NoCall, Cards
<1>c. closure' = closure
  BY DEF Cards
<1>d. seen' = [served |-> seen.served,
               shown |-> seen.shown \cup {<<e, closure.ledger[e]>> : e \in call[t].ids},
               raced |-> seen.raced, failed |-> seen.failed]
  BY DEF RagIInv, Types, Cards
<1>1. Types'
  <2>1. call' \in [Threads -> [at : Places, todo : Hit, ids : Collected, number : Nat, before : Int]]
    <3>1. "idle" \in Places /\ <<>> \in Hit /\ {} \in Collected /\ 0 \in Nat /\ 0 \in Int
      BY DEF Places, Hit, Collected
    <3> QED
      BY <1>b, <3>1, CallTypes DEF RagIInv
  <2>2. \A e \in call[t].ids: e \in Nat /\ closure.ledger[e] \in Chunk
    BY DEF RagIInv, Types, Numbers
  <2>3. seen' \in [served : Nat, shown : SUBSET (Nat \X Chunk), raced : BOOLEAN, failed : BOOLEAN]
    <3>1. seen.shown \cup {<<e, closure.ledger[e]>> : e \in call[t].ids} \in SUBSET (Nat \X Chunk)
      BY <2>2 DEF RagIInv, Types
    <3> QED
      BY <1>d, <3>1 DEF RagIInv, Types
  <2> QED
    BY <1>c, <2>1, <2>3 DEF RagIInv, Types
<1>2. Numbers'
  BY <1>a, <1>b, <1>c, <1>d DEF RagIInv, Types, Hit, Collected, Numbers, Places,
      Outside, Registering
<1>3. Accounted'
  BY <1>a, <1>b, <1>c, <1>d DEF RagIInv, Types, Hit, Collected, Accounted, Numbers, Places,
      Outside, Registering
<1>4. Turns'
  BY <1>a, <1>b, <1>c, <1>d DEF RagIInv, Types, Hit, Collected, Turns, Places, Outside, Registering
<1>5. Counted'
  <2>1. Checking' = Checking
    BY <1>a, <1>b DEF Checking, RagIInv, Types
  <2>2. IsFiniteSet(Checking) /\ Cardinality(Checking) \in Nat 
    BY <1>a, CheckingFinite, FS_CardinalityType DEF Checking
  <2>3. Cardinality(Checking') = Cardinality(Checking)
    BY <2>1, <2>2
  <2> QED
    BY <1>c, <1>d, <2>2, <2>3 DEF RagIInv, Types, Counted
<1>6. Alone'
  BY <1>a, <1>b, <1>c, <1>d DEF RagIInv, Types, Hit, Collected, Alone, Numbers, Registering
<1> QED
  BY <1>1, <1>2, <1>3, <1>4, <1>5, <1>6 DEF RagIInv

-----------------------------------------------------------------------------
(* The graph, and the rest of the system                                   *)

\* A thread without a call, and one that enters.
LEMMA NoCallFields ==
  /\ NoCall = [at |-> "idle", todo |-> <<>>, ids |-> {}, number |-> 0, before |-> 0]
  /\ [NoCall EXCEPT !.at = "enter"] = [at |-> "enter", todo |-> <<>>, ids |-> {}, number |-> 0, before |-> 0]
<1>1. NoCall = [at |-> "idle", todo |-> <<>>, ids |-> {}, number |-> 0, before |-> 0]
  BY DEF NoCall
<1>2. \A b, c: [[at |-> "idle", todo |-> b, ids |-> c, number |-> 0, before |-> 0] EXCEPT !.at = "enter"]
               = [at |-> "enter", todo |-> b, ids |-> c, number |-> 0, before |-> 0]
  OBVIOUS
<1>3. [NoCall EXCEPT !.at = "enter"] = [at |-> "enter", todo |-> <<>>, ids |-> {}, number |-> 0, before |-> 0]
  BY <1>1, <1>2, Zenon
<1> QED
  BY <1>1, <1>3

\* The calls of a message start with nothing collected.
LEMMA FreshCall ==
  ASSUME NEW place \in Places, NEW r,
         r = [at |-> place, todo |-> <<>>, ids |-> {}, number |-> 0, before |-> 0]
  PROVE  /\ r \in [at : Places, todo : Hit, ids : Collected, number : Nat, before : Int]
         /\ r.at = place
         /\ r.ids = {}
<1>1. <<>> \in Hit /\ {} \in Collected /\ 0 \in Nat /\ 0 \in Int
  BY DEF Hit, Collected
<1> QED
  BY <1>1

\* Nobody waiting counts zero.
LEMMA NoCheckingCounts ==
  ASSUME Checking = {}
  PROVE  Cardinality(Checking) = 0
BY FS_EmptySet

\* A new question satisfies the invariant.
LEMMA InitRagIInv ==
  RagInit => RagIInv
<1> SUFFICES ASSUME RagInit
             PROVE  RagIInv
  OBVIOUS
<1>1. /\ phase = "none" /\ call = [t \in Threads |-> NoCall]
      /\ closure = [toolCalls |-> 0, ledger |-> <<>>, evidenceOf |-> <<>>, characters |-> 0]
      /\ seen = [served |-> 0, shown |-> {}, raced |-> FALSE, failed |-> FALSE]
  BY DEF RagInit, NewClosure, NothingSeen
<1>2. /\ NoCall \in [at : Places, todo : Hit, ids : Collected, number : Nat, before : Int]
      /\ NoCall.at = "idle" /\ NoCall.ids = {}
  <2>1. "idle" \in Places
    BY DEF Places
  <2> QED
    BY <2>1, NoCallFields, FreshCall
<1>3. \A t \in Threads: call[t] = NoCall
  BY <1>1
<1>4. Types
  <2>1. call \in [Threads -> [at : Places, todo : Hit, ids : Collected, number : Nat, before : Int]]
    BY <1>1, <1>2
  <2>2. closure \in [toolCalls : Nat, ledger : Seq(Chunk),
                     evidenceOf : UNION {[C -> Nat] : C \in SUBSET Chunk}, characters : Int]
    <3> DEFINE E == UNION {[C -> Nat] : C \in SUBSET Chunk}
               L == Seq(Chunk)
               nothing == <<>>
    <3>1. nothing \in L
      OBVIOUS
    <3>2. nothing \in [{} -> Nat] /\ {} \in SUBSET Chunk
      OBVIOUS
    <3>3. nothing \in E
      BY <3>2
    <3>4. closure = [toolCalls |-> 0, ledger |-> nothing, evidenceOf |-> nothing, characters |-> 0]
      BY <1>1
    <3> HIDE DEF E, L, nothing
    <3>5. closure \in [toolCalls : Nat, ledger : L, evidenceOf : E, characters : Int]
      BY <3>1, <3>3, <3>4
    <3> QED
      BY <3>5 DEF E, L
  <2>3. seen \in [served : Nat, shown : SUBSET (Nat \X Chunk), raced : BOOLEAN, failed : BOOLEAN]
    BY <1>1
  <2> QED
    BY <2>1, <2>2, <2>3 DEF Types
<1>5. Numbers
  BY <1>1, <1>2, <1>3 DEF Numbers
<1>6. Accounted
  BY <1>1 DEF Accounted
<1>7. Turns
  BY <1>1, <1>2, <1>3 DEF Turns
<1>8. Counted
  <2>1. Checking = {}
    BY <1>2, <1>3 DEF Checking
  <2> QED
    BY <1>1, <2>1, NoCheckingCounts, RagAnswerAssumption DEF Counted
<1>9. Alone
  BY <1>1, <1>2, <1>3 DEF Alone, Registering
<1> QED
  BY <1>4, <1>5, <1>6, <1>7, <1>8, <1>9 DEF RagIInv

\* A step of the graph that changes no call disturbs Turns at most.
LEMMA TurnKeeps ==
  ASSUME RagIInv, UNCHANGED <<closure, call>>, Turns',
         seen' = seen \/ seen' = [seen EXCEPT !.failed = TRUE]
  PROVE  RagIInv'
<1>1. Types'
  BY DEF RagIInv, Types
<1>2. seen'.served = seen.served /\ seen'.shown = seen.shown /\ seen'.raced = seen.raced
  BY DEF RagIInv, Types
<1>3. Numbers' /\ Accounted' /\ Counted' /\ Alone'
  BY <1>2 DEF RagIInv, Types, Numbers, Accounted, Counted, Checking, Alone
<1> QED
  BY <1>1, <1>3 DEF RagIInv

\* While the model thinks, no thread carries anything.
LEMMA ModelHasTheFloor ==
  ASSUME RagIInv, phase = "model"
  PROVE  /\ \A t \in Threads: call[t].at \in {"idle", "raised"} /\ call[t].ids = {}
         /\ \A e \in DOMAIN closure.ledger: <<e, closure.ledger[e]>> \in seen.shown
<1>1. \A t \in Threads: call[t].at \in {"idle", "raised"} /\ call[t].ids = {}
  BY DEF RagIInv, Turns, Numbers, Outside
<1> QED
  BY <1>1 DEF RagIInv, Accounted

\* New calls start only when all earlier ones have ended.
LEMMA ModelCallsKeeps ==
  ASSUME RagIInv, ModelCalls
  PROVE  RagIInv'
<1>1. /\ phase = "model" /\ phase' = "dispatch" /\ UNCHANGED <<closure, sources, seen>>
  BY DEF ModelCalls, Turn
<1>2. PICK S \in (SUBSET Threads) \ {{}}:
          call' = [t \in Threads |-> IF t \in S THEN [NoCall EXCEPT !.at = "enter"] ELSE NoCall]
  BY DEF ModelCalls
<1>3. \A t \in Threads: /\ call'[t] \in [at : Places, todo : Hit, ids : Collected, number : Nat, before : Int]
                        /\ call'[t].at \in {"idle", "enter"}
                        /\ call'[t].ids = {}
  <2>1. "idle" \in Places /\ "enter" \in Places
    BY DEF Places
  <2>2. /\ NoCall \in [at : Places, todo : Hit, ids : Collected, number : Nat, before : Int]
        /\ NoCall.at = "idle" /\ NoCall.ids = {}
    BY <2>1, NoCallFields, FreshCall
  <2> DEFINE entered == [NoCall EXCEPT !.at = "enter"]
  <2>3. /\ entered \in [at : Places, todo : Hit, ids : Collected, number : Nat, before : Int]
        /\ entered.at = "enter" /\ entered.ids = {}
    <3>1. entered = [at |-> "enter", todo |-> <<>>, ids |-> {}, number |-> 0, before |-> 0]
      BY NoCallFields
    <3> HIDE DEF entered
    <3> QED
      BY <2>1, <3>1, FreshCall
  <2> HIDE DEF entered
  <2>4. call' = [t \in Threads |-> IF t \in S THEN entered ELSE NoCall]
    BY <1>2 DEF entered
  <2> QED
    BY <2>2, <2>3, <2>4
<1>4. Types'
  <2>1. call' = [t \in Threads |-> call'[t]]
    BY <1>2
  <2> QED
    BY <1>1, <1>3, <2>1 DEF RagIInv, Types
<1>5. Numbers'
  BY <1>1, <1>3 DEF RagIInv, Numbers
<1>6. Accounted'
  BY <1>1, ModelHasTheFloor DEF Accounted
<1>7. Turns'
  BY <1>1, <1>3 DEF Turns
<1>8. Counted'
  <2>1. Checking' = {}
    BY <1>3 DEF Checking
  <2>2. Cardinality(Checking') = 0 /\ Cardinality(Checking) \in Nat
    BY <2>1, FS_EmptySet, CheckingFinite, FS_CardinalityType
  <2> QED
    BY <1>1, <2>2 DEF RagIInv, Types, Counted
<1>9. Alone'
  BY <1>1, <1>3 DEF RagIInv, Alone, Registering
<1> QED
  BY <1>4, <1>5, <1>6, <1>7, <1>8, <1>9 DEF RagIInv

\* An answer that passes cites numbers whose cards have all been shown.
LEMMA ModelAnswersKeeps ==
  ASSUME RagIInv, ModelAnswers
  PROVE  RagIInv'
<1>1. PICK claims \in SUBSET ((SUBSET (1 .. (MaxEvidence + 1))) \ {{}}): Answer(claims)
  BY DEF ModelAnswers
<1>2. /\ phase = "model" /\ UNCHANGED <<closure, call, seen>>
      /\ phase' = IF Supported(claims) THEN "answered" ELSE "insufficient"
      /\ Supported(claims) => sources' = SourcesOf(claims)
  BY <1>1 DEF Answer, Turn
<1>3. Supported(claims) => SourcesOf(claims) # {} /\ SourcesOf(claims) \subseteq seen.shown
  <2> SUFFICES ASSUME Supported(claims)
               PROVE  SourcesOf(claims) # {} /\ SourcesOf(claims) \subseteq seen.shown
    OBVIOUS
  <2>1. \A e \in UNION claims: e \in DOMAIN closure.ledger
    BY DEF Supported
  <2>2. UNION claims # {}
    <3>1. PICK c \in claims: c # {}
      BY DEF Supported
    <3> QED
      BY <3>1
  <2>3. \A e \in UNION claims: <<e, closure.ledger[e]>> \in seen.shown
    BY <1>2, <2>1, ModelHasTheFloor
  <2>4. SourcesOf(claims) \subseteq seen.shown
    BY <2>3, Zenon DEF SourcesOf
  <2>5. SourcesOf(claims) # {}
    <3>1. PICK e \in UNION claims: TRUE
      BY <2>2
    <3>2. <<e, closure.ledger[e]>> \in SourcesOf(claims)
      BY <3>1, Zenon DEF SourcesOf
    <3> QED
      BY <3>2
  <2> QED
    BY <2>4, <2>5
<1>4. Turns'
  BY <1>2, <1>3 DEF Turns
<1> QED
  BY <1>2, <1>4, TurnKeeps

\* The other steps of the graph only pass the turn.
LEMMA GraphKeeps ==
  ASSUME RagIInv,
         AskFocused \/ Dispatch \/ Join \/ Reformulate \/ NoAnswer \/ ModelFails
  PROVE  RagIInv'
<1>1. /\ UNCHANGED <<closure, call, sources>>
      /\ seen' = seen \/ seen' = [seen EXCEPT !.failed = TRUE]
  BY DEF AskFocused, Dispatch, Join, Reformulate, NoAnswer, ModelFails
<1>2. Turns'
  <2>1. CASE AskFocused
    BY <1>1, <2>1 DEF AskFocused, RagIInv, Turns
  <2>2. CASE Dispatch
    BY <1>1, <2>2 DEF Dispatch, Turn, Turns
  <2>3. CASE Join
    BY <1>1, <2>3 DEF Join, Turns
  <2>4. CASE Reformulate
    BY <1>1, <2>4 DEF Reformulate, Turn, RagIInv, Turns
  <2>5. CASE NoAnswer \/ ModelFails
    BY <1>1, <2>5 DEF NoAnswer, LimitReached, ModelFails, Turn, Turns
  <2> QED
    BY <2>1, <2>2, <2>3, <2>4, <2>5
<1> QED
  BY <1>1, <1>2, TurnKeeps

\* The three branches of the loop of register.
LEMMA LookKeeps ==
  ASSUME RagIInv, NEW t \in Threads, Look(t)
  PROVE  RagIInv'
<1>1. CASE call[t].todo = <<>>
  BY <1>1, LookEndKeeps
<1>2. CASE call[t].todo # <<>> /\ Current(t) \in DOMAIN closure.evidenceOf
  BY <1>2, LookKnownKeeps
<1>3. CASE call[t].todo # <<>> /\ Current(t) \notin DOMAIN closure.evidenceOf
  BY <1>3, LookNewKeeps
<1> QED
  BY <1>1, <1>2, <1>3

\* Every step of a tool.
LEMMA ToolKeeps ==
  ASSUME RagIInv, NEW t \in Threads, Tool(t)
  PROVE  RagIInv'
<1>1. CASE Enter(t) \/ Refuse(t) \/ Serve(t)
  BY <1>1, EnterKeeps, RefuseKeeps, ServeKeeps
<1>2. CASE Search(t) \/ SearchFails(t)
  BY <1>2, SearchKeeps, SearchFailsKeeps
<1>3. CASE Look(t) \/ Room(t) \/ Number(t)
  BY <1>3, LookKeeps, RoomKeeps, NumberKeeps
<1>4. CASE Store(t) \/ Add(t) \/ Cards(t)
  BY <1>4, StoreKeeps, AddKeeps, CardsKeeps
<1> QED
  BY <1>1, <1>2, <1>3, <1>4 DEF Tool

\* Every step of the answerer.
LEMMA StepKeepsRagIInv ==
  RagIInv /\ [Next]_vars => RagIInv'
<1> SUFFICES ASSUME RagIInv, [Next]_vars
             PROVE  RagIInv'
  OBVIOUS
<1>1. CASE UNCHANGED ragVars
  <2>1. UNCHANGED <<closure, call, seen>> /\ Turns'
    BY <1>1 DEF ragVars, RagIInv, Turns
  <2> QED
    BY <2>1, TurnKeeps
<1>2. CASE Ask \/ Corpus \/ UNCHANGED vars
  BY <1>1, <1>2 DEF Ask, Corpus, vars
<1>3. CASE Route
  <2>1. AskFocused \/ UNCHANGED ragVars
    BY <1>3 DEF Route
  <2> QED
    BY <1>1, <2>1, GraphKeeps
<1>4. CASE Focused
  <2>1. CASE ModelCalls \/ ModelAnswers
    BY <2>1, ModelCallsKeeps, ModelAnswersKeeps
  <2>2. CASE Dispatch \/ Join \/ Reformulate \/ NoAnswer \/ ModelFails
    BY <2>2, GraphKeeps
  <2>3. CASE \E t \in Threads: Tool(t)
    BY <2>3, ToolKeeps
  <2> QED
    BY <1>4, <2>1, <2>2, <2>3 DEF Focused, RagNext
<1> QED
  BY <1>2, <1>3, <1>4 DEF Next

-----------------------------------------------------------------------------
(* Theorems                                                                *)

\* RagIInv is an invariant of the answerer: of agent.py's graph together with
\* any number of tool threads that share the closure of one question.
THEOREM RagInvariant == Spec => []RagIInv
<1>1. Init => RagIInv
  BY InitRagIInv DEF Init
<1> QED
  BY <1>1, StepKeepsRagIInv, PTL DEF Spec

\* The catalog is never searched more often than max_tool_calls allows: each
\* call is counted before the counter is compared, whatever runs in between.
THEOREM ToolBudgetIsKept == Spec => []ToolBudgetKept
<1>1. RagIInv => ToolBudgetKept
  BY DEF RagIInv, Counted, ToolBudgetKept
<1> QED
  BY <1>1, RagInvariant, PTL

\* Evidence numbers have no gaps, and no card can meet a number without a chunk,
\* also when two threads write the same entry of the ledger.
THEOREM CardsAreAlwaysInLedger == Spec => []CardsAreInLedger
<1>1. RagIInv => CardsAreInLedger
  BY LedgerSize DEF RagIInv, Numbers, CardsAreInLedger
<1> QED
  BY <1>1, RagInvariant, PTL

\* The sources of an answer that validate_answer lets through are cards that the
\* model has seen, with the chunk it saw under that number.
THEOREM AnswersCiteEvidence == Spec => []AnswerCitesEvidence
<1>1. RagIInv => AnswerCitesEvidence
  BY DEF RagIInv, Turns, AnswerCitesEvidence
<1> QED
  BY <1>1, RagInvariant, PTL

\* As long as no two threads are in register at once, a number that was shown
\* to the model never comes to stand for another chunk.
THEOREM NumbersStayStable == Spec => []NumbersAreStable
<1>1. RagIInv => NumbersAreStable
  BY DEF RagIInv, Alone, NumbersAreStable
<1> QED
  BY <1>1, RagInvariant, PTL

-----------------------------------------------------------------------------
(* The budget of evidence *)

\* The characters of the ledger, and of one chunk more.
LEMMA TotalFacts ==
  ASSUME NEW S \in SUBSET Chunk, IsFiniteSet(S)
  PROVE  /\ Total(S) \in Nat
         /\ \A c \in Chunk \ S : Total(S \cup {c}) = Total(S) + Size[c]
<1>1. \A T : Total(T) = NewRows!Sum(Size, T)
  BY DEF Total, MapThenSumSet, MapThenFoldSet, NewRows!Sum, NewRows!MapThenSumSet, NewRows!MapThenFoldSet
<1>2. NewRows!IsFiniteSet(S) /\ \A c \in S : Size[c] \in Nat
  BY RagAnswerAssumption DEF IsFiniteSet, NewRows!IsFiniteSet
<1>3. NewRows!Sum(Size, S) \in Nat
  BY <1>2, NewRows!SumNat
<1>4. ASSUME NEW c \in Chunk \ S PROVE NewRows!Sum(Size, S \cup {c}) = NewRows!Sum(Size, S) + Size[c]
  <2>1. Size[c] \in Nat
    BY RagAnswerAssumption
  <2> QED BY <1>2, <2>1, NewRows!SumAdd
<1> QED BY <1>1, <1>3, <1>4

\* An empty ledger has no characters.
LEMMA TotalEmpty ==
  Total({}) = 0
<1>1. Total({}) = NewRows!Sum(Size, {})
  BY DEF Total, MapThenSumSet, MapThenFoldSet, NewRows!Sum, NewRows!MapThenSumSet, NewRows!MapThenFoldSet
<1>2. NewRows!Sum(Size, {}) = 0
  BY NewRows!SumEmpty
<1> QED BY <1>1, <1>2

\* What the ledger holds is a finite set of chunks.
LEMMA LedgerRange ==
  ASSUME Types
  PROVE  Range(closure.ledger) \in SUBSET Chunk /\ IsFiniteSet(Range(closure.ledger)) /\ Kept \in Nat
<1>1. Range(closure.ledger) = {closure.ledger[e] : e \in 1 .. Len(closure.ledger)}
      /\ Len(closure.ledger) \in Nat /\ Range(closure.ledger) \in SUBSET Chunk
  BY DEF Types, Range
<1>2. IsFiniteSet(1 .. Len(closure.ledger))
  BY <1>1, FS_Interval
<1>3. closure.ledger \in Surjection(1 .. Len(closure.ledger), Range(closure.ledger))
  BY <1>1 DEF Surjection, Types
<1>4. IsFiniteSet(Range(closure.ledger))
  BY <1>2, <1>3, FS_Surjection
<1> QED BY <1>1, <1>4, TotalFacts DEF Kept

\* The committed threads can be counted.
LEMMA CommittedCount ==
  /\ IsFiniteSet(Committed)
  /\ Cardinality(Committed) \in Nat /\ Cardinality(Threads) \in Nat
  /\ Cardinality(Committed) <= Cardinality(Threads)
<1>1. Committed \subseteq Threads
  BY DEF Committed
<1> QED BY <1>1, RagAnswerAssumption, FS_Subset, FS_CardinalityType

\* A step of thread t replaces its call and no other.
LEMMA StepMoves ==
  ASSUME Types, NEW t \in Threads, NEW from, NEW next, Step(t, from, next)
  PROVE  /\ phase = "tools" /\ phase' = "tools" /\ call[t].at = from /\ call'[t] = next
         /\ \A u \in Threads : u # t => call'[u] = call[u]
<1>1. call' = [call EXCEPT ![t] = next] /\ call[t].at = from /\ phase = "tools" /\ phase' = phase
  BY DEF Step
<1>2. DOMAIN call = Threads
  BY DEF Types
<1> QED BY <1>1, <1>2

\* A step that leaves the ledger alone, after which a thread is where it was or
\* about nothing that is not in the ledger.
LEMMA QuietKeeps ==
  ASSUME RagIInv, BudgetInv, Resting',
         closure'.ledger = closure.ledger, closure'.evidenceOf = closure.evidenceOf,
         closure'.characters = closure.characters,
         seen.raced => seen'.raced,
         \A u \in Threads : \/ call'[u] = call[u]
                            \/ /\ call'[u].at \notin {"room", "number", "store", "add"}
                               /\ call[u].at # "add"
  PROVE  BudgetInv'
<1>1. Evidence' = Evidence /\ Kept' = Kept
  BY DEF Evidence, Kept
<1>2. Reserved'
  <2>1. Committed' \in SUBSET Committed
    BY DEF Committed
  <2>2. Cardinality(Committed') <= Cardinality(Committed) /\ Cardinality(Committed') \in Nat
    BY <2>1, CommittedCount, FS_Subset, FS_CardinalityType
  <2>3. Evidence \in Nat /\ MaxEvidence \in Nat
    BY LedgerSize, RagAnswerAssumption DEF RagIInv, Types
  <2>4. Evidence + Cardinality(Committed) < MaxEvidence + Cardinality(Threads)
    BY DEF BudgetInv, Reserved
  <2>5. Evidence + Cardinality(Committed') < MaxEvidence + Cardinality(Threads)
    BY <2>2, <2>3, <2>4, CommittedCount
  <2> QED BY <1>1, <2>5 DEF Reserved
<1>3. Exact'
  <2> SUFFICES ASSUME ~seen'.raced PROVE Exact'
    BY DEF Exact
  <2>1. Exact /\ ~seen.raced
    BY DEF BudgetInv
  <2>2. ASSUME NEW u \in Threads
        PROVE  /\ call'[u].at \in {"room", "number", "store"} => (Current(u) \notin DOMAIN closure.evidenceOf)'
               /\ call'[u].at \in {"number", "store"} => HasRoom(Current(u))'
               /\ call'[u].at = "add" => (call[u].before = closure.characters
                                          /\ Kept = closure.characters + Size[Current(u)])'
    <3>1. CASE call'[u].at \in {"room", "number", "store", "add"}
      <4>1. call'[u] = call[u]
        BY <3>1
      <4>2. Current(u)' = Current(u)
        BY <4>1 DEF Current
      <4>3. HasRoom(Current(u))' <=> HasRoom(Current(u))
        BY <1>1, <4>2 DEF HasRoom
      <4> QED BY <1>1, <2>1, <4>1, <4>2, <4>3 DEF Exact
    <3>2. CASE call'[u].at \notin {"room", "number", "store", "add"}
      BY <3>2
    <3> QED BY <3>1, <3>2
  <2>3. (\A u \in Threads : call'[u].at # "add") => (\A u \in Threads : call[u].at # "add")
    OBVIOUS
  <2> QED BY <1>1, <2>1, <2>2, <2>3 DEF Exact
<1> QED BY <1>2, <1>3 DEF BudgetInv

\* The steps of a tool that give out nothing new.
LEMMA QuietTool ==
  ASSUME RagIInv, BudgetInv, NEW t \in Threads,
         \/ Enter(t) \/ Refuse(t) \/ Serve(t) \/ Search(t) \/ SearchFails(t) \/ Cards(t)
         \/ Look(t) /\ (call[t].todo = <<>> \/ Current(t) \in DOMAIN closure.evidenceOf)
         \/ Room(t) /\ ~HasRoom(Current(t))
  PROVE  BudgetInv'
<1>1. Types
  BY DEF RagIInv
<1>2. \A place : At(t, place).at = place
  BY <1>1, AtFields
<1>3. \A e : Shown(t, e).at = "look"
  BY <1>1, ShownFields
<1>4. PICK next, from :
         /\ Step(t, from, next)
         /\ from # "add" /\ next.at \notin {"room", "number", "store", "add"}
  <2>1. NoCall.at = "idle"
    BY NoCallFields
  <2>2. CASE Enter(t) \/ Refuse(t) \/ Serve(t) \/ Cards(t)
    BY <2>2, <2>1, <1>2 DEF Enter, Refuse, Serve, Cards
  <2>3. CASE Search(t)
    <3>1. PICK hits : Step(t, "search", [At(t, "look") EXCEPT !.todo = hits])
      BY <2>3 DEF Search
    <3>2. [At(t, "look") EXCEPT !.todo = hits].at = "look"
      BY <1>1, AtFields
    <3> QED BY <3>1, <3>2
  <2>4. CASE SearchFails(t)
    <3>1. [NoCall EXCEPT !.at = "raised"].at = "raised"
      BY NoCallFields
    <3> QED BY <2>4, <3>1 DEF SearchFails
  <2>5. CASE Look(t) /\ (call[t].todo = <<>> \/ Current(t) \in DOMAIN closure.evidenceOf)
    <3>1. CASE call[t].todo = <<>>
      BY <2>5, <3>1, <1>2 DEF Look
    <3>2. CASE call[t].todo # <<>>
      BY <2>5, <3>2, <1>3 DEF Look
    <3> QED BY <3>1, <3>2
  <2>6. CASE Room(t) /\ ~HasRoom(Current(t))
    BY <2>6, <1>2 DEF Room
  <2> QED BY <2>2, <2>3, <2>4, <2>5, <2>6
<1>5. /\ phase' = "tools" /\ call[t].at # "add" /\ call'[t].at \notin {"room", "number", "store", "add"}
      /\ \A u \in Threads : u # t => call'[u] = call[u]
  BY <1>1, <1>4, StepMoves
<1>6. /\ closure'.ledger = closure.ledger /\ closure'.evidenceOf = closure.evidenceOf
      /\ closure'.characters = closure.characters
  BY <1>1 DEF Types, Enter, Refuse, Serve, Search, SearchFails, Cards, Look, Room
<1>7. seen.raced => seen'.raced
  <2>1. CASE Search(t)
    BY <1>1, <2>1 DEF Types, Search
  <2>2. CASE ~Search(t)
    BY <1>1, <2>2 DEF Types, Enter, Refuse, Serve, SearchFails, Cards, Look, Room
  <2> QED BY <2>1, <2>2
<1>8. Resting'
  BY <1>5 DEF Resting
<1> QED BY <1>5, <1>6, <1>7, <1>8, QuietKeeps

\* Thread t is alone among those that register.
LEMMA OnlyThread ==
  ASSUME RagIInv, ~seen.raced, NEW t \in Threads, call[t].at \in Registering
  PROVE  \A u \in Threads : u # t => call[u].at \notin Registering
BY DEF RagIInv, Alone

\* A chunk without a number is not in the ledger.
LEMMA LookNewBudget ==
  ASSUME RagIInv, BudgetInv, NEW t \in Threads, Look(t), call[t].todo # <<>>,
         Current(t) \notin DOMAIN closure.evidenceOf
  PROVE  BudgetInv'
<1>1. /\ call[t].at = "look" /\ call'[t] = At(t, "room") /\ phase' = "tools"
      /\ \A u \in Threads : u # t => call'[u] = call[u]
  BY StepMoves DEF RagIInv, Look
<1>2. call'[t].at = "room" /\ call'[t].todo = call[t].todo
  BY <1>1, AtFields DEF RagIInv
<1>3. UNCHANGED <<closure, seen>>
  BY DEF Look
<1>4. Evidence' = Evidence /\ Kept' = Kept
  BY <1>3 DEF Evidence, Kept
<1>5. Committed' = Committed
  BY <1>1, <1>2 DEF Committed
<1>6. Reserved'
  BY <1>4, <1>5 DEF BudgetInv, Reserved
<1>7. Resting'
  BY <1>1 DEF Resting
<1>8. \A u \in Threads : Current(u)' = Current(u) /\ (HasRoom(Current(u))' <=> HasRoom(Current(u)))
  BY <1>1, <1>2, <1>3, <1>4 DEF Current, HasRoom
<1>9. Exact'
  BY <1>1, <1>2, <1>3, <1>4, <1>8 DEF BudgetInv, Exact
<1> QED BY <1>6, <1>7, <1>9 DEF BudgetInv

\* The thread that finds room sees a ledger that is not full.
LEMMA RoomBudget ==
  ASSUME RagIInv, BudgetInv, NEW t \in Threads, Room(t), HasRoom(Current(t))
  PROVE  BudgetInv'
<1>1. /\ call[t].at = "room" /\ call'[t] = At(t, "number") /\ phase' = "tools"
      /\ \A u \in Threads : u # t => call'[u] = call[u]
  BY StepMoves DEF RagIInv, Room
<1>2. call'[t].at = "number" /\ call'[t].todo = call[t].todo
  BY <1>1, AtFields DEF RagIInv
<1>3. UNCHANGED <<closure, seen>>
  BY DEF Room
<1>4. Evidence' = Evidence /\ Kept' = Kept
  BY <1>3 DEF Evidence, Kept
<1>5. Reserved'
  <2>1. Committed' \in SUBSET Threads
    BY DEF Committed
  <2>2. Cardinality(Committed') \in Nat /\ Cardinality(Committed') <= Cardinality(Threads)
    BY <2>1, RagAnswerAssumption, FS_Subset, FS_CardinalityType
  <2>3. Evidence \in Nat /\ MaxEvidence \in Nat /\ Cardinality(Threads) \in Nat
    BY LedgerSize, CommittedCount, RagAnswerAssumption DEF RagIInv, Types
  <2>4. Evidence < MaxEvidence
    BY DEF HasRoom
  <2>5. Evidence + Cardinality(Committed') < MaxEvidence + Cardinality(Threads)
    BY <2>2, <2>3, <2>4
  <2> QED BY <1>4, <2>5 DEF Reserved
<1>6. Resting'
  BY <1>1 DEF Resting
<1>7. \A u \in Threads : Current(u)' = Current(u) /\ (HasRoom(Current(u))' <=> HasRoom(Current(u)))
  BY <1>1, <1>2, <1>3, <1>4 DEF Current, HasRoom
<1>8. Exact'
  BY <1>1, <1>2, <1>3, <1>4, <1>7 DEF BudgetInv, Exact
<1> QED BY <1>5, <1>6, <1>8 DEF BudgetInv

\* Taking a number changes nothing that is counted.
LEMMA NumberBudget ==
  ASSUME RagIInv, BudgetInv, NEW t \in Threads, Number(t)
  PROVE  BudgetInv'
<1>1. /\ call[t].at = "number" /\ call'[t] = [At(t, "store") EXCEPT !.number = Evidence + 1]
      /\ phase' = "tools" /\ \A u \in Threads : u # t => call'[u] = call[u]
  BY StepMoves DEF RagIInv, Number
<1>2. call'[t].at = "store" /\ call'[t].todo = call[t].todo
  BY <1>1, AtFields DEF RagIInv
<1>3. UNCHANGED <<closure, seen>>
  BY DEF Number
<1>4. Evidence' = Evidence /\ Kept' = Kept
  BY <1>3 DEF Evidence, Kept
<1>5. Committed' = Committed
  BY <1>1, <1>2 DEF Committed
<1>6. Reserved'
  BY <1>4, <1>5 DEF BudgetInv, Reserved
<1>7. Resting'
  BY <1>1 DEF Resting
<1>8. \A u \in Threads : Current(u)' = Current(u) /\ (HasRoom(Current(u))' <=> HasRoom(Current(u)))
  BY <1>1, <1>2, <1>3, <1>4 DEF Current, HasRoom
<1>9. Exact'
  BY <1>1, <1>2, <1>3, <1>4, <1>8 DEF BudgetInv, Exact
<1> QED BY <1>6, <1>7, <1>9 DEF BudgetInv

\* A number is stored once, and the thread is committed no more; without a race
\* its chunk is new and there is still room for it.
LEMMA StoreBudget ==
  ASSUME RagIInv, BudgetInv, NEW t \in Threads, Store(t)
  PROVE  BudgetInv'
<1> DEFINE c == Current(t)  n == call[t].number
<1>1. /\ call[t].at = "store" /\ call'[t] = [At(t, "add") EXCEPT !.before = closure.characters]
      /\ phase' = "tools" /\ \A u \in Threads : u # t => call'[u] = call[u]
  BY StepMoves DEF RagIInv, Store
<1>2. call'[t].at = "add" /\ call'[t].todo = call[t].todo /\ call'[t].before = closure.characters
  BY <1>1, AtFields DEF RagIInv
<1>3. /\ closure'.ledger = Put(closure.ledger, n, c)
      /\ closure'.evidenceOf = Put(closure.evidenceOf, c, n)
      /\ closure'.characters = closure.characters /\ seen' = seen
  BY DEF RagIInv, Types, Store
<1>4. n \in 1 .. (Len(closure.ledger) + 1) /\ c \in Chunk /\ call[t].todo # <<>>
  BY <1>1 DEF RagIInv, Types, Numbers, Hit, Current
<1>5. closure.ledger \in Seq(Chunk) /\ Evidence = Len(closure.ledger) /\ Evidence \in Nat
  BY LedgerSize DEF RagIInv, Types
<1>6. RagIInv'
  BY StoreKeeps
<1>7. Evidence' = Len(closure'.ledger) /\ Evidence' \in Nat
  <2>1. closure'.ledger \in Seq(Chunk)
    BY <1>6 DEF RagIInv, Types
  <2>2. DOMAIN closure'.ledger = 1 .. Len(closure'.ledger) /\ Len(closure'.ledger) \in Nat
    BY <2>1
  <2>3. Cardinality(1 .. Len(closure'.ledger)) = Len(closure'.ledger)
    BY <2>2, FS_Interval
  <2> QED BY <2>2, <2>3 DEF Evidence
<1>8. Len(closure'.ledger) = IF n = Len(closure.ledger) + 1
                               THEN Len(closure.ledger) + 1 ELSE Len(closure.ledger)
  BY <1>3, <1>4, <1>5, PutSeq
<1>9. Evidence' <= Evidence + 1
  BY <1>5, <1>7, <1>8
<1>10. Reserved'
  <2>1. Committed' = Committed \ {t} /\ t \in Committed
    BY <1>1, <1>2 DEF Committed
  <2>2. Cardinality(Committed') = Cardinality(Committed) - 1
    BY <2>1, CommittedCount, FS_RemoveElement
  <2>3. MaxEvidence \in Nat
    BY RagAnswerAssumption
  <2>4. Evidence + Cardinality(Committed) < MaxEvidence + Cardinality(Threads)
    BY DEF BudgetInv, Reserved
  <2>5. Evidence \in Nat /\ Evidence' \in Nat /\ Cardinality(Committed) \in Nat /\ Cardinality(Threads) \in Nat
    BY <1>5, <1>7, CommittedCount
  <2>6. Evidence' + Cardinality(Committed') < MaxEvidence + Cardinality(Threads)
    BY <1>9, <2>2, <2>3, <2>4, <2>5
  <2> QED BY <2>6 DEF Reserved
<1>11. Resting'
  BY <1>1 DEF Resting
<1>12. Exact'
  <2> SUFFICES ASSUME ~seen.raced PROVE Exact'
    BY <1>3 DEF Exact
  <2>1. Exact
    BY DEF BudgetInv
  <2>2. \A u \in Threads : u # t => call'[u].at \notin {"room", "number", "store", "add"}
                                    /\ call[u].at \notin {"room", "number", "store", "add"}
    BY <1>1, OnlyThread DEF Registering
  <2>3. n = Len(closure.ledger) + 1
    BY <1>1 DEF RagIInv, Alone
  <2>4. c \notin Range(closure.ledger) /\ DOMAIN closure.evidenceOf = Range(closure.ledger)
    BY <1>1, <2>1 DEF Exact
  <2>5. Evidence < MaxEvidence /\ closure.characters + Size[c] <= MaxCharacters
    BY <1>1, <2>1 DEF Exact, HasRoom
  <2>6. closure.characters = Kept
    BY <1>1, <2>1, <2>2 DEF Exact
  <2> HIDE DEF c, n
  <2>7. Range(closure'.ledger) = Range(closure.ledger) \cup {c}
    <3>1. DOMAIN closure.ledger = 1 .. Len(closure.ledger) /\ Len(closure.ledger) \in Nat
      BY <1>5
    <3>2. n \notin DOMAIN closure.ledger
      BY <2>3, <3>1
    <3>3. \A dict, k, v : k \notin DOMAIN dict => Range(Put(dict, k, v)) = Range(dict) \cup {v}
      BY DEF Range, Put
    <3> QED BY <1>3, <3>2, <3>3
  <2>8. DOMAIN closure'.evidenceOf = DOMAIN closure.evidenceOf \cup {c}
    BY <1>3 DEF Put
  <2>9. Kept' = Kept + Size[c] /\ Kept \in Nat /\ Size[c] \in Nat
    <3>1. Range(closure.ledger) \in SUBSET Chunk /\ IsFiniteSet(Range(closure.ledger)) /\ Kept \in Nat
      BY LedgerRange DEF RagIInv
    <3>2. Total(Range(closure.ledger) \cup {c}) = Total(Range(closure.ledger)) + Size[c]
      BY <1>4, <2>4, <3>1, TotalFacts
    <3>3. Kept' = Kept + Size[c]
      BY <2>7, <3>2 DEF Kept
    <3>4. Size[c] \in Nat
      BY <1>4, RagAnswerAssumption
    <3> QED BY <3>1, <3>3, <3>4
  <2>10. Kept' <= MaxCharacters /\ Kept' = closure'.characters + Size[c]
    BY <1>3, <2>5, <2>6, <2>9
  <2>11. Evidence' <= MaxEvidence
    <3>1. MaxEvidence \in Nat
      BY RagAnswerAssumption
    <3> QED BY <1>5, <1>7, <1>9, <2>5, <3>1
  <2>12. Current(t)' = c
    BY <1>2 DEF Current, c
  <2>13. DOMAIN closure'.evidenceOf = Range(closure'.ledger)
    BY <2>4, <2>7, <2>8
  <2> QED BY <1>2, <1>3, <2>2, <2>10, <2>11, <2>12, <2>13 DEF Exact
<1> QED BY <1>10, <1>11, <1>12 DEF BudgetInv

\* Without a race the characters added are those of the chunk just stored.
LEMMA AddBudget ==
  ASSUME RagIInv, BudgetInv, NEW t \in Threads, Add(t)
  PROVE  BudgetInv'
<1>1. /\ call[t].at = "add" /\ call'[t] = Shown(t, call[t].number)
      /\ phase' = "tools" /\ \A u \in Threads : u # t => call'[u] = call[u]
  BY StepMoves DEF RagIInv, Add
<1>2. call'[t].at = "look"
  BY <1>1, ShownFields DEF RagIInv
<1>3. /\ closure'.ledger = closure.ledger /\ closure'.evidenceOf = closure.evidenceOf
      /\ closure'.characters = call[t].before + Size[Current(t)] /\ seen' = seen
  BY DEF RagIInv, Types, Add
<1>4. Evidence' = Evidence /\ Kept' = Kept
  BY <1>3 DEF Evidence, Kept
<1>5. Committed' = Committed
  BY <1>1, <1>2 DEF Committed
<1>6. Reserved'
  BY <1>4, <1>5 DEF BudgetInv, Reserved
<1>7. Resting'
  BY <1>1 DEF Resting
<1>8. Exact'
  <2> SUFFICES ASSUME ~seen.raced PROVE Exact'
    BY <1>3 DEF Exact
  <2>1. Exact
    BY DEF BudgetInv
  <2>2. \A u \in Threads : call'[u].at \notin {"room", "number", "store", "add"}
    BY <1>1, <1>2, OnlyThread DEF Registering
  <2>3. closure'.characters = Kept'
    BY <1>1, <1>3, <1>4, <2>1 DEF Exact
  <2> QED BY <1>3, <1>4, <2>1, <2>2, <2>3 DEF Exact
<1> QED BY <1>6, <1>7, <1>8 DEF BudgetInv

\* Every step of a tool keeps the budget.
LEMMA ToolBudget ==
  ASSUME RagIInv, BudgetInv, NEW t \in Threads, Tool(t)
  PROVE  BudgetInv'
<1>1. CASE Enter(t) \/ Refuse(t) \/ Serve(t) \/ Search(t) \/ SearchFails(t) \/ Cards(t)
  BY <1>1, QuietTool
<1>2. CASE Look(t)
  <2>1. CASE call[t].todo = <<>> \/ Current(t) \in DOMAIN closure.evidenceOf
    BY <1>2, <2>1, QuietTool
  <2>2. CASE call[t].todo # <<>> /\ Current(t) \notin DOMAIN closure.evidenceOf
    BY <1>2, <2>2, LookNewBudget
  <2> QED BY <2>1, <2>2
<1>3. CASE Room(t)
  <2>1. CASE HasRoom(Current(t))
    BY <1>3, <2>1, RoomBudget
  <2>2. CASE ~HasRoom(Current(t))
    BY <1>3, <2>2, QuietTool
  <2> QED BY <2>1, <2>2
<1>4. CASE Number(t) \/ Store(t) \/ Add(t)
  BY <1>4, NumberBudget, StoreBudget, AddBudget
<1> QED BY <1>1, <1>2, <1>3, <1>4 DEF Tool

\* The graph moves when no tool is at work, and gives out nothing.
LEMMA GraphBudget ==
  ASSUME RagIInv, BudgetInv,
         \/ AskFocused \/ ModelCalls \/ Dispatch \/ Join \/ Reformulate
         \/ ModelAnswers \/ NoAnswer \/ ModelFails
  PROVE  BudgetInv'
<1>1. closure' = closure /\ seen'.raced = seen.raced
  BY DEF RagIInv, Types, AskFocused, ModelCalls, Dispatch, Join, Reformulate, ModelAnswers, Answer,
     NoAnswer, ModelFails
<1>2. \A t \in Threads : call[t].at \in Outside
  <2>1. CASE Join
    BY <2>1 DEF Join, Outside
  <2>2. CASE ~Join
    <3>1. phase # "tools"
      BY <2>2 DEF AskFocused, ModelCalls, Dispatch, Reformulate, ModelAnswers, Answer, NoAnswer,
         LimitReached, ModelFails, Turn
    <3> QED BY <3>1 DEF BudgetInv, Resting
  <2> QED BY <2>1, <2>2
<1>3. \A t \in Threads : call'[t] = call[t] \/ call'[t].at \in {"idle", "enter"}
  <2>1. CASE ModelCalls
    <3>1. PICK S : call' = [t \in Threads |-> IF t \in S THEN [NoCall EXCEPT !.at = "enter"] ELSE NoCall]
      BY <2>1 DEF ModelCalls
    <3>2. [NoCall EXCEPT !.at = "enter"].at = "enter" /\ NoCall.at = "idle"
      BY NoCallFields
    <3> QED BY <3>1, <3>2
  <2>2. CASE ~ModelCalls
    <3>1. call' = call
      BY <2>2 DEF AskFocused, Dispatch, Join, Reformulate, ModelAnswers, Answer, NoAnswer, ModelFails
    <3> QED BY <3>1
  <2> QED BY <2>1, <2>2
<1>4. \A t \in Threads : call'[t].at \in Outside /\ call[t].at # "add"
                         /\ (call'[t] = call[t] \/ call'[t].at \notin {"room", "number", "store", "add"})
  BY <1>2, <1>3 DEF Outside
<1>5. Resting'
  BY <1>4 DEF Resting
<1>6. /\ closure'.ledger = closure.ledger /\ closure'.evidenceOf = closure.evidenceOf
      /\ closure'.characters = closure.characters
      /\ (seen.raced => seen'.raced)
  BY <1>1
<1> QED BY <1>4, <1>5, <1>6, QuietKeeps

\* A new question has given out nothing.
LEMMA InitBudget ==
  RagInit => BudgetInv
<1> SUFFICES ASSUME RagInit PROVE BudgetInv
  OBVIOUS
<1>1. /\ call = [t \in Threads |-> NoCall] /\ closure = NewClosure
  BY DEF RagInit
<1>2. \A t \in Threads : call[t].at = "idle"
  BY <1>1, NoCallFields
<1>3. DOMAIN closure.ledger = {} /\ DOMAIN closure.evidenceOf = {} /\ closure.characters = 0
      /\ Range(closure.ledger) = {}
  BY <1>1 DEF NewClosure, Range
<1>4. Evidence = 0 /\ Committed = {} /\ Cardinality(Committed) = 0 /\ Kept = 0
  <2>1. Committed = {}
    BY <1>2 DEF Committed
  <2> QED BY <1>3, <2>1, FS_EmptySet, TotalEmpty DEF Evidence, Kept
<1>5. Cardinality(Threads) \in Nat /\ Cardinality(Threads) # 0
  BY RagAnswerAssumption, FS_CardinalityType, FS_EmptySet
<1>6. Reserved
  BY <1>4, <1>5, RagAnswerAssumption DEF Reserved
<1>7. Resting
  BY <1>2 DEF Resting, Outside
<1>8. Exact
  BY <1>2, <1>3, <1>4, RagAnswerAssumption DEF Exact
<1> QED BY <1>6, <1>7, <1>8 DEF BudgetInv

\* Every step of the answerer keeps the budget.
LEMMA StepKeepsBudget ==
  RagIInv /\ BudgetInv /\ [Next]_vars => BudgetInv'
<1> SUFFICES ASSUME RagIInv, BudgetInv, [Next]_vars
             PROVE  BudgetInv'
  OBVIOUS
<1>1. CASE UNCHANGED ragVars
  <2>1. UNCHANGED <<phase, closure, call, seen>>
    BY <1>1 DEF ragVars
  <2>2. Resting'
    BY <2>1 DEF BudgetInv, Resting
  <2> QED BY <2>1, <2>2, QuietKeeps
<1>2. CASE Ask \/ Corpus \/ UNCHANGED vars
  BY <1>1, <1>2 DEF Ask, Corpus, vars
<1>3. CASE Route
  <2>1. AskFocused \/ UNCHANGED ragVars
    BY <1>3 DEF Route
  <2> QED BY <1>1, <2>1, GraphBudget
<1>4. CASE Focused
  <2>1. RagNext
    BY <1>4 DEF Focused
  <2>2. CASE \E t \in Threads : Tool(t)
    BY <2>2, ToolBudget
  <2> QED BY <2>1, <2>2, GraphBudget DEF RagNext
<1> QED BY <1>2, <1>3, <1>4 DEF Next

\* The ledger of one question never exceeds max_evidence, nor its texts the
\* bound of their characters, unless two threads were in register at once; and
\* then by less than one chunk per thread.
THEOREM EvidenceStaysWithinBudget == Spec => []EvidenceWithinBudget
<1>1. Init => RagIInv /\ BudgetInv
  BY InitRagIInv, InitBudget DEF Init
<1>2. RagIInv /\ BudgetInv /\ [Next]_vars => RagIInv' /\ BudgetInv'
  BY StepKeepsRagIInv, StepKeepsBudget
<1>3. RagIInv /\ BudgetInv => EvidenceWithinBudget
  <2> SUFFICES ASSUME RagIInv, BudgetInv PROVE EvidenceWithinBudget
    OBVIOUS
  <2>1. Evidence < MaxEvidence + Cardinality(Threads)
    <3>1. Evidence \in Nat /\ MaxEvidence \in Nat
      BY LedgerSize, RagAnswerAssumption DEF RagIInv, Types
    <3>2. Evidence + Cardinality(Committed) < MaxEvidence + Cardinality(Threads)
      BY DEF BudgetInv, Reserved
    <3> QED BY <3>1, <3>2, CommittedCount
  <2>2. ~seen.raced => Evidence <= MaxEvidence /\ Kept <= MaxCharacters
    BY DEF BudgetInv, Exact
  <2>3. ~seen.raced /\ phase # "tools" => closure.characters = Kept
    BY DEF BudgetInv, Resting, Outside, Exact
  <2> QED BY <2>1, <2>2, <2>3 DEF EvidenceWithinBudget, Kept
<1> QED BY <1>1, <1>2, <1>3, PTL DEF Spec

-----------------------------------------------------------------------------
(* Sequences *)

\* What a sequence is, by its elements.
LEMMA SeqFacts ==
  ASSUME NEW V, NEW s \in Seq(V)
  PROVE  /\ Len(s) \in Nat /\ DOMAIN s = 1 .. Len(s)
         /\ \A i \in DOMAIN s : s[i] \in V
         /\ ToSet(s) \subseteq V
         /\ (s = <<>>) <=> (ToSet(s) = {})
         /\ (s = <<>>) <=> (Len(s) = 0)
<1>1. Len(s) \in Nat /\ DOMAIN s = 1 .. Len(s) /\ \A i \in DOMAIN s : s[i] \in V
  OBVIOUS
<1>2. (s = <<>>) <=> (Len(s) = 0)
  OBVIOUS
<1>3. (Len(s) = 0) <=> (DOMAIN s = {})
  <2>1. Len(s) # 0 => 1 \in DOMAIN s
    BY <1>1
  <2> QED BY <1>1, <2>1
<1> QED BY <1>1, <1>2, <1>3 DEF ToSet

\* The sequence of nothing.
LEMMA EmptyFacts ==
  ASSUME NEW V
  PROVE  <<>> \in Seq(V) /\ ToSet(<<>>) = {} /\ IsInjective(<<>>)
<1>1. <<>> \in Seq(V)
  OBVIOUS
<1>2. DOMAIN <<>> = {}
  OBVIOUS
<1> QED BY <1>1, <1>2 DEF ToSet, IsInjective

\* One element more.
LEMMA AppendFacts ==
  ASSUME NEW V, NEW s \in Seq(V), NEW x \in V
  PROVE  /\ Append(s, x) \in Seq(V) /\ Append(s, x) # <<>>
         /\ Len(Append(s, x)) = Len(s) + 1
         /\ ToSet(Append(s, x)) = ToSet(s) \cup {x}
         /\ IsInjective(s) /\ x \notin ToSet(s) => IsInjective(Append(s, x))
<1> DEFINE t == Append(s, x)  n == Len(s)
<1>1. t \in Seq(V) /\ Len(t) = n + 1 /\ n \in Nat
      /\ DOMAIN s = 1 .. n /\ DOMAIN t = 1 .. (n + 1)
      /\ (\A i \in 1 .. n : t[i] = s[i]) /\ t[n + 1] = x /\ t # <<>>
  OBVIOUS
<1> HIDE DEF t, n
<1>2. DOMAIN t = DOMAIN s \cup {n + 1} /\ n + 1 \notin DOMAIN s
  BY <1>1
<1>3. ToSet(t) = ToSet(s) \cup {x}
  BY <1>1, <1>2 DEF ToSet
<1>4. IsInjective(s) /\ x \notin ToSet(s) => IsInjective(t)
  BY <1>1, <1>2 DEF IsInjective, ToSet
<1> QED BY <1>1, <1>3, <1>4 DEF t, n

\* One sequence after another.
LEMMA ConcatFacts ==
  ASSUME NEW V, NEW s \in Seq(V), NEW t \in Seq(V)
  PROVE  /\ s \o t \in Seq(V) /\ Len(s \o t) = Len(s) + Len(t)
         /\ DOMAIN s \subseteq DOMAIN (s \o t)
         /\ \A i \in DOMAIN s : (s \o t)[i] = s[i]
         /\ \A i \in DOMAIN t : Len(s) + i \in DOMAIN (s \o t) /\ (s \o t)[Len(s) + i] = t[i]
         /\ ToSet(s \o t) = ToSet(s) \cup ToSet(t)
         /\ IsInjective(s) /\ IsInjective(t) /\ ToSet(s) \cap ToSet(t) = {} => IsInjective(s \o t)
<1> DEFINE u == s \o t  m == Len(s)  n == Len(t)
<1>1. u \in Seq(V) /\ Len(u) = m + n /\ m \in Nat /\ n \in Nat
      /\ DOMAIN s = 1 .. m /\ DOMAIN t = 1 .. n /\ DOMAIN u = 1 .. (m + n)
      /\ (\A i \in 1 .. m : u[i] = s[i]) /\ (\A i \in (m + 1) .. (m + n) : u[i] = t[i - m])
  OBVIOUS
<1> HIDE DEF u, m, n
<1>2. \A i \in 1 .. n : m + i \in DOMAIN u /\ u[m + i] = t[i]
  <2> TAKE i \in 1 .. n
  <2>1. m + i \in (m + 1) .. (m + n) /\ (m + i) - m = i /\ m + i \in 1 .. (m + n)
    BY <1>1
  <2> QED BY <1>1, <2>1
<1>3. \A k \in DOMAIN u : k \in DOMAIN s \/ (k \notin DOMAIN s /\ \E i \in DOMAIN t : k = m + i)
  <2> TAKE k \in DOMAIN u
  <2>1. k \in 1 .. m \/ (k \notin 1 .. m /\ k - m \in 1 .. n /\ k = m + (k - m))
    BY <1>1
  <2> QED BY <1>1, <2>1
<1>4. DOMAIN s \subseteq DOMAIN u
  BY <1>1
<1>5. ToSet(u) = ToSet(s) \cup ToSet(t)
  <2>1. ASSUME NEW k \in DOMAIN u PROVE u[k] \in ToSet(s) \cup ToSet(t)
    BY <1>1, <1>2, <1>3 DEF ToSet
  <2>2. ASSUME NEW x \in ToSet(s) \cup ToSet(t) PROVE x \in ToSet(u)
    <3>1. CASE x \in ToSet(s)
      <4>1. PICK i \in DOMAIN s : x = s[i]
        BY <3>1 DEF ToSet
      <4>2. i \in DOMAIN u /\ u[i] = x
        BY <1>1, <1>4, <4>1
      <4> QED BY <4>2 DEF ToSet
    <3>2. CASE x \in ToSet(t)
      <4>1. PICK i \in DOMAIN t : x = t[i]
        BY <3>2 DEF ToSet
      <4>2. m + i \in DOMAIN u /\ u[m + i] = x
        BY <1>1, <1>2, <4>1
      <4> QED BY <4>2 DEF ToSet
    <3> QED BY <3>1, <3>2
  <2>3. \A x \in ToSet(u) : x \in ToSet(s) \cup ToSet(t)
    BY <2>1 DEF ToSet
  <2> QED BY <2>2, <2>3
<1>6. ASSUME IsInjective(s), IsInjective(t), ToSet(s) \cap ToSet(t) = {}
      PROVE  IsInjective(u)
  <2> SUFFICES ASSUME NEW j \in DOMAIN u, NEW k \in DOMAIN u, u[j] = u[k] PROVE j = k
    BY DEF IsInjective
  <2>1. \A i \in DOMAIN s : u[i] \in ToSet(s)
    BY <1>1 DEF ToSet
  <2>2. \A i \in DOMAIN t : u[m + i] \in ToSet(t)
    BY <1>1, <1>2 DEF ToSet
  <2>3. CASE j \in DOMAIN s /\ k \in DOMAIN s
    BY <1>1, <1>6, <2>3 DEF IsInjective
  <2>4. CASE j \notin DOMAIN s /\ k \notin DOMAIN s
    <3>1. PICK a \in DOMAIN t : j = m + a
      BY <1>3, <2>4
    <3>2. PICK b \in DOMAIN t : k = m + b
      BY <1>3, <2>4
    <3>3. t[a] = t[b]
      BY <1>1, <1>2, <3>1, <3>2
    <3>4. a = b
      BY <1>6, <3>3 DEF IsInjective
    <3> QED BY <3>1, <3>2, <3>4
  <2>5. CASE (j \in DOMAIN s) # (k \in DOMAIN s)
    BY <1>3, <1>6, <2>1, <2>2, <2>5
  <2> QED BY <2>3, <2>4, <2>5
<1> QED BY <1>1, <1>2, <1>4, <1>5, <1>6 DEF u, m, n

\* The first element and the rest.
LEMMA TailFacts ==
  ASSUME NEW V, NEW s \in Seq(V), s # <<>>
  PROVE  /\ Head(s) \in V /\ Head(s) \in ToSet(s) /\ Tail(s) \in Seq(V)
         /\ Len(s) >= 1 /\ Len(Tail(s)) = Len(s) - 1
         /\ DOMAIN s = 1 .. Len(s) /\ Len(s) \in Nat /\ Head(s) = s[1]
         /\ DOMAIN Tail(s) = 1 .. (Len(s) - 1)
         /\ \A i \in DOMAIN Tail(s) : i + 1 \in DOMAIN s /\ Tail(s)[i] = s[i + 1]
         /\ ToSet(s) = {Head(s)} \cup ToSet(Tail(s))
         /\ IsInjective(s) => IsInjective(Tail(s)) /\ Head(s) \notin ToSet(Tail(s))
<1> DEFINE t == Tail(s)  n == Len(s)
<1>1. n \in Nat /\ n >= 1 /\ DOMAIN s = 1 .. n /\ t \in Seq(V) /\ Len(t) = n - 1
      /\ DOMAIN t = 1 .. (n - 1) /\ Head(s) = s[1] /\ s[1] \in V
      /\ (\A i \in 1 .. (n - 1) : t[i] = s[i + 1])
  OBVIOUS
<1> HIDE DEF t, n
<1>2. 1 \in DOMAIN s /\ \A i \in DOMAIN t : i + 1 \in DOMAIN s /\ t[i] = s[i + 1] /\ i + 1 # 1
  BY <1>1
<1>3. \A k \in DOMAIN s : k = 1 \/ \E i \in DOMAIN t : k = i + 1
  <2> TAKE k \in DOMAIN s
  <2>1. k = 1 \/ (k - 1 \in 1 .. (n - 1) /\ k = (k - 1) + 1)
    BY <1>1
  <2> QED BY <1>1, <2>1
<1>4. ToSet(s) = {s[1]} \cup ToSet(t)
  <2>1. \A k \in DOMAIN s : s[k] \in {s[1]} \cup ToSet(t)
    BY <1>2, <1>3 DEF ToSet
  <2>2. \A x \in {s[1]} \cup ToSet(t) : x \in ToSet(s)
    BY <1>2 DEF ToSet
  <2> QED BY <2>1, <2>2 DEF ToSet
<1>5. ASSUME IsInjective(s) PROVE IsInjective(t) /\ s[1] \notin ToSet(t)
  <2>1. ASSUME NEW i \in DOMAIN t, NEW j \in DOMAIN t, t[i] = t[j] PROVE i = j
    <3>1. i + 1 = j + 1
      BY <1>2, <1>5, <2>1 DEF IsInjective
    <3> QED BY <1>1, <3>1
  <2>2. s[1] \notin ToSet(t)
    BY <1>2, <1>5 DEF IsInjective, ToSet
  <2> QED BY <2>1, <2>2 DEF IsInjective
<1> QED BY <1>1, <1>2, <1>4, <1>5 DEF t, n

\* A sequence without repetition is as long as it has elements.
LEMMA InjectiveLength ==
  ASSUME NEW V, NEW s \in Seq(V), IsInjective(s)
  PROVE  IsFiniteSet(ToSet(s)) /\ Cardinality(ToSet(s)) = Len(s)
<1>1. Len(s) \in Nat /\ DOMAIN s = 1 .. Len(s) /\ s \in [1 .. Len(s) -> ToSet(s)]
  BY DEF ToSet
<1>2. s \in Bijection(1 .. Len(s), ToSet(s))
  BY <1>1 DEF Bijection, Injection, Surjection, IsInjective, ToSet
<1>3. IsFiniteSet(1 .. Len(s)) /\ Cardinality(1 .. Len(s)) = Len(s)
  BY <1>1, FS_Interval
<1> QED BY <1>2, <1>3, FS_Bijection DEF ExistsBijection

\* The elements of any sequence can be counted, and are no more than its length.
LEMMA SequenceSize ==
  ASSUME NEW V, NEW s \in Seq(V)
  PROVE  IsFiniteSet(ToSet(s)) /\ Cardinality(ToSet(s)) \in Nat /\ Cardinality(ToSet(s)) <= Len(s)
<1>1. Len(s) \in Nat /\ DOMAIN s = 1 .. Len(s) /\ s \in [1 .. Len(s) -> ToSet(s)]
  BY DEF ToSet
<1>2. s \in Surjection(1 .. Len(s), ToSet(s))
  BY <1>1 DEF Surjection, ToSet
<1>3. IsFiniteSet(1 .. Len(s)) /\ Cardinality(1 .. Len(s)) = Len(s)
  BY <1>1, FS_Interval
<1>4. IsFiniteSet(ToSet(s)) /\ Cardinality(ToSet(s)) <= Len(s)
  BY <1>2, <1>3, FS_Surjection
<1> QED BY <1>4, FS_CardinalityType

-----------------------------------------------------------------------------
(* What the folds of this module return *)

\* Distinct keeps every name once.
LEMMA DistinctFacts ==
  ASSUME NEW V, NEW s \in Seq(V)
  PROVE  Distinct(s) \in Seq(V) /\ IsInjective(Distinct(s)) /\ ToSet(Distinct(s)) = ToSet(s)
<1>1. Len(s) \in Nat /\ DOMAIN s = 1 .. Len(s)
  OBVIOUS
<1>2. PICK n \in Nat : DOMAIN s = 1 .. n
  BY <1>1
<1>3. PICK v : /\ v[0] = <<>>
               /\ \A k \in 1 .. n : v[k] = WithNew(v[k - 1], s[k])
               /\ Distinct(s) = v[n]
  <2>1. Distinct(s) = Names!Fold(0, 0, <<>>, s)
    BY DEF Distinct, AddName, FoldLeft, MapThenFoldSet, Max,
           Names!Fold, Names!FoldLeft, Names!MapThenFoldSet, Names!Max
  <2> QED BY <1>2, <2>1, Names!FoldUnrolls DEF AddName
<1> DEFINE Good(k) == v[k] \in Seq(V) /\ IsInjective(v[k]) /\ ToSet(v[k]) = {s[i] : i \in 1 .. k}
           S == {k \in Nat : k <= n => Good(k)}
<1>4. 0 \in S
  <2>1. {s[i] : i \in 1 .. 0} = {}
    OBVIOUS
  <2> QED BY <1>3, <2>1, EmptyFacts
<1>5. ASSUME NEW k \in Nat, k \in S PROVE k + 1 \in S
  <2> SUFFICES ASSUME k + 1 <= n PROVE Good(k + 1)
    OBVIOUS
  <2>1. k <= n /\ k + 1 \in 1 .. n /\ (k + 1) - 1 = k
    BY <1>2
  <2>2. Good(k) /\ v[k + 1] = WithNew(v[k], s[k + 1]) /\ s[k + 1] \in V
    <3>1. Good(k)
      BY <1>5, <2>1
    <3>2. s[k + 1] \in V
      BY <1>2, <2>1
    <3> QED BY <1>3, <2>1, <3>1, <3>2
  <2>3. {s[i] : i \in 1 .. (k + 1)} = {s[i] : i \in 1 .. k} \cup {s[k + 1]}
    <3>1. 1 .. (k + 1) = (1 .. k) \cup {k + 1}
      OBVIOUS
    <3> QED BY <3>1
  <2>4. CASE s[k + 1] \in ToSet(v[k])
    BY <2>2, <2>3, <2>4 DEF WithNew
  <2>5. CASE s[k + 1] \notin ToSet(v[k])
    <3> DEFINE a == v[k]  x == s[k + 1]
    <3>1. a \in Seq(V) /\ x \in V /\ IsInjective(a) /\ x \notin ToSet(a)
      BY <2>2, <2>5
    <3> HIDE DEF a, x
    <3>2. Append(a, x) \in Seq(V) /\ IsInjective(Append(a, x)) /\ ToSet(Append(a, x)) = ToSet(a) \cup {x}
      BY <3>1, AppendFacts
    <3>3. v[k + 1] = Append(a, x)
      BY <2>2, <2>5 DEF WithNew, a, x
    <3>4. ToSet(a) \cup {x} = {s[i] : i \in 1 .. (k + 1)}
      BY <2>2, <2>3 DEF a, x
    <3> QED BY <3>2, <3>3, <3>4
  <2> QED BY <2>4, <2>5
<1> HIDE DEF S
<1>6. n \in S
  BY <1>2, <1>4, <1>5, Names!NumberInduction
<1>7. Good(n)
  BY <1>2, <1>6 DEF S
<1>8. ToSet(s) = {s[i] : i \in 1 .. n}
  BY <1>2 DEF ToSet
<1> QED BY <1>3, <1>7, <1>8

\* Deduplicated returns some of the rows.
LEMMA DeduplicatedFacts ==
  ASSUME NEW V, NEW s \in Seq(V)
  PROVE  Deduplicated(s) \in Seq(V) /\ ToSet(Deduplicated(s)) \subseteq ToSet(s)
<1>1. Len(s) \in Nat /\ DOMAIN s = 1 .. Len(s)
  OBVIOUS
<1>2. PICK n \in Nat : DOMAIN s = 1 .. n
  BY <1>1
<1>3. PICK v : /\ v[0] = <<>>
               /\ \A k \in 1 .. n : v[k] = WithNewRow(v[k - 1], s[k])
               /\ Deduplicated(s) = v[n]
  <2>1. Deduplicated(s) = NewRows!Fold(0, 0, <<>>, s)
    BY DEF Deduplicated, AddRow, FoldLeft, MapThenFoldSet, Max,
           NewRows!Fold, NewRows!FoldLeft, NewRows!MapThenFoldSet, NewRows!Max
  <2> QED BY <1>2, <2>1, NewRows!FoldUnrolls DEF AddRow
<1> DEFINE Good(k) == v[k] \in Seq(V) /\ ToSet(v[k]) \subseteq ToSet(s)
           S == {k \in Nat : k <= n => Good(k)}
<1>4. 0 \in S
  BY <1>3, EmptyFacts
<1>5. ASSUME NEW k \in Nat, k \in S PROVE k + 1 \in S
  <2> SUFFICES ASSUME k + 1 <= n PROVE Good(k + 1)
    OBVIOUS
  <2>1. k <= n /\ k + 1 \in 1 .. n /\ (k + 1) - 1 = k
    BY <1>2
  <2>2. Good(k) /\ v[k + 1] = WithNewRow(v[k], s[k + 1]) /\ s[k + 1] \in V /\ s[k + 1] \in ToSet(s)
    <3>1. Good(k)
      BY <1>5, <2>1
    <3>2. s[k + 1] \in V /\ s[k + 1] \in ToSet(s)
      BY <1>2, <2>1 DEF ToSet
    <3> QED BY <1>3, <2>1, <3>1, <3>2
  <2>3. CASE v[k + 1] = v[k]
    BY <2>2, <2>3
  <2>4. CASE v[k + 1] = Append(v[k], s[k + 1])
    <3> DEFINE a == v[k]  x == s[k + 1]
    <3>1. a \in Seq(V) /\ x \in V
      BY <2>2
    <3> HIDE DEF a, x
    <3>2. Append(a, x) \in Seq(V) /\ ToSet(Append(a, x)) = ToSet(a) \cup {x}
      BY <3>1, AppendFacts
    <3>3. ToSet(a) \subseteq ToSet(s) /\ x \in ToSet(s) /\ v[k + 1] = Append(a, x)
      BY <2>2, <2>4 DEF a, x
    <3> QED BY <3>2, <3>3
  <2> QED BY <2>2, <2>3, <2>4, Zenon DEF WithNewRow
<1> HIDE DEF S
<1>6. n \in S
  BY <1>2, <1>4, <1>5, NewRows!NumberInduction
<1> QED BY <1>2, <1>3, <1>6 DEF S

\* The characters of a batch are a number, and those of a chunk more add to it.
LEMMA CharactersFacts ==
  ASSUME NEW s \in Seq(Letter), NEW c \in Letter
  PROVE  Characters(s) \in Nat /\ Characters(Append(s, c)) = Characters(s) + TextSize[c]
<1>1. Len(s) \in Nat /\ DOMAIN s = 1 .. Len(s) /\ (\A i \in DOMAIN s : s[i] \in Letter)
  OBVIOUS
<1>2. PICK n \in Nat : DOMAIN s = 1 .. n /\ n = Len(s)
  BY <1>1
<1>3. PICK v : /\ v[0] = 0
               /\ \A k \in 1 .. n : v[k] = Longer(v[k - 1], s[k])
               /\ Characters(s) = v[n]
  <2>1. Characters(s) = Lengths!Fold(0, 0, 0, s)
    BY DEF Characters, AddLength, FoldLeft, MapThenFoldSet, Max,
           Lengths!Fold, Lengths!FoldLeft, Lengths!MapThenFoldSet, Lengths!Max
  <2> QED BY <1>2, <2>1, Lengths!FoldUnrolls DEF AddLength
<1> DEFINE S == {k \in Nat : k <= n => v[k] \in Nat}
<1>4. 0 \in S
  BY <1>3
<1>5. ASSUME NEW k \in Nat, k \in S PROVE k + 1 \in S
  <2> SUFFICES ASSUME k + 1 <= n PROVE v[k + 1] \in Nat
    OBVIOUS
  <2>1. k <= n /\ k + 1 \in 1 .. n /\ (k + 1) - 1 = k
    BY <1>2
  <2>2. v[k] \in Nat
    BY <1>5, <2>1
  <2>3. s[k + 1] \in Letter
    BY <1>1, <1>2, <2>1
  <2>4. TextSize[s[k + 1]] \in Nat
    BY <2>3, CorpusAnswerAssumption DEF Letter
  <2>5. v[k + 1] = v[k] + TextSize[s[k + 1]]
    BY <1>3, <2>1 DEF Longer
  <2> QED BY <2>2, <2>4, <2>5
<1> HIDE DEF S
<1>6. n \in S
  BY <1>2, <1>4, <1>5, Lengths!NumberInduction
<1>7. Characters(s) \in Nat
  BY <1>2, <1>3, <1>6 DEF S
<1> DEFINE t == Append(s, c)
<1>8. DOMAIN t = 1 .. (n + 1) /\ (\A k \in 1 .. n : t[k] = s[k]) /\ t[n + 1] = c
  BY <1>1, <1>2
<1> HIDE DEF t
<1>9. Characters(t) = Longer(Characters(s), t[n + 1])
  <2>1. Characters(s) = Lengths!Fold(0, 0, 0, s) /\ Characters(t) = Lengths!Fold(0, 0, 0, t)
    BY DEF Characters, AddLength, FoldLeft, MapThenFoldSet, Max,
           Lengths!Fold, Lengths!FoldLeft, Lengths!MapThenFoldSet, Lengths!Max
  <2>2. Lengths!Fold(0, 0, 0, t) = Longer(Lengths!Fold(0, 0, 0, s), t[n + 1])
    BY <1>2, <1>8, Lengths!FoldAppend DEF AddLength
  <2> QED BY <2>1, <2>2
<1> QED BY <1>7, <1>8, <1>9 DEF t, Longer

\* A batch within its limits, as BatchesFit has it.
Fits(b) == b # <<>> /\ Len(b) <= BatchChunks /\ (Len(b) > 1 => Characters(b) <= BatchCharacters)

\* Batches that hold the chunks of a set, each once.
Holds(p, set) ==
  /\ p \in Seq(Seq(Letter))
  /\ \A i \in DOMAIN p : Fits(p[i])
  /\ Apart(p)
  /\ Pieces(p) = set

\* A chunk that begins a batch of its own.
LEMMA NewBatch ==
  ASSUME NEW p, NEW set, Holds(p, set), NEW c \in Letter \ set
  PROVE  Holds(Append(p, <<c>>), set \cup {c})
<1> DEFINE b == <<c>>  q == Append(p, b)  m == Len(p)
<1>1. b \in Seq(Letter) /\ Len(b) = 1 /\ b # <<>>
  OBVIOUS
<1>2. ToSet(b) = {c} /\ IsInjective(b)
  <2>1. DOMAIN b = {1} /\ b[1] = c
    OBVIOUS
  <2> HIDE DEF b
  <2> QED BY <2>1 DEF ToSet, IsInjective
<1>3. Fits(b)
  BY <1>1, CorpusAnswerAssumption DEF Fits
<1>4. p \in Seq(Seq(Letter))
  BY DEF Holds
<1> HIDE DEF b
<1>5. q \in Seq(Seq(Letter)) /\ m \in Nat /\ DOMAIN p = 1 .. m /\ DOMAIN q = 1 .. (m + 1)
      /\ (\A i \in 1 .. m : q[i] = p[i]) /\ q[m + 1] = b
  BY <1>1, <1>4
<1> HIDE DEF q, m
<1>6. DOMAIN q = DOMAIN p \cup {m + 1} /\ m + 1 \notin DOMAIN p
  BY <1>5
<1>7. \A i \in DOMAIN q : Fits(q[i]) /\ IsInjective(q[i])
  BY <1>2, <1>3, <1>5, <1>6 DEF Holds, Apart
<1>8. \A i \in DOMAIN p : c \notin ToSet(p[i])
  BY DEF Holds, Pieces
<1>9. \A i, j \in DOMAIN q : i # j => ToSet(q[i]) \cap ToSet(q[j]) = {}
  BY <1>2, <1>5, <1>6, <1>8 DEF Holds, Apart
<1>10. Pieces(q) = set \cup {c}
  <2>1. \A x : x \in Pieces(q) <=> (x \in Pieces(p) \/ x \in ToSet(b))
    <3> TAKE x
    <3>1. x \in Pieces(q) <=> \E i \in DOMAIN q : x \in ToSet(q[i])
      BY DEF Pieces
    <3>2. x \in Pieces(p) <=> \E i \in DOMAIN p : x \in ToSet(p[i])
      BY DEF Pieces
    <3> QED BY <1>5, <1>6, <3>1, <3>2
  <2> QED BY <1>2, <2>1 DEF Holds
<1> QED BY <1>5, <1>7, <1>9, <1>10 DEF Holds, Apart, b, q

\* A chunk that joins the last batch, which has room for it.
LEMMA SameBatch ==
  ASSUME NEW p, NEW set, Holds(p, set), NEW c \in Letter \ set, p # <<>>, ~Full(Last(p), c)
  PROVE  Holds([p EXCEPT ![Len(p)] = Append(@, c)], set \cup {c})
<1> DEFINE m == Len(p)  a == p[m]  b == Append(a, c)  q == [p EXCEPT ![m] = b]
<1>1. p \in Seq(Seq(Letter))
  BY DEF Holds
<1>2. m \in Nat /\ m >= 1 /\ DOMAIN p = 1 .. m /\ m \in DOMAIN p /\ a \in Seq(Letter) /\ a = Last(p)
  BY <1>1 DEF Last
<1>3. IsInjective(a) /\ ToSet(a) \subseteq set
  BY <1>2 DEF Holds, Apart, Pieces
<1> HIDE DEF a
<1>4. b \in Seq(Letter) /\ b # <<>> /\ Len(b) = Len(a) + 1 /\ ToSet(b) = ToSet(a) \cup {c} /\ IsInjective(b)
  BY <1>2, <1>3, AppendFacts
<1>5. Fits(b)
  <2>1. Characters(a) \in Nat /\ Characters(b) = Characters(a) + TextSize[c] /\ TextSize[c] \in Nat
    <3>1. TextSize[c] \in Nat
      BY CorpusAnswerAssumption DEF Letter
    <3>2. Characters(a) \in Nat /\ Characters(Append(a, c)) = Characters(a) + TextSize[c]
      BY <1>2, CharactersFacts
    <3> QED BY <3>1, <3>2
  <2>2. BatchChunks \in Nat /\ BatchCharacters \in Nat /\ Len(a) \in Nat
    BY <1>2, CorpusAnswerAssumption
  <2>3. ~(Len(a) >= BatchChunks) /\ ~(Characters(a) + TextSize[c] > BatchCharacters)
    BY <1>2 DEF Full
  <2>4. Len(b) <= BatchChunks
    BY <1>4, <2>2, <2>3
  <2>5. Characters(b) <= BatchCharacters
    BY <2>1, <2>2, <2>3
  <2> QED BY <1>4, <2>4, <2>5 DEF Fits
<1> HIDE DEF b
<1>6. q \in Seq(Seq(Letter)) /\ DOMAIN q = DOMAIN p /\ q[m] = b
      /\ (\A i \in DOMAIN p : i # m => q[i] = p[i])
  BY <1>1, <1>2, <1>4
<1> HIDE DEF q
<1>7. \A i \in DOMAIN q : Fits(q[i]) /\ IsInjective(q[i])
  BY <1>4, <1>5, <1>6 DEF Holds, Apart
<1>8. \A i \in DOMAIN p : c \notin ToSet(p[i])
  BY DEF Holds, Pieces
<1>9. \A i, j \in DOMAIN q : i # j => ToSet(q[i]) \cap ToSet(q[j]) = {}
  <2> SUFFICES ASSUME NEW i \in DOMAIN p, NEW j \in DOMAIN p, i # j
               PROVE  ToSet(q[i]) \cap ToSet(q[j]) = {}
    BY <1>6
  <2>1. ToSet(p[i]) \cap ToSet(p[j]) = {}
    BY DEF Holds, Apart
  <2>2. CASE i = m
    BY <1>4, <1>6, <1>8, <2>1, <2>2 DEF a
  <2>3. CASE j = m
    BY <1>4, <1>6, <1>8, <2>1, <2>3 DEF a
  <2>4. CASE i # m /\ j # m
    BY <1>6, <2>1, <2>4
  <2> QED BY <2>2, <2>3, <2>4
<1>10. Pieces(q) = set \cup {c}
  <2>1. \A x : x \in Pieces(q) <=> (x \in Pieces(p) \/ x = c)
    <3> TAKE x
    <3>1. x \in Pieces(q) <=> \E i \in DOMAIN q : x \in ToSet(q[i])
      BY DEF Pieces
    <3>2. x \in Pieces(p) <=> \E i \in DOMAIN p : x \in ToSet(p[i])
      BY DEF Pieces
    <3>3. \A i \in DOMAIN p : x \in ToSet(q[i]) <=> (x \in ToSet(p[i]) \/ (i = m /\ x = c))
      BY <1>4, <1>6 DEF a
    <3> QED BY <1>2, <1>6, <3>1, <3>2, <3>3
  <2> QED BY <2>1 DEF Holds
<1>11. q = [p EXCEPT ![Len(p)] = Append(@, c)]
  BY DEF q, b, a
<1> QED BY <1>6, <1>7, <1>9, <1>10, <1>11 DEF Holds, Apart

\* Batches cuts any chunks into batches within their limits: all of them, each
\* once and in one batch.
LEMMA BatchesFacts ==
  ASSUME NEW s \in Seq(Letter), IsInjective(s)
  PROVE  Holds(Batches(s), ToSet(s))
<1>1. Len(s) \in Nat /\ DOMAIN s = 1 .. Len(s) /\ \A i \in DOMAIN s : s[i] \in Letter
  OBVIOUS
<1>2. PICK n \in Nat : DOMAIN s = 1 .. n
  BY <1>1
<1>3. PICK v : /\ v[0] = <<>>
               /\ \A k \in 1 .. n : v[k] = Place(v[k - 1], s[k])
               /\ Batches(s) = v[n]
  <2>1. Batches(s) = Placed!Fold(0, 0, <<>>, s)
    BY DEF Batches, AddToBatch, FoldLeft, MapThenFoldSet, Max,
           Placed!Fold, Placed!FoldLeft, Placed!MapThenFoldSet, Placed!Max
  <2> QED BY <1>2, <2>1, Placed!FoldUnrolls DEF AddToBatch
<1> DEFINE First(k) == {s[i] : i \in 1 .. k}
           S == {k \in Nat : k <= n => Holds(v[k], First(k))}
<1>4. 0 \in S
  <2>1. First(0) = {}
    OBVIOUS
  <2>2. DOMAIN <<>> = {} /\ <<>> \in Seq(Seq(Letter))
    OBVIOUS
  <2>3. Holds(<<>>, {})
    BY <2>2 DEF Holds, Apart, Pieces
  <2> QED BY <1>3, <2>1, <2>3
<1>5. ASSUME NEW k \in Nat, k \in S PROVE k + 1 \in S
  <2> SUFFICES ASSUME k + 1 <= n PROVE Holds(v[k + 1], First(k + 1))
    OBVIOUS
  <2>1. k <= n /\ k + 1 \in 1 .. n /\ (k + 1) - 1 = k
    BY <1>2
  <2> DEFINE p == v[k]  c == s[k + 1]  set == First(k)
  <2>2. Holds(p, set) /\ v[k + 1] = Place(p, c)
    <3>1. v[k + 1] = Place(v[k], s[k + 1])
      BY <1>3, <2>1
    <3> QED BY <1>5, <2>1, <3>1
  <2>3. c \in Letter \ set
    <3>1. \A i \in 1 .. k : i \in DOMAIN s /\ i # k + 1
      BY <1>2, <2>1
    <3>2. k + 1 \in DOMAIN s
      BY <1>2, <2>1
    <3>3. \A i \in 1 .. k : s[i] # s[k + 1]
      BY <3>1, <3>2 DEF IsInjective
    <3> QED BY <1>1, <3>2, <3>3
  <2>4. First(k + 1) = set \cup {c}
    <3>1. 1 .. (k + 1) = (1 .. k) \cup {k + 1}
      OBVIOUS
    <3> QED BY <3>1
  <2> HIDE DEF p, c, set, First
  <2>5. Holds(Place(p, c), set \cup {c})
    <3>1. CASE p = <<>> \/ Full(Last(p), c)
      BY <2>2, <2>3, <3>1, NewBatch DEF Place
    <3>2. CASE p # <<>> /\ ~Full(Last(p), c)
      <4>1. Place(p, c) = [p EXCEPT ![Len(p)] = Append(@, c)]
        BY <3>2 DEF Place
      <4>2. Holds([p EXCEPT ![Len(p)] = Append(@, c)], set \cup {c})
        BY <2>2, <2>3, <3>2, SameBatch
      <4> QED BY <4>1, <4>2
    <3> QED BY <3>1, <3>2
  <2> QED BY <2>2, <2>4, <2>5
<1> HIDE DEF S
<1>6. n \in S
  BY <1>2, <1>4, <1>5, Placed!NumberInduction
<1>7. Holds(v[n], First(n))
  BY <1>2, <1>6 DEF S
<1>8. ToSet(s) = First(n)
  BY <1>2 DEF ToSet
<1> QED BY <1>3, <1>7, <1>8

-----------------------------------------------------------------------------
(* Each step of a corpus question *)

\* A question that nobody has asked satisfies the invariant.
LEMMA InitCorpus ==
  CorpusInit => CorpusIInv
<1> SUFFICES ASSUME CorpusInit PROVE CorpusIInv
  OBVIOUS
<1>1. /\ stage = "none" /\ evidence = <<>> /\ examined = 0 /\ matched = 0
      /\ rows = <<>> /\ runRows = <<>> /\ batches = <<>> /\ failed = {}
  BY DEF CorpusInit
<1>2. ReaderTypes
  <2>1. Len(evidence) = 0
    BY <1>1
  <2>2. evidence \in Seq(Letter) /\ rows \in Seq(CorpusRow) /\ runRows \in Seq(CorpusRow)
        /\ batches \in Seq(Seq(Letter))
    BY <1>1, EmptyFacts
  <2> QED BY <1>1, <2>1, <2>2 DEF ReaderTypes
<1>3. ~Working
  BY <1>1 DEF Working
<1>4. BatchesFit
  BY <1>1, EmptyFacts DEF BatchesFit
<1> QED BY <1>1, <1>2, <1>3, <1>4
        DEF CorpusIInv, Queue, Grounds, Once, Whole, Working, RowsRestOnSoundDocuments,
            ExhaustiveReadsAll, ReportAddsUp

\* Steps of the other answerer change nothing here.
LEMMA CorpusStays ==
  ASSUME CorpusIInv, UNCHANGED corpusVars
  PROVE  CorpusIInv'
<1>1. UNCHANGED <<stage, coverage, selected, pending, batches, evidence, examined, runRows,
                  matched, failed, rows, reduced, report>>
  BY DEF corpusVars, working
<1>2. ReaderTypes' /\ BatchesFit'
  BY <1>1 DEF CorpusIInv, ReaderTypes, BatchesFit
<1>3. Queue'
  BY <1>1 DEF CorpusIInv, Queue, Working
<1>4. Grounds' /\ Once' /\ Whole'
  BY <1>1 DEF CorpusIInv, Grounds, Once, Whole, Working, ToBegin, Finished, Grounded, Apart, Pieces
<1>5. RowsRestOnSoundDocuments' /\ ExhaustiveReadsAll' /\ ReportAddsUp'
  BY <1>1 DEF CorpusIInv, RowsRestOnSoundDocuments, ExhaustiveReadsAll, ReportAddsUp, ChunksIn
<1> QED BY <1>2, <1>3, <1>4, <1>5 DEF CorpusIInv

\* While no report is made its properties ask nothing.
LEMMA NoReportYet ==
  ASSUME stage # "reported"
  PROVE  RowsRestOnSoundDocuments /\ ExhaustiveReadsAll /\ ReportAddsUp
BY DEF RowsRestOnSoundDocuments, ExhaustiveReadsAll, ReportAddsUp

\* What the user may name is a sequence.
LEMMA NamedFacts ==
  ASSUME NEW runs \in Selections
  PROVE  (IF runs = <<>> THEN Catalog ELSE runs) \in Seq(ToSet(IF runs = <<>> THEN Catalog ELSE runs))
BY SelectionsAssumption, CorpusAnswerAssumption DEF Document

\* The documents to read are those named, each once.
LEMMA AskCorpusKeeps ==
  ASSUME CorpusIInv, NEW runs \in Selections, NEW mode, AskCorpus(runs, mode)
  PROVE  CorpusIInv'
<1> DEFINE named == IF runs = <<>> THEN Catalog ELSE runs
           chosen == Distinct(named)
<1>1. /\ stage = "none"
      /\ stage' = IF chosen # <<>> /\ ToSet(chosen) \subseteq Document THEN "document" ELSE "raised"
      /\ selected' = chosen /\ pending' = chosen
      /\ UNCHANGED <<batches, evidence, examined, runRows, matched, failed, rows, reduced, report>>
  BY DEF AskCorpus
<1>2. named \in Seq(ToSet(named))
  BY NamedFacts
<1>3. chosen \in Seq(ToSet(named)) /\ IsInjective(chosen)
  <2> HIDE DEF named
  <2> QED BY <1>2, DistinctFacts
<1> HIDE DEF chosen, named
<1>4. /\ evidence = <<>> /\ rows = <<>> /\ matched = 0 /\ failed = {}
      /\ ReaderTypes /\ BatchesFit
  BY <1>1 DEF CorpusIInv, ReaderTypes
<1>5. stage' \in {"document", "raised"}
  BY <1>1
<1>6. ReaderTypes' /\ BatchesFit'
  BY <1>1, <1>4, <1>5 DEF ReaderTypes, BatchesFit
<1>7. Queue'
  <2> SUFFICES ASSUME stage' = "document" PROVE Queue'
    BY <1>5 DEF Queue, Working
  <2>1. ToSet(chosen) \subseteq Document
    BY <1>1
  <2>2. Len(chosen) \in Nat /\ DOMAIN chosen = 1 .. Len(chosen)
    BY <1>3
  <2>3. chosen \in Seq(Document)
    <3>1. \A i \in 1 .. Len(chosen) : chosen[i] \in Document
      BY <2>1, <2>2 DEF ToSet
    <3> QED BY <1>3, <2>2, <3>1
  <2>4. Cardinality(failed') = 0
    BY <1>1, <1>4, FS_EmptySet
  <2>5. matched' + Cardinality(failed') + Len(pending') <= Len(selected')
    BY <1>1, <1>4, <2>2, <2>4
  <2> QED BY <1>1, <1>3, <1>4, <2>3, <2>5 DEF Queue
<1>8. Grounds'
  BY <1>1, <1>4, <1>5, EmptyFacts DEF Grounds
<1>9. Once'
  BY <1>1, <1>4, <1>5, EmptyFacts DEF Once
<1>10. Whole'
  BY <1>1, <1>4, <1>5 DEF Whole, Finished, Working
<1>11. RowsRestOnSoundDocuments' /\ ExhaustiveReadsAll' /\ ReportAddsUp'
  BY <1>5 DEF RowsRestOnSoundDocuments, ExhaustiveReadsAll, ReportAddsUp
<1> QED BY <1>6, <1>7, <1>8, <1>9, <1>10, <1>11 DEF CorpusIInv

\* Whatever the candidates, they are chunks of their document, each once.
LEMMA CandidatesFacts ==
  ASSUME NEW d \in Document, NEW candidates \in Candidates(d)
  PROVE  /\ candidates \in Seq(Letter) /\ IsInjective(candidates)
         /\ ToSet(candidates) \subseteq ToSet(ChunksOf[d])
         /\ coverage = "exhaustive" => ToSet(candidates) = ToSet(ChunksOf[d])
<1>1. ChunksOf[d] \in Seq(Letter) /\ IsInjective(ChunksOf[d])
  BY CorpusAnswerAssumption DEF Letter
<1>2. CASE coverage = "exhaustive"
  BY <1>1, <1>2 DEF Candidates
<1>3. CASE coverage # "exhaustive"
  <2>1. candidates \in Found(d)
    BY <1>3 DEF Candidates
  <2>2. PICK n \in 0 .. PerDocument : candidates \in [1 .. n -> ToSet(ChunksOf[d])]
    BY <2>1 DEF Found
  <2>3. IsInjective(candidates)
    BY <2>1 DEF Found
  <2>4. ToSet(ChunksOf[d]) \subseteq Letter
    BY <1>1, SeqFacts
  <2>5. n \in Nat
    BY CorpusAnswerAssumption
  <2>6. candidates \in Seq(Letter)
    BY <2>2, <2>4, <2>5
  <2>7. ToSet(candidates) \subseteq ToSet(ChunksOf[d])
    BY <2>2 DEF ToSet
  <2> QED BY <1>3, <2>3, <2>6, <2>7
<1> QED BY <1>2, <1>3

\* The chunks of a document are cut into batches, none of which was read before.
LEMMA TakeDocumentKeeps ==
  ASSUME CorpusIInv, TakeDocument
  PROVE  CorpusIInv'
<1> DEFINE d == Head(pending)
<1>1. /\ stage = "document" /\ pending # <<>> /\ stage' = "batch" /\ runRows' = <<>>
      /\ UNCHANGED <<coverage, selected, pending, evidence, examined, matched, failed, rows, reduced, report>>
  BY DEF TakeDocument
<1>2. PICK candidates \in Candidates(d) : batches' = Batches(candidates)
  BY DEF TakeDocument
<1>3. Working /\ ToBegin = pending /\ ToBegin' = Tail(pending)
  BY <1>1 DEF Working, ToBegin
<1>4. /\ pending \in Seq(Document) /\ IsInjective(pending) /\ ToSet(pending) \subseteq ToSet(selected)
  BY <1>3 DEF CorpusIInv, Queue
<1>5. d \in Document /\ d \in ToSet(pending) /\ ToSet(Tail(pending)) \subseteq ToSet(pending)
  BY <1>1, <1>4, TailFacts
<1>6. Head(pending') = d
  BY <1>1
<1> HIDE DEF d
<1>7. /\ candidates \in Seq(Letter) /\ IsInjective(candidates)
      /\ ToSet(candidates) \subseteq ToSet(ChunksOf[d])
      /\ coverage = "exhaustive" => ToSet(candidates) = ToSet(ChunksOf[d])
  BY <1>2, <1>5, CandidatesFacts
<1>8. Holds(batches', ToSet(candidates))
  BY <1>2, <1>7, BatchesFacts
<1>9. ReaderTypes'
  <2>1. batches' \in Seq(Seq(Letter))
    BY <1>8 DEF Holds
  <2>2. runRows' \in Seq(CorpusRow)
    BY <1>1, EmptyFacts
  <2> QED BY <1>1, <2>1, <2>2 DEF CorpusIInv, ReaderTypes
<1>10. BatchesFit'
  <2>1. \A i \in DOMAIN batches' : Fits(batches'[i])
    BY <1>8 DEF Holds
  <2> QED BY <2>1 DEF BatchesFit, Fits, ToSet
<1>11. Queue'
  BY <1>1, <1>3 DEF CorpusIInv, Queue
<1>12. Finished' = Finished
  BY <1>1 DEF Finished
<1>13. Grounds'
  <2>1. \A r \in ToSet(rows) : Grounded(r, Finished)
    BY <1>3 DEF CorpusIInv, Grounds
  <2>2. \A r \in ToSet(rows') : Grounded(r, Finished)'
    BY <1>1, <1>12, <2>1 DEF Grounded
  <2>3. ToSet(runRows') = {}
    BY <1>1, EmptyFacts
  <2> QED BY <2>2, <2>3 DEF Grounds
<1>14. Once'
  <2>1. /\ IsInjective(evidence)
        /\ \A e \in DOMAIN evidence : \E c \in ToSet(selected) \ ToSet(pending) : evidence[e] \in ToSet(ChunksOf[c])
    BY <1>3 DEF CorpusIInv, Once
  <2>2. \A e \in DOMAIN evidence : \E c \in ToSet(selected) \ ToSet(Tail(pending)) : evidence[e] \in ToSet(ChunksOf[c])
    BY <1>5, <2>1
  <2>3. Apart(batches') /\ Pieces(batches') = ToSet(candidates)
    BY <1>8 DEF Holds
  <2>4. ToSet(candidates) \cap ToSet(evidence) = {}
    <3> SUFFICES ASSUME NEW e \in DOMAIN evidence, evidence[e] \in ToSet(candidates) PROVE FALSE
      BY DEF ToSet
    <3>1. PICK c \in ToSet(selected) \ ToSet(pending) : evidence[e] \in ToSet(ChunksOf[c])
      BY <2>1
    <3>2. c # d /\ c \in Document
      <4>1. ToSet(selected) \subseteq Document
        BY <1>3, SeqFacts DEF CorpusIInv, Queue
      <4> QED BY <1>5, <3>1, <4>1
    <3>3. ToSet(ChunksOf[c]) \cap ToSet(ChunksOf[d]) = {}
      BY <1>5, <3>2, CorpusAnswerAssumption
    <3> QED BY <1>7, <3>1, <3>3
  <2>5. Apart(batches)' /\ Pieces(batches)' \subseteq ToSet(ChunksOf[Head(pending')])
        /\ Pieces(batches)' \cap ToSet(evidence') = {}
    BY <1>1, <1>6, <1>7, <2>3, <2>4 DEF Apart, Pieces
  <2> QED BY <1>1, <1>3, <2>1, <2>2, <2>5 DEF Once
<1>15. Whole'
  <2> SUFFICES ASSUME coverage = "exhaustive", failed = {} PROVE Whole'
    BY <1>1 DEF Whole
  <2>1. \A c \in Finished : ToSet(ChunksOf[c]) \subseteq ToSet(evidence)
    BY <1>3 DEF CorpusIInv, Whole
  <2>2. ToSet(ChunksOf[Head(pending')]) \subseteq Pieces(batches')
    BY <1>6, <1>7, <1>8 DEF Holds
  <2>3. Pieces(batches)' = Pieces(batches')
    BY DEF Pieces
  <2> QED BY <1>1, <1>12, <2>1, <2>2, <2>3 DEF Whole
<1>16. RowsRestOnSoundDocuments' /\ ExhaustiveReadsAll' /\ ReportAddsUp'
  BY <1>1 DEF RowsRestOnSoundDocuments, ExhaustiveReadsAll, ReportAddsUp
<1> QED BY <1>9, <1>10, <1>11, <1>13, <1>14, <1>15, <1>16 DEF CorpusIInv

\* A search that raises ends the question without a report.
LEMMA SearchRaisesKeeps ==
  ASSUME CorpusIInv, SearchRaises
  PROVE  CorpusIInv'
<1>1. /\ stage' = "raised" /\ stage = "document"
      /\ UNCHANGED <<batches, evidence, examined, runRows, matched, failed, rows>>
  BY DEF SearchRaises, working
<1>2. ReaderTypes' /\ BatchesFit'
  BY <1>1 DEF CorpusIInv, ReaderTypes, BatchesFit
<1>3. Queue' /\ Grounds' /\ Once' /\ Whole'
  BY <1>1 DEF Queue, Grounds, Once, Whole, Working
<1>4. RowsRestOnSoundDocuments' /\ ExhaustiveReadsAll' /\ ReportAddsUp'
  BY <1>1 DEF RowsRestOnSoundDocuments, ExhaustiveReadsAll, ReportAddsUp
<1> QED BY <1>2, <1>3, <1>4 DEF CorpusIInv

\* The first batch is fresh and apart from the others.
LEMMA FirstBatch ==
  ASSUME CorpusIInv, stage = "batch", batches # <<>>
  PROVE  /\ Head(batches) \in Seq(Letter) /\ IsInjective(Head(batches))
         /\ ToSet(Head(batches)) \cap ToSet(evidence) = {}
         /\ ToSet(Head(batches)) \subseteq ToSet(ChunksOf[Head(pending)])
         /\ Tail(batches) \in Seq(Seq(Letter)) /\ Apart(Tail(batches))
         /\ ToSet(Tail(batches)) \subseteq ToSet(batches)
         /\ Pieces(batches) = ToSet(Head(batches)) \cup Pieces(Tail(batches))
         /\ Pieces(Tail(batches)) \cap ToSet(Head(batches)) = {}
<1> DEFINE b == Head(batches)  r == Tail(batches)
<1>1. batches \in Seq(Seq(Letter))
  BY DEF CorpusIInv, ReaderTypes
<1>2. /\ Apart(batches) /\ Pieces(batches) \subseteq ToSet(ChunksOf[Head(pending)])
      /\ Pieces(batches) \cap ToSet(evidence) = {}
  BY DEF CorpusIInv, Once, Working
<1>3. /\ b \in Seq(Letter) /\ r \in Seq(Seq(Letter)) /\ b = batches[1]
      /\ DOMAIN batches = 1 .. Len(batches) /\ Len(batches) \in Nat /\ Len(batches) >= 1
      /\ DOMAIN r = 1 .. (Len(batches) - 1)
      /\ \A i \in DOMAIN r : i + 1 \in DOMAIN batches /\ r[i] = batches[i + 1]
      /\ ToSet(batches) = {b} \cup ToSet(r)
  BY <1>1, TailFacts
<1> HIDE DEF b, r
<1>4. 1 \in DOMAIN batches /\ \A i \in DOMAIN r : i + 1 # 1
  BY <1>3
<1>5. \A k \in DOMAIN batches : k = 1 \/ \E i \in DOMAIN r : k = i + 1
  <2> TAKE k \in DOMAIN batches
  <2>1. k = 1 \/ (k - 1 \in 1 .. (Len(batches) - 1) /\ k = (k - 1) + 1)
    BY <1>3
  <2> QED BY <1>3, <2>1
<1>6. Apart(r)
  <2>1. \A i \in DOMAIN r : IsInjective(r[i])
    BY <1>2, <1>3 DEF Apart
  <2>2. ASSUME NEW i \in DOMAIN r, NEW j \in DOMAIN r, i # j PROVE ToSet(r[i]) \cap ToSet(r[j]) = {}
    <3>1. i + 1 # j + 1
      BY <1>3, <2>2
    <3> QED BY <1>2, <1>3, <3>1 DEF Apart
  <2> QED BY <2>1, <2>2 DEF Apart
<1>7. Pieces(batches) = ToSet(b) \cup Pieces(r)
  <2>1. \A x : x \in Pieces(batches) <=> (x \in ToSet(b) \/ x \in Pieces(r))
    <3> TAKE x
    <3>1. x \in Pieces(batches) <=> \E k \in DOMAIN batches : x \in ToSet(batches[k])
      BY DEF Pieces
    <3>2. x \in Pieces(r) <=> \E i \in DOMAIN r : x \in ToSet(r[i])
      BY DEF Pieces
    <3> QED BY <1>3, <1>4, <1>5, <3>1, <3>2
  <2> QED BY <2>1
<1>8. Pieces(r) \cap ToSet(b) = {}
  <2>1. \A i \in DOMAIN r : ToSet(r[i]) \cap ToSet(b) = {}
    BY <1>2, <1>3, <1>4 DEF Apart
  <2> QED BY <2>1 DEF Pieces
<1>9. IsInjective(b)
  BY <1>2, <1>3, <1>4 DEF Apart
<1> QED BY <1>2, <1>3, <1>6, <1>7, <1>8, <1>9 DEF b, r

\* A batch that is sent becomes evidence, under the numbers that follow.
LEMMA SendBatchFacts ==
  ASSUME CorpusIInv, SendBatch
  PROVE  /\ stage = "batch" /\ batches # <<>>
         /\ evidence' \in Seq(Letter) /\ examined' = Len(evidence')
         /\ IsInjective(evidence')
         /\ ToSet(evidence') = ToSet(evidence) \cup ToSet(Head(batches))
         /\ DOMAIN evidence \subseteq DOMAIN evidence'
         /\ \A e \in DOMAIN evidence : evidence'[e] = evidence[e]
         /\ BatchNumbers \subseteq DOMAIN evidence'
         /\ \A e \in BatchNumbers : evidence'[e] \in ToSet(ChunksOf[Head(pending)])
         /\ \A e \in DOMAIN evidence' : \E d \in ToSet(selected) \ ToSet(Tail(pending)) :
                evidence'[e] \in ToSet(ChunksOf[d])
<1> DEFINE b == Head(batches)
<1>1. /\ stage = "batch" /\ batches # <<>> /\ evidence' = evidence \o b
      /\ examined' = examined + Len(b)
  BY DEF SendBatch
<1>2. /\ b \in Seq(Letter) /\ IsInjective(b) /\ ToSet(b) \cap ToSet(evidence) = {}
      /\ ToSet(b) \subseteq ToSet(ChunksOf[Head(pending)])
  BY <1>1, FirstBatch
<1>3. Working /\ ToBegin = Tail(pending)
  BY <1>1 DEF Working, ToBegin
<1>4. evidence \in Seq(Letter) /\ examined = Len(evidence) /\ IsInjective(evidence)
  BY <1>3 DEF CorpusIInv, ReaderTypes, Once
<1>5. BatchNumbers = {Len(evidence) + i : i \in DOMAIN b}
  BY DEF BatchNumbers
<1> HIDE DEF b
<1>6. /\ evidence' \in Seq(Letter) /\ Len(evidence') = Len(evidence) + Len(b)
      /\ DOMAIN evidence \subseteq DOMAIN evidence'
      /\ \A i \in DOMAIN evidence : evidence'[i] = evidence[i]
      /\ \A i \in DOMAIN b : Len(evidence) + i \in DOMAIN evidence' /\ evidence'[Len(evidence) + i] = b[i]
      /\ ToSet(evidence') = ToSet(evidence) \cup ToSet(b)
      /\ IsInjective(evidence')
  BY <1>1, <1>2, <1>4, ConcatFacts
<1>7. BatchNumbers \subseteq DOMAIN evidence' /\ \A e \in BatchNumbers : evidence'[e] \in ToSet(b)
  <2>1. \A i \in DOMAIN b : b[i] \in ToSet(b)
    BY DEF ToSet
  <2> QED BY <1>5, <1>6, <2>1
<1>8. Head(pending) \in ToSet(selected) \ ToSet(Tail(pending))
  <2>1. pending \in Seq(Document) /\ pending # <<>> /\ IsInjective(pending) /\ ToSet(pending) \subseteq ToSet(selected)
    BY <1>1, <1>3 DEF CorpusIInv, Queue
  <2>2. Head(pending) \in ToSet(pending) /\ Head(pending) \notin ToSet(Tail(pending))
    BY <2>1, TailFacts
  <2> QED BY <2>1, <2>2
<1>9. ASSUME NEW e \in DOMAIN evidence'
      PROVE  \E d \in ToSet(selected) \ ToSet(Tail(pending)) : evidence'[e] \in ToSet(ChunksOf[d])
  <2>1. evidence'[e] \in ToSet(evidence) \cup ToSet(b)
    <3>1. evidence'[e] \in ToSet(evidence')
      BY DEF ToSet
    <3> QED BY <1>6, <3>1
  <2>2. CASE evidence'[e] \in ToSet(b)
    BY <1>2, <1>8, <2>2
  <2>3. CASE evidence'[e] \in ToSet(evidence)
    <3>1. PICK i \in DOMAIN evidence : evidence'[e] = evidence[i]
      BY <2>3 DEF ToSet
    <3>2. \E d \in ToSet(selected) \ ToSet(Tail(pending)) : evidence[i] \in ToSet(ChunksOf[d])
      BY <1>3 DEF CorpusIInv, Once
    <3> QED BY <3>1, <3>2
  <2> QED BY <2>1, <2>2, <2>3
<1>10. examined' = Len(evidence')
  BY <1>1, <1>4, <1>6
<1> QED BY <1>1, <1>2, <1>6, <1>7, <1>9, <1>10 DEF b

\* Rows that pass the check cite allowed numbers only.
LEMMA RepliesFacts ==
  ASSUME NEW allowed, NEW n \in Nat, NEW reply \in Replies(allowed, n), Len(evidence) \in Nat
  PROVE  /\ reply \in Seq(CorpusRow)
         /\ \A r \in ToSet(reply) : r.citations # {} /\ r.citations \subseteq allowed
<1>1. reply \in [1 .. n -> {row \in Row : Supports(allowed, row)}]
  BY DEF Replies
<1>2. ASSUME NEW row \in Row PROVE row \in CorpusRow /\ row.citations # {}
  <2>1. \A i \in 1 .. (Len(evidence) + BatchChunks + 1) : i \in Nat
    BY CorpusAnswerAssumption
  <2>2. (SUBSET (1 .. (Len(evidence) + BatchChunks + 1))) \ {{}} \subseteq SUBSET Nat
    BY <2>1
  <2> QED BY <2>2 DEF Row, CorpusRow
<1>3. \A i \in 1 .. n : reply[i] \in CorpusRow /\ reply[i].citations # {} /\ reply[i].citations \subseteq allowed
  BY <1>1, <1>2 DEF Supports
<1>4. DOMAIN reply = 1 .. n /\ reply \in [1 .. n -> CorpusRow]
  BY <1>1, <1>3
<1> QED BY <1>3, <1>4 DEF ToSet

\* Evidence that only grows still grounds a row.
LEMMA StillGrounded ==
  ASSUME NEW r, NEW D, NEW E, D \subseteq E, Grounded(r, D),
         DOMAIN evidence \subseteq DOMAIN evidence', \A e \in DOMAIN evidence : evidence'[e] = evidence[e]
  PROVE  /\ r.citations # {} /\ r.citations \subseteq DOMAIN evidence'
         /\ \A e \in r.citations : \E d \in E : evidence'[e] \in ToSet(ChunksOf[d])
BY DEF Grounded

\* A batch that is mapped adds rows that cite it.
LEMMA MapBatchKeeps ==
  ASSUME CorpusIInv, MapBatch
  PROVE  CorpusIInv'
<1>1. /\ SendBatch /\ batches' = Tail(batches)
      /\ UNCHANGED <<stage, coverage, selected, pending, matched, failed, rows, reduced, report>>
  BY DEF MapBatch
<1>0. PICK n \in 0 .. MapRows : \E reply \in Replies(BatchNumbers, n) : runRows' = runRows \o reply
  BY DEF MapBatch
<1>2. PICK reply \in Replies(BatchNumbers, n) : runRows' = runRows \o reply
  BY <1>0
<1>3. /\ stage = "batch" /\ batches # <<>>
      /\ evidence' \in Seq(Letter) /\ examined' = Len(evidence')
      /\ IsInjective(evidence')
      /\ ToSet(evidence') = ToSet(evidence) \cup ToSet(Head(batches))
      /\ DOMAIN evidence \subseteq DOMAIN evidence'
      /\ \A e \in DOMAIN evidence : evidence'[e] = evidence[e]
      /\ BatchNumbers \subseteq DOMAIN evidence'
      /\ \A e \in BatchNumbers : evidence'[e] \in ToSet(ChunksOf[Head(pending)])
      /\ \A e \in DOMAIN evidence' : \E d \in ToSet(selected) \ ToSet(Tail(pending)) :
             evidence'[e] \in ToSet(ChunksOf[d])
  BY <1>1, SendBatchFacts
<1>4. Working /\ ToBegin = Tail(pending) /\ ToBegin' = Tail(pending) /\ Finished' = Finished
  BY <1>1, <1>3 DEF Working, ToBegin, Finished
<1>5. /\ ToSet(Head(batches)) \cap ToSet(evidence) = {}
      /\ Tail(batches) \in Seq(Seq(Letter)) /\ Apart(Tail(batches))
      /\ ToSet(Tail(batches)) \subseteq ToSet(batches)
      /\ Pieces(batches) = ToSet(Head(batches)) \cup Pieces(Tail(batches))
      /\ Pieces(Tail(batches)) \cap ToSet(Head(batches)) = {}
  BY <1>3, FirstBatch
<1>6. /\ runRows \in Seq(CorpusRow) /\ reply \in Seq(CorpusRow)
      /\ \A r \in ToSet(reply) : r.citations # {} /\ r.citations \subseteq BatchNumbers
  <2>1. n \in Nat
    BY CorpusAnswerAssumption
  <2>2. Len(evidence) \in Nat /\ runRows \in Seq(CorpusRow)
    BY DEF CorpusIInv, ReaderTypes
  <2> QED BY <2>1, <2>2, RepliesFacts
<1>7. runRows' \in Seq(CorpusRow) /\ ToSet(runRows') = ToSet(runRows) \cup ToSet(reply)
  BY <1>2, <1>6, ConcatFacts
<1>8. ReaderTypes'
  BY <1>1, <1>3, <1>5, <1>7 DEF CorpusIInv, ReaderTypes
<1>9. BatchesFit'
  BY <1>1, <1>5 DEF CorpusIInv, BatchesFit
<1>10. Queue'
  BY <1>1, <1>3 DEF CorpusIInv, Queue, Working
<1>11. Grounds'
  <2>1. ASSUME NEW r \in ToSet(rows) PROVE Grounded(r, Finished)'
    <3>1. Grounded(r, Finished)
      BY <1>4 DEF CorpusIInv, Grounds
    <3> QED BY <1>3, <1>4, <3>1, StillGrounded DEF Grounded
  <2>2. ASSUME NEW r \in ToSet(runRows') PROVE Grounded(r, {Head(pending)})'
    <3>1. CASE r \in ToSet(runRows)
      <4>1. Grounded(r, {Head(pending)})
        BY <1>3, <3>1 DEF CorpusIInv, Grounds
      <4> QED BY <1>1, <1>3, <4>1, StillGrounded DEF Grounded
    <3>2. CASE r \in ToSet(reply)
      BY <1>1, <1>3, <1>6, <3>2 DEF Grounded
    <3> QED BY <1>7, <3>1, <3>2
  <2> QED BY <1>1, <2>1, <2>2 DEF Grounds
<1>12. Once'
  <2>1. Apart(Tail(batches)) /\ Pieces(Tail(batches)) \subseteq ToSet(ChunksOf[Head(pending)])
    BY <1>3, <1>4, <1>5 DEF CorpusIInv, Once
  <2>2. Pieces(Tail(batches)) \cap ToSet(evidence') = {}
    BY <1>3, <1>4, <1>5 DEF CorpusIInv, Once
  <2>3. Apart(batches)' /\ Pieces(batches)' = Pieces(Tail(batches))
    BY <1>1, <1>5 DEF Apart, Pieces
  <2> QED BY <1>1, <1>3, <1>4, <2>1, <2>2, <2>3 DEF Once
<1>13. Whole'
  <2> SUFFICES ASSUME coverage = "exhaustive", failed = {} PROVE Whole'
    BY <1>1 DEF Whole
  <2>1. \A d \in Finished : ToSet(ChunksOf[d]) \subseteq ToSet(evidence)
    BY <1>4 DEF CorpusIInv, Whole
  <2>2. ToSet(ChunksOf[Head(pending)]) \subseteq ToSet(evidence) \cup Pieces(batches)
    BY <1>3, <1>4 DEF CorpusIInv, Whole
  <2>3. Pieces(batches)' = Pieces(Tail(batches))
    BY <1>1 DEF Pieces
  <2>4. ToSet(ChunksOf[Head(pending)]) \subseteq ToSet(evidence') \cup Pieces(batches)'
    BY <1>3, <1>5, <2>2, <2>3
  <2> QED BY <1>1, <1>3, <1>4, <2>1, <2>4 DEF Whole
<1>14. RowsRestOnSoundDocuments' /\ ExhaustiveReadsAll' /\ ReportAddsUp'
  BY <1>1, <1>3 DEF RowsRestOnSoundDocuments, ExhaustiveReadsAll, ReportAddsUp
<1> QED BY <1>8, <1>9, <1>10, <1>11, <1>12, <1>13, <1>14 DEF CorpusIInv

\* A failed batch has been read, and its document is given up.
LEMMA MapFailsKeeps ==
  ASSUME CorpusIInv, MapFails
  PROVE  CorpusIInv'
<1> DEFINE h == Head(pending)  rest == Tail(pending)
<1>1. /\ SendBatch /\ failed' = failed \cup {h} /\ pending' = rest
      /\ batches' = <<>> /\ stage' = "document"
      /\ UNCHANGED <<coverage, selected, runRows, matched, rows, reduced, report>>
  BY DEF MapFails
<1>2. /\ stage = "batch"
      /\ evidence' \in Seq(Letter) /\ examined' = Len(evidence')
      /\ IsInjective(evidence')
      /\ DOMAIN evidence \subseteq DOMAIN evidence'
      /\ \A e \in DOMAIN evidence : evidence'[e] = evidence[e]
      /\ \A e \in DOMAIN evidence' : \E d \in ToSet(selected) \ ToSet(rest) :
             evidence'[e] \in ToSet(ChunksOf[d])
  BY <1>1, SendBatchFacts
<1>3. Working
  BY <1>2 DEF Working
<1>4. /\ selected \in Seq(Document) /\ IsInjective(selected)
      /\ pending \in Seq(Document) /\ IsInjective(pending) /\ pending # <<>>
      /\ ToSet(pending) \subseteq ToSet(selected)
      /\ failed \subseteq ToSet(selected) \ ToSet(pending)
      /\ matched + Cardinality(failed) + Len(pending) <= Len(selected)
      /\ rows # <<>> => matched > 0
  BY <1>2, <1>3 DEF CorpusIInv, Queue
<1>5. /\ h \in ToSet(pending) /\ rest \in Seq(Document) /\ IsInjective(rest)
      /\ ToSet(pending) = {h} \cup ToSet(rest) /\ h \notin ToSet(rest)
      /\ Len(rest) = Len(pending) - 1 /\ Len(pending) \in Nat
  BY <1>4, TailFacts
<1>6. ToBegin' = rest
  BY <1>1 DEF ToBegin
<1> HIDE DEF h, rest
<1>7. ReaderTypes'
  <2>1. batches' \in Seq(Seq(Letter))
    BY <1>1, EmptyFacts
  <2> QED BY <1>1, <1>2, <2>1 DEF CorpusIInv, ReaderTypes
<1>8. BatchesFit'
  BY <1>1, EmptyFacts DEF BatchesFit
<1>9. Queue'
  <2>1. IsFiniteSet(failed) /\ h \notin failed
    <3>1. IsFiniteSet(ToSet(selected))
      BY <1>4, SequenceSize
    <3>2. failed \subseteq ToSet(selected)
      BY <1>4
    <3>3. IsFiniteSet(failed)
      BY <3>1, <3>2, FS_Subset
    <3> QED BY <1>4, <1>5, <3>3
  <2>2. Cardinality(failed') = Cardinality(failed) + 1 /\ Cardinality(failed) \in Nat
    BY <1>1, <2>1, FS_AddElement, FS_CardinalityType
  <2>3. matched \in Nat /\ Len(selected) \in Nat
    BY <1>4 DEF CorpusIInv, ReaderTypes
  <2>4. matched + Cardinality(failed') + Len(rest) <= Len(selected)
    BY <1>4, <1>5, <2>2, <2>3
  <2>5. ToSet(rest) \subseteq ToSet(selected) /\ failed' \subseteq ToSet(selected) \ ToSet(rest)
    BY <1>1, <1>4, <1>5
  <2> QED BY <1>1, <1>4, <1>5, <2>4, <2>5 DEF Queue
<1>10. Finished' = Finished
  BY <1>1, <1>5 DEF Finished
<1>11. Grounds'
  <2>1. ASSUME NEW r \in ToSet(rows) PROVE Grounded(r, Finished)'
    <3>1. Grounded(r, Finished)
      BY <1>3 DEF CorpusIInv, Grounds
    <3> QED BY <1>2, <1>10, <3>1, StillGrounded DEF Grounded
  <2> QED BY <1>1, <2>1 DEF Grounds
<1>12. Once'
  BY <1>1, <1>2, <1>6 DEF Once
<1>13. Whole'
  BY <1>1 DEF Whole
<1>14. RowsRestOnSoundDocuments' /\ ExhaustiveReadsAll' /\ ReportAddsUp'
  BY <1>1 DEF RowsRestOnSoundDocuments, ExhaustiveReadsAll, ReportAddsUp
<1> QED BY <1>7, <1>8, <1>9, <1>11, <1>12, <1>13, <1>14 DEF CorpusIInv

\* The rows of a document that was read to its end join the others.
LEMMA FinishDocumentKeeps ==
  ASSUME CorpusIInv, FinishDocument
  PROVE  CorpusIInv'
<1> DEFINE h == Head(pending)  rest == Tail(pending)
<1>1. /\ stage = "batch" /\ batches = <<>> /\ stage' = "document" /\ pending' = rest
      /\ rows' = rows \o Deduplicated(runRows)
      /\ matched' = matched + (IF runRows = <<>> THEN 0 ELSE 1)
      /\ UNCHANGED <<coverage, selected, batches, evidence, examined, runRows, failed, reduced, report>>
  BY DEF FinishDocument
<1>2. Working /\ ToBegin = rest /\ ToBegin' = rest
  BY <1>1 DEF Working, ToBegin
<1>3. /\ selected \in Seq(Document) /\ IsInjective(selected)
      /\ pending \in Seq(Document) /\ IsInjective(pending) /\ pending # <<>>
      /\ ToSet(pending) \subseteq ToSet(selected)
      /\ failed \subseteq ToSet(selected) \ ToSet(pending)
      /\ matched + Cardinality(failed) + Len(pending) <= Len(selected)
      /\ rows # <<>> => matched > 0
  BY <1>1, <1>2 DEF CorpusIInv, Queue
<1>4. /\ h \in ToSet(pending) /\ rest \in Seq(Document) /\ IsInjective(rest)
      /\ ToSet(pending) = {h} \cup ToSet(rest) /\ h \notin ToSet(rest)
      /\ Len(rest) = Len(pending) - 1 /\ Len(pending) \in Nat
  BY <1>3, TailFacts
<1> HIDE DEF h, rest
<1>5. /\ ReaderTypes /\ rows \in Seq(CorpusRow) /\ runRows \in Seq(CorpusRow) /\ matched \in Nat
  BY DEF CorpusIInv, ReaderTypes
<1>6. /\ Deduplicated(runRows) \in Seq(CorpusRow) /\ ToSet(Deduplicated(runRows)) \subseteq ToSet(runRows)
  BY <1>5, DeduplicatedFacts
<1>7. rows' \in Seq(CorpusRow) /\ ToSet(rows') = ToSet(rows) \cup ToSet(Deduplicated(runRows))
  BY <1>1, <1>5, <1>6, ConcatFacts
<1>8. matched' \in Nat /\ matched' <= matched + 1 /\ matched' >= matched
      /\ (runRows # <<>> => matched' > 0)
  BY <1>1, <1>5
<1>9. ReaderTypes'
  BY <1>1, <1>5, <1>7, <1>8 DEF ReaderTypes
<1>10. BatchesFit'
  BY <1>1, EmptyFacts DEF BatchesFit
<1>11. Queue'
  <2>1. IsFiniteSet(failed) /\ Len(selected) \in Nat
    <3>1. IsFiniteSet(ToSet(selected)) /\ Len(selected) \in Nat
      BY <1>3, SequenceSize
    <3>2. failed \subseteq ToSet(selected)
      BY <1>3
    <3> QED BY <3>1, <3>2, FS_Subset
  <2>2. Cardinality(failed) \in Nat
    BY <2>1, FS_CardinalityType
  <2>3. matched' + Cardinality(failed) + Len(rest) <= Len(selected)
    BY <1>3, <1>4, <1>5, <1>8, <2>1, <2>2
  <2>4. rows' # <<>> => matched' > 0
    <3>1. CASE rows # <<>>
      BY <1>3, <1>5, <1>8, <3>1
    <3>2. CASE runRows # <<>>
      BY <1>8, <3>2
    <3>3. CASE rows = <<>> /\ runRows = <<>>
      <4>1. ToSet(rows') = {}
        BY <1>6, <1>7, <3>3, EmptyFacts
      <4> QED BY <1>7, <4>1, SeqFacts
    <3> QED BY <3>1, <3>2, <3>3
  <2>5. ToSet(rest) \subseteq ToSet(selected) /\ failed \subseteq ToSet(selected) \ ToSet(rest)
    BY <1>3, <1>4
  <2> QED BY <1>1, <1>3, <1>4, <2>3, <2>4, <2>5 DEF Queue
<1>12. Finished' = Finished \cup {h}
  BY <1>1, <1>3, <1>4 DEF Finished
<1>13. Grounds'
  <2>1. ASSUME NEW r \in ToSet(rows') PROVE Grounded(r, Finished)'
    <3>1. CASE r \in ToSet(rows)
      <4>1. Grounded(r, Finished)
        BY <1>2, <3>1 DEF CorpusIInv, Grounds
      <4> QED BY <1>1, <1>12, <4>1 DEF Grounded
    <3>2. CASE r \in ToSet(runRows)
      <4>1. Grounded(r, {h})
        BY <1>1, <3>2 DEF CorpusIInv, Grounds, h
      <4> QED BY <1>1, <1>12, <4>1 DEF Grounded
    <3> QED BY <1>6, <1>7, <3>1, <3>2
  <2> QED BY <1>1, <2>1 DEF Grounds
<1>14. Once'
  BY <1>1, <1>2 DEF CorpusIInv, Once
<1>15. Whole'
  <2> SUFFICES ASSUME coverage = "exhaustive", failed = {} PROVE Whole'
    BY <1>1 DEF Whole
  <2>1. \A d \in Finished : ToSet(ChunksOf[d]) \subseteq ToSet(evidence)
    BY <1>2 DEF CorpusIInv, Whole
  <2>2. ToSet(ChunksOf[h]) \subseteq ToSet(evidence) \cup Pieces(batches)
    BY <1>1, <1>2 DEF CorpusIInv, Whole, h
  <2>3. Pieces(batches) = {}
    <3>1. DOMAIN batches = {}
      BY <1>1
    <3> QED BY <3>1 DEF Pieces
  <2> QED BY <1>1, <1>12, <2>1, <2>2, <2>3 DEF Whole
<1>16. RowsRestOnSoundDocuments' /\ ExhaustiveReadsAll' /\ ReportAddsUp'
  BY <1>1 DEF RowsRestOnSoundDocuments, ExhaustiveReadsAll, ReportAddsUp
<1> QED BY <1>9, <1>10, <1>11, <1>13, <1>14, <1>15, <1>16 DEF CorpusIInv

\* The chunks of some documents can be counted.
LEMMA ChunksInFinite ==
  ASSUME NEW s \in Seq(Document)
  PROVE  IsFiniteSet(ChunksIn(s))
<1> DEFINE f == [i \in 1 .. Len(s) |-> ToSet(ChunksOf[s[i]])]
           X == {ToSet(ChunksOf[d]) : d \in ToSet(s)}
<1>1. Len(s) \in Nat /\ DOMAIN s = 1 .. Len(s) /\ \A i \in DOMAIN s : s[i] \in Document
  OBVIOUS
<1>2. \A x \in X : IsFiniteSet(x)
  <2> SUFFICES ASSUME NEW d \in ToSet(s) PROVE IsFiniteSet(ToSet(ChunksOf[d]))
    OBVIOUS
  <2>1. d \in Document
    BY <1>1 DEF ToSet
  <2>2. ChunksOf[d] \in Seq(Letter)
    BY <2>1, CorpusAnswerAssumption DEF Letter
  <2> QED BY <2>2, SequenceSize
<1>3. \A x \in X : \E i \in 1 .. Len(s) : f[i] = x
  BY <1>1 DEF ToSet
<1>4. \A i \in 1 .. Len(s) : f[i] \in X
  <2> SUFFICES ASSUME NEW i \in 1 .. Len(s) PROVE ToSet(ChunksOf[s[i]]) \in X
    OBVIOUS
  <2>1. s[i] \in ToSet(s)
    BY <1>1 DEF ToSet
  <2> QED BY <2>1
<1> HIDE DEF X
<1>5. f \in Surjection(1 .. Len(s), X)
  BY <1>3, <1>4 DEF Surjection
<1>6. IsFiniteSet(1 .. Len(s))
  BY <1>1, FS_Interval
<1>7. IsFiniteSet(X)
  BY <1>5, <1>6, FS_Surjection
<1> QED BY <1>2, <1>7, FS_UNION DEF ChunksIn, X

\* A report made when all documents are mapped, whose rows cite what the rows
\* of the documents cite, has the properties of a report.
LEMMA FinishKeeps ==
  ASSUME CorpusIInv, AllMapped, NEW items \in Seq(CorpusRow), NEW reductionFailed \in BOOLEAN,
         Finish(items, reductionFailed),
         \A r \in ToSet(items) : r.citations # {} /\ r.citations \subseteq Cited(rows),
         items # <<>> => rows # <<>> /\ ~reductionFailed,
         reductionFailed => rows # <<>>
  PROVE  CorpusIInv'
<1>1. /\ rows' = items /\ stage' = "reported" /\ report' = Report(items, reductionFailed)
      /\ UNCHANGED <<coverage, selected, pending, batches, evidence, examined, runRows, matched, failed>>
  BY DEF Finish, working
<1>2. stage = "document" /\ pending = <<>> /\ Working /\ ToBegin = pending
  BY DEF AllMapped, Working, ToBegin
<1>3. ToSet(pending) = {}
  BY <1>2, EmptyFacts
<1>4. Finished = ToSet(selected) \ failed
  BY <1>3 DEF Finished
<1>5. /\ evidence \in Seq(Letter) /\ examined = Len(evidence) /\ matched \in Nat
      /\ IsInjective(evidence)
      /\ selected \in Seq(Document) /\ IsInjective(selected)
      /\ failed \subseteq ToSet(selected)
      /\ matched + Cardinality(failed) + Len(pending) <= Len(selected)
      /\ rows # <<>> => matched > 0
  BY <1>2 DEF CorpusIInv, ReaderTypes, Once, Queue
<1>6. ReaderTypes' /\ BatchesFit'
  BY <1>1 DEF CorpusIInv, ReaderTypes, BatchesFit
<1>7. Queue' /\ Grounds' /\ Once' /\ Whole'
  BY <1>1 DEF Queue, Grounds, Once, Whole, Working
<1>8. /\ report'.rows = items /\ report'.requested = Len(selected) /\ report'.matched = matched
      /\ report'.available = Cardinality(ChunksIn(selected)) /\ report'.examined = examined
      /\ report'.failed = failed /\ report'.reductionFailed = reductionFailed
      /\ report'.status = "answered" => items # <<>>
  BY <1>1 DEF Report
<1>9. RowsRestOnSoundDocuments'
  <2>1. ASSUME NEW r \in ToSet(items), NEW e \in r.citations
        PROVE  e \in DOMAIN evidence /\ \E d \in ToSet(selected) \ failed : evidence[e] \in ToSet(ChunksOf[d])
    <3>1. PICK q \in ToSet(rows) : e \in q.citations
      BY <2>1 DEF Cited
    <3>2. Grounded(q, Finished)
      BY <1>2, <3>1 DEF CorpusIInv, Grounds
    <3> QED BY <1>4, <3>1, <3>2 DEF Grounded
  <2> QED BY <1>1, <1>8, <2>1 DEF RowsRestOnSoundDocuments
<1>10. ExhaustiveReadsAll'
  <2>1. IsFiniteSet(ChunksIn(selected))
    BY <1>5, ChunksInFinite
  <2>2. IsFiniteSet(ToSet(evidence)) /\ Cardinality(ToSet(evidence)) = Len(evidence)
    BY <1>5, InjectiveLength
  <2>3. ToSet(evidence) \subseteq ChunksIn(selected)
    <3>1. \A e \in DOMAIN evidence : \E d \in ToSet(selected) : evidence[e] \in ToSet(ChunksOf[d])
      BY <1>2 DEF CorpusIInv, Once
    <3>2. ASSUME NEW x \in ToSet(evidence) PROVE x \in ChunksIn(selected)
      <4>1. PICK e \in DOMAIN evidence : x = evidence[e]
        BY DEF ToSet
      <4>2. PICK d \in ToSet(selected) : evidence[e] \in ToSet(ChunksOf[d])
        BY <3>1
      <4> QED BY <4>1, <4>2 DEF ChunksIn
    <3> QED BY <3>2
  <2>4. examined <= Cardinality(ChunksIn(selected))
    BY <1>5, <2>1, <2>2, <2>3, FS_Subset
  <2>5. ASSUME coverage = "exhaustive", failed = {}
        PROVE  examined = Cardinality(ChunksIn(selected)) /\ ToSet(evidence) = ChunksIn(selected)
    <3>1. \A d \in ToSet(selected) : ToSet(ChunksOf[d]) \subseteq ToSet(evidence)
      BY <1>2, <1>4, <2>5 DEF CorpusIInv, Whole
    <3>2. ToSet(evidence) = ChunksIn(selected)
      BY <2>3, <3>1 DEF ChunksIn
    <3> QED BY <1>5, <2>2, <3>2
  <2>6. ChunksIn(selected)' = ChunksIn(selected)
    BY <1>1 DEF ChunksIn
  <2> QED BY <1>1, <1>5, <1>8, <2>4, <2>5, <2>6 DEF ExhaustiveReadsAll
<1>11. ReportAddsUp'
  <2>1. matched + Cardinality(failed) <= Len(selected)
    <3>1. Len(pending) = 0
      BY <1>2
    <3>2. IsFiniteSet(ToSet(selected))
      BY <1>5, SequenceSize
    <3>3. Cardinality(failed) \in Nat
      BY <1>5, <3>2, FS_Subset, FS_CardinalityType
    <3> QED BY <1>5, <3>1, <3>3
  <2> QED BY <1>1, <1>5, <1>8, <2>1 DEF ReportAddsUp
<1> QED BY <1>6, <1>7, <1>9, <1>10, <1>11 DEF CorpusIInv

\* The three ways to end: nothing to reduce, the reducer's rows, or no rows.
LEMMA ReduceKeeps ==
  ASSUME CorpusIInv, NothingToReduce \/ Reduce \/ ReduceFails
  PROVE  CorpusIInv'
<1>1. AllMapped /\ Len(evidence) \in Nat
  <2>1. AllMapped
    BY Zenon DEF NothingToReduce, Reduce, ReduceFails
  <2>2. evidence \in Seq(Letter)
    BY DEF CorpusIInv, ReaderTypes
  <2> QED BY <2>1, <2>2
<1>2. <<>> \in Seq(CorpusRow) /\ ToSet(<<>>) = {}
  BY EmptyFacts
<1>3. CASE NothingToReduce
  <2>1. rows = <<>> /\ Finish(<<>>, FALSE)
    BY <1>3 DEF NothingToReduce
  <2> QED BY <1>1, <1>2, <2>1, FinishKeeps
<1>4. CASE ReduceFails
  <2>1. rows # <<>> /\ Finish(<<>>, TRUE)
    BY <1>4 DEF ReduceFails
  <2> QED BY <1>1, <1>2, <2>1, FinishKeeps
<1>5. CASE Reduce
  <2>1. rows # <<>> /\ \E n \in 0 .. ReduceRows : \E reply \in Replies(Cited(rows), n) : Finish(Deduplicated(reply), FALSE)
    BY <1>5 DEF Reduce
  <2>2. PICK n \in 0 .. ReduceRows : \E reply \in Replies(Cited(rows), n) : Finish(Deduplicated(reply), FALSE)
    BY <2>1
  <2>3. PICK reply \in Replies(Cited(rows), n) : Finish(Deduplicated(reply), FALSE)
    BY <2>2
  <2>4. n \in Nat
    BY CorpusAnswerAssumption
  <2>5. reply \in Seq(CorpusRow) /\ \A r \in ToSet(reply) : r.citations # {} /\ r.citations \subseteq Cited(rows)
    BY <1>1, <2>4, RepliesFacts
  <2>6. Deduplicated(reply) \in Seq(CorpusRow) /\ ToSet(Deduplicated(reply)) \subseteq ToSet(reply)
    BY <2>5, DeduplicatedFacts
  <2> QED BY <1>1, <2>1, <2>3, <2>5, <2>6, FinishKeeps
<1> QED BY <1>3, <1>4, <1>5

\* Every step of the answerer.
LEMMA StepKeepsCorpus ==
  CorpusIInv /\ [Next]_vars => CorpusIInv'
<1> SUFFICES ASSUME CorpusIInv, [Next]_vars PROVE CorpusIInv'
  OBVIOUS
<1>1. CASE UNCHANGED corpusVars
  BY <1>1, CorpusStays
<1>2. CASE Ask \/ Focused \/ UNCHANGED vars
  BY <1>1, <1>2 DEF Ask, Focused, vars
<1>3. CASE Route
  <2>1. (\E runs \in Selections : AskCorpus(runs, plan.coverage)) \/ UNCHANGED corpusVars
    BY <1>3 DEF Route
  <2> QED BY <1>1, <2>1, AskCorpusKeeps
<1>4. CASE Corpus
  <2>1. CorpusNext
    BY <1>4 DEF Corpus
  <2> QED BY <2>1, TakeDocumentKeeps, SearchRaisesKeeps, MapBatchKeeps, MapFailsKeeps,
             FinishDocumentKeeps, ReduceKeeps DEF CorpusNext
<1> QED BY <1>2, <1>3, <1>4 DEF Next

\* CorpusIInv is an invariant of the answerer, for every catalog, every limit
\* and whatever the model replies.
THEOREM CorpusInvariant == Spec => []CorpusIInv
<1>1. Init => CorpusIInv
  BY InitCorpus DEF Init
<1> QED BY <1>1, StepKeepsCorpus, PTL DEF Spec

\* Every row of a report rests on evidence of documents none of whose batches
\* failed, whatever the model cites.
THEOREM ReportIsGrounded == Spec => []RowsRestOnSoundDocuments
<1>1. CorpusIInv => RowsRestOnSoundDocuments
  BY DEF CorpusIInv
<1> QED BY <1>1, CorpusInvariant, PTL

\* An exhaustive report without a failure has read every chunk of the documents
\* once, and no report has read one twice.
THEOREM ExhaustiveIsComplete == Spec => []ExhaustiveReadsAll
<1>1. CorpusIInv => ExhaustiveReadsAll
  BY DEF CorpusIInv
<1> QED BY <1>1, CorpusInvariant, PTL

\* However the chunks of a document are sized, its batches keep the limits.
THEOREM BatchesKeepLimits == Spec => []BatchesFit
<1>1. CorpusIInv => BatchesFit
  BY DEF CorpusIInv
<1> QED BY <1>1, CorpusInvariant, PTL

\* The counts of a report add up, and an answered report had a matching document.
THEOREM ReportsAddUp == Spec => []ReportAddsUp
<1>1. CorpusIInv => ReportAddsUp
  BY DEF CorpusIInv
<1> QED BY <1>1, CorpusInvariant, PTL

=============================================================================
