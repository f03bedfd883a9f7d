------------------------------- MODULE RagAnswer -------------------------------
(***************************************************************************)
(* A focused question (RagAnswerer.answer): a model that may call the two  *)
(* retrieval tools, within a budget of calls, of evidence and of           *)
(* characters, and whose answer is checked against the evidence ledger.    *)
(* The tool calls of one message of the model run in threads of their own, *)
(* and the closures they run, above all register, share their counters and *)
(* both dictionaries without a lock.  A step is what a thread does between *)
(* two calls, where the interpreter may switch to another thread.          *)
(***************************************************************************)
EXTENDS Integers, Sequences, FiniteSets, FiniteSetsExt, Functions

CONSTANTS
    Threads,        \* threads that run the tool calls of one message
    Chunk,          \* the chunks of the catalog
    Size,           \* the characters of each chunk
    PerCall,        \* most chunks that one call of the catalog returns
    MaxToolCalls, MaxEvidence, MaxCharacters

ASSUME RagAnswerAssumption ==
    /\ IsFiniteSet(Threads) /\ Threads # {}
    /\ \A c \in Chunk: Size[c] \in Nat
    /\ PerCall \in Nat
    /\ MaxToolCalls \in Nat
    /\ MaxEvidence \in Nat
    /\ MaxCharacters \in Nat

VARIABLES
    phase,          \* whose turn it is, or how the question ended
    supersteps,     \* steps of the agent graph so far
    closure,        \* what the tools share: tool_calls, ledger, chunk_evidence,
                    \* evidence_characters
    call,           \* per thread: its next step and the locals of register
    sources,        \* the sources of the answer: numbers with their chunks
    seen            \* history: calls served, cards shown, whether two threads
                    \* were in register at once, and whether a call failed

ragVars == <<phase, supersteps, closure, call, sources, seen>>

-----------------------------------------------------------------------------
RecursionLimit == 2 * MaxToolCalls + 4

NewClosure == [toolCalls |-> 0, ledger |-> <<>>, evidenceOf |-> <<>>, characters |-> 0]

\* ids are the numbers a thread will show, number the one it is about to give
\* out, before the characters it has read.
NoCall == [at |-> "idle", todo |-> <<>>, ids |-> {}, number |-> 0, before |-> 0]

NothingSeen == [served |-> 0, shown |-> {}, raced |-> FALSE, failed |-> FALSE]

RagInit ==
    /\ phase = "none"
    /\ supersteps = 0
    /\ closure = NewClosure
    /\ call = [t \in Threads |-> NoCall]
    /\ sources = {}
    /\ seen = NothingSeen

AskFocused ==
    /\ phase = "none"
    /\ phase' = "model"
    /\ UNCHANGED <<supersteps, closure, call, sources, seen>>

-----------------------------------------------------------------------------
(* The model, and the graph that runs it                                   *)

Turn(from, to) ==
    /\ phase = from
    /\ supersteps < RecursionLimit
    /\ supersteps' = supersteps + 1
    /\ phase' = to

\* A message with tool calls.
ModelCalls ==
    /\ Turn("model", "dispatch")
    /\ \E S \in (SUBSET Threads) \ {{}}:
           call' = [t \in Threads |-> IF t \in S THEN [NoCall EXCEPT !.at = "enter"] ELSE NoCall]
    /\ UNCHANGED <<closure, sources, seen>>

Dispatch ==
    /\ Turn("dispatch", "tools")
    /\ UNCHANGED <<closure, call, sources, seen>>

\* All results are in.  An exception of a tool is not for the model: it ends
\* the question.
Join ==
    /\ phase = "tools"
    /\ \A t \in Threads: call[t].at \in {"idle", "raised"}
    /\ phase' = IF \E t \in Threads: call[t].at = "raised" THEN "raised" ELSE "model"
    /\ UNCHANGED <<supersteps, closure, call, sources, seen>>

\* The arguments of the structured answer do not fit its schema: the model is
\* told and tries again.
Reformulate ==
    /\ Turn("model", "model")
    /\ UNCHANGED <<closure, call, sources, seen>>

\* Mutant: an answer without claims is an answer.
SupportedWithoutClaims(claims) == \A c \in claims: c # {} /\ c \subseteq DOMAIN closure.ledger

\* validate_answer.  Claims are their sets of citations.
Supported(claims) ==
    /\ claims # {}
    /\ \A c \in claims: c # {} /\ c \subseteq DOMAIN closure.ledger

SourcesOf(claims) == {<<e, closure.ledger[e]>> : e \in UNION claims}

Answer(claims) ==
    /\ Turn("model", IF Supported(claims) THEN "answered" ELSE "insufficient")
    /\ sources' = IF Supported(claims) THEN SourcesOf(claims) ELSE {}
    /\ UNCHANGED <<closure, call, seen>>

\* The model may cite any number, given out or not.
ModelAnswers ==
    /\ phase = "model"
    /\ \E claims \in SUBSET ((SUBSET (1 .. (MaxEvidence + 1))) \ {{}}): Answer(claims)

\* The graph has no step left: agent.invoke raises GraphRecursionError.
LimitReached(to) ==
    /\ phase \in {"model", "dispatch"}
    /\ supersteps = RecursionLimit
    /\ phase' = to
    /\ UNCHANGED supersteps

\* Mutant: GraphRecursionError is an exception like any other.
NoAnswerRaises ==
    /\ Turn("model", "insufficient") \/ LimitReached("raised")
    /\ UNCHANGED <<closure, call, sources, seen>>

\* Without a structured answer, or without a step left, there is no answer.
NoAnswer ==
    /\ Turn("model", "insufficient") \/ LimitReached("insufficient")
    /\ UNCHANGED <<closure, call, sources, seen>>

\* Any other exception is raised again.
ModelFails ==
    /\ Turn("model", "raised")
    /\ seen' = [seen EXCEPT !.failed = TRUE]
    /\ UNCHANGED <<closure, call, sources>>

-----------------------------------------------------------------------------
(* search_evidence and expand_graph in one thread                          *)

\* Thread t at step `from` goes on with the locals `next`.
Step(t, from, next) ==
    /\ phase = "tools"
    /\ call[t].at = from
    /\ call' = [call EXCEPT ![t] = next]
    /\ UNCHANGED <<phase, supersteps, sources>>

At(t, to) == [call[t] EXCEPT !.at = to]

Registering == {"look", "room", "number", "store", "add", "cards"}

Enter(t) ==
    /\ Step(t, "enter", At(t, "check"))
    /\ closure' = [closure EXCEPT !.toolCalls = @ + 1]
    /\ UNCHANGED seen

\* Mutant: the counter is compared as if it had not been incremented.
OverBudgetByOne == closure.toolCalls > MaxToolCalls + 1

OverBudget == closure.toolCalls > MaxToolCalls

Refuse(t) ==
    /\ OverBudget
    /\ Step(t, "check", NoCall)
    /\ UNCHANGED <<closure, seen>>

Serve(t) ==
    /\ ~OverBudget
    /\ Step(t, "check", At(t, "search"))
    /\ seen' = [seen EXCEPT !.served = @ + 1]
    /\ UNCHANGED closure

\* What the catalog may return, in the order of its ranks.
Hits == {s \in UNION {[1 .. n -> Chunk] : n \in 0 .. PerCall} : IsInjective(s)}

\* The lock of the catalog makes its search one step.
Search(t) ==
    /\ call[t].at = "search"
    /\ \E hits \in Hits: Step(t, "search", [At(t, "look") EXCEPT !.todo = hits])
    /\ seen' = [seen EXCEPT !.raced = @ \/ \E u \in Threads: call[u].at \in Registering]
    /\ UNCHANGED closure

\* No embedding for the query, or arguments that the catalog does not accept.
SearchFails(t) ==
    /\ Step(t, "search", [NoCall EXCEPT !.at = "raised"])
    /\ seen' = [seen EXCEPT !.failed = TRUE]
    /\ UNCHANGED closure

\* The loop of register, a chunk at a time.
Current(t) == Head(call[t].todo)

Shown(t, e) == [At(t, "look") EXCEPT !.todo = Tail(@), !.ids = @ \cup {e}]

Look(t) ==
    /\ IF call[t].todo = <<>>
         THEN Step(t, "look", At(t, "cards"))
         ELSE IF Current(t) \in DOMAIN closure.evidenceOf
           THEN Step(t, "look", Shown(t, closure.evidenceOf[Current(t)]))
           ELSE Step(t, "look", At(t, "room"))
    /\ UNCHANGED <<closure, seen>>

Evidence == Cardinality(DOMAIN closure.ledger)

\* Mutant: one chunk more than the bound.
HasRoomForOneMore(chunk) ==
    /\ Evidence <= MaxEvidence
    /\ closure.characters + Size[chunk] <= MaxCharacters

HasRoom(chunk) ==
    /\ Evidence < MaxEvidence
    /\ closure.characters + Size[chunk] <= MaxCharacters

\* Without room the rest of the hits is dropped.
Room(t) ==
    /\ Step(t, "room", At(t, IF HasRoom(Current(t)) THEN "number" ELSE "cards"))
    /\ UNCHANGED <<closure, seen>>

\* Mutant: numbers come from the other dictionary, where threads that gave out
\* one number have left two entries.
NumberOfChunk(t) ==
    /\ Step(t, "number", [At(t, "store") EXCEPT !.number = Cardinality(DOMAIN closure.evidenceOf) + 1])
    /\ UNCHANGED <<closure, seen>>

\* Mutant: every call numbers its own evidence.
NumberInCall(t) ==
    /\ Step(t, "number", [At(t, "store") EXCEPT !.number = Cardinality(call[t].ids) + 1])
    /\ UNCHANGED <<closure, seen>>

Number(t) ==
    /\ Step(t, "number", [At(t, "store") EXCEPT !.number = Evidence + 1])
    /\ UNCHANGED <<closure, seen>>

Put(dict, key, value) ==
    [k \in DOMAIN dict \cup {key} |-> IF k = key THEN value ELSE dict[k]]

Store(t) ==
    /\ Step(t, "store", [At(t, "add") EXCEPT !.before = closure.characters])
    /\ closure' = [closure EXCEPT
                     !.ledger = Put(@, call[t].number, Current(t)),
                     !.evidenceOf = Put(@, Current(t), call[t].number)]
    /\ UNCHANGED seen

Add(t) ==
    /\ Step(t, "add", Shown(t, call[t].number))
    /\ closure' = [closure EXCEPT !.characters = call[t].before + Size[Current(t)]]
    /\ UNCHANGED seen

\* The cards are made from the ledger, and the thread is done.
Cards(t) ==
    /\ Step(t, "cards", NoCall)
    /\ seen' = [seen EXCEPT !.shown = @ \cup {<<e, closure.ledger[e]>> : e \in call[t].ids}]
    /\ UNCHANGED closure

Tool(t) ==
    \/ Enter(t) \/ Refuse(t) \/ Serve(t) \/ Search(t) \/ SearchFails(t)
    \/ Look(t) \/ Room(t) \/ Number(t) \/ Store(t) \/ Add(t) \/ Cards(t)

RagNext ==
    \/ ModelCalls \/ Dispatch \/ Join \/ Reformulate
    \/ ModelAnswers \/ NoAnswer \/ ModelFails
    \/ \E t \in Threads: Tool(t)

-----------------------------------------------------------------------------
(* Properties                                                              *)

RagTypeOK ==
    /\ phase \in {"none", "model", "dispatch", "tools", "answered", "insufficient", "raised"}
    /\ supersteps \in 0 .. RecursionLimit
    /\ closure.toolCalls \in Nat
    /\ DOMAIN closure.ledger \subseteq Nat
    /\ Range(closure.ledger) \subseteq Chunk
    /\ DOMAIN closure.evidenceOf \subseteq Chunk
    /\ Range(closure.evidenceOf) \subseteq DOMAIN closure.ledger
    /\ closure.characters \in Nat
    /\ \A t \in Threads:
           /\ call[t].at \in Registering \cup {"idle", "enter", "check", "search", "raised"}
           /\ call[t].todo \in Seq(Chunk)
           /\ call[t].ids \subseteq Nat
           /\ call[t].number \in Nat
           /\ call[t].before \in Nat

\* However its threads interleave, the tools of one question never search the
\* catalog more often than the budget allows.
ToolBudgetKept == seen.served <= MaxToolCalls

\* The evidence numbers are 1, 2, ... without a gap, and a card that is about to
\* be made is in the ledger: neither making cards nor validating the answer can
\* meet a number without a chunk, also when threads give out the same number.
CardsAreInLedger ==
    /\ DOMAIN closure.ledger = 1 .. Evidence
    /\ \A t \in Threads: call[t].ids \subseteq DOMAIN closure.ledger

Total(S) == MapThenSumSet(LAMBDA chunk: Size[chunk], S)

\* The ledger stays within its bounds: strictly as long as no two threads were
\* in register at once, and by less than one chunk per thread otherwise.
EvidenceWithinBudget ==
    /\ Evidence < MaxEvidence + Cardinality(Threads)
    /\ ~seen.raced =>
           /\ Evidence <= MaxEvidence
           /\ Total(Range(closure.ledger)) <= MaxCharacters
           /\ phase # "tools" => closure.characters = Total(Range(closure.ledger))

\* Whatever the threads did, the sources of an answer are cards that the model
\* has seen, with the chunk it saw under that number.
AnswerCitesEvidence ==
    phase = "answered" => sources # {} /\ sources \subseteq seen.shown

\* As long as no two threads were in register at once, a number stands for one
\* chunk: every card that was shown still agrees with the ledger.
NumbersAreStable ==
    ~seen.raced => \A s \in seen.shown: closure.ledger[s[1]] = s[2]

=============================================================================
