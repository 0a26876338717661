------------------------------ MODULE Providers ------------------------------
(***************************************************************************)
(* The provider clients of pkg/llm (OpenAI, Groq, OpenRouter, Anthropic,   *)
(* Gemini, Ollama), the budget they share, and the price cache that turns  *)
(* their token counts into spend.                                          *)
(*                                                                         *)
(* Abstracted: texts, models and token counts (a call costs 1..MaxCost);   *)
(* one model is priced, by a number.                                       *)
(***************************************************************************)
EXTENDS Integers, FiniteSets

CONSTANTS
    Askers,         \* goroutines that call a provider
    InUse,          \* the entry points they use
    MaxAsks,        \* bound: calls they start together
    MaxSpend,       \* SetGlobalBudget; 0 is no limit
    MaxCost,        \* the most a call costs
    MaxPrices       \* bound: prices that are set while the program runs

ASSUME ProvAssumption ==
    /\ IsFiniteSet(Askers) /\ Askers # {} /\ InUse # {}
    /\ {MaxAsks, MaxSpend, MaxCost, MaxPrices} \subseteq Nat

VARIABLES
    ask,            \* what each caller is doing
    asks,           \* calls so far
    spent,          \* GlobalTracker().Totals().CostUSD
    builtin,        \* builtinPricing of the model
    cache,          \* globalCache: [up, price, dyn, fresh]
    set,            \* prices set so far
    overdrawn,      \* history: admitted calls that were charged when nothing was left
    crashed         \* an index out of range in a caller's goroutine

provVars == <<ask, asks, spent, builtin, cache, set, overdrawn, crashed>>

(***************************************************************************)
(* The entry points.  key: an API key is required; admit: AdmitBudget is   *)
(* called; bill: how the spend is recorded ("guess" from the lengths,      *)
(* "exact" from the answer, "none"); retry: the retries of the transport;  *)
(* empty: what an answer without a choice does; json: the text is decoded  *)
(* into the schema; stream: the answer is a channel.                       *)
(***************************************************************************)
Entry(admit, bill, retry, empty) ==
    [key |-> TRUE, admit |-> admit, bill |-> bill, retry |-> retry, empty |-> empty,
     json |-> FALSE, stream |-> FALSE]

NewOpenAIClient == 4            \* maxRetries
NewGroqClient == 3
NewOpenRouterClient == 5

OpenAIGenerate == Entry(TRUE, "guess", NewOpenAIClient, "crash")
OpenAIGenerateWithUsage == Entry(FALSE, "exact", NewOpenAIClient, "crash")
OpenAIGenerateStructured == [Entry(FALSE, "none", NewOpenAIClient, "crash") EXCEPT !.json = TRUE]
OpenAIStreamGenerate == [Entry(TRUE, "none", NewOpenAIClient, "skip") EXCEPT !.stream = TRUE]
OpenAISpeech == [Entry(FALSE, "none", NewOpenAIClient, "skip") EXCEPT !.key = FALSE]
OpenAIEmbedding == Entry(FALSE, "none", NewOpenAIClient, "error")

(* The clients on the OpenAI protocol fill in their model and delegate.    *)
Inherited == {OpenAIGenerate, OpenAIGenerateWithUsage, OpenAIGenerateStructured, OpenAIStreamGenerate}
GroqEntries == {[e EXCEPT !.retry = NewGroqClient] : e \in Inherited}
OpenRouterEntries == {[e EXCEPT !.retry = NewOpenRouterClient] : e \in Inherited}
OpenRouterEmbedding == [OpenAIEmbedding EXCEPT !.retry = NewOpenRouterClient, !.key = FALSE]

AnthropicGenerate == Entry(TRUE, "guess", 0, "error")
(* The usage is recorded before the answer is looked at.                   *)
AnthropicGenerateWithUsage == Entry(FALSE, "exact", 0, "billed")
AnthropicGenerateStructured == [AnthropicGenerate EXCEPT !.json = TRUE]
AnthropicStreamGenerate == [Entry(TRUE, "none", 0, "skip") EXCEPT !.stream = TRUE]

GeminiGenerate == Entry(TRUE, "guess", 0, "error")
GeminiGenerateWithUsage == Entry(TRUE, "exact", 0, "error")
GeminiGenerateStructured == [GeminiGenerate EXCEPT !.json = TRUE]
GeminiStreamGenerate == [Entry(TRUE, "none", 0, "skip") EXCEPT !.stream = TRUE]

(* No key and no charge; the usage returned is an estimate nobody records. *)
OllamaGenerate == [Entry(FALSE, "none", 0, "text") EXCEPT !.key = FALSE]
OllamaGenerateStructured == [OllamaGenerate EXCEPT !.json = TRUE]
OllamaStreamGenerate == [OllamaGenerate EXCEPT !.stream = TRUE, !.empty = "skip"]
OllamaEmbedding == [OllamaGenerate EXCEPT !.empty = "error"]

Entries ==
    GroqEntries \cup OpenRouterEntries \cup
    {OpenAIGenerate, OpenAIGenerateWithUsage, OpenAIGenerateStructured, OpenAIStreamGenerate,
     OpenAISpeech, OpenAIEmbedding, OpenRouterEmbedding, AnthropicGenerate,
     AnthropicGenerateWithUsage, AnthropicGenerateStructured, AnthropicStreamGenerate,
     GeminiGenerate, GeminiGenerateWithUsage, GeminiGenerateStructured, GeminiStreamGenerate,
     OllamaGenerate, OllamaGenerateStructured, OllamaStreamGenerate, OllamaEmbedding}

Admitted == {e \in Entries : e.admit}

Unasked == [step |-> "", entry |-> OllamaGenerate, tries |-> 0, ok |-> TRUE, snap |-> 0]
Put(c, r) == ask' = [ask EXCEPT ![c] = r]
Finish(c, ok) == Put(c, [Unasked EXCEPT !.ok = ok])

ProvInit ==
    /\ ask = [c \in Askers |-> Unasked] /\ asks = 0 /\ spent = 0
    /\ builtin = 1 /\ cache = [up |-> FALSE, price |-> 0, dyn |-> 0, fresh |-> FALSE]
    /\ set = 0 /\ overdrawn = 0 /\ crashed = FALSE

NothingLeft == MaxSpend > 0 /\ spent >= MaxSpend

CheckBudgetLate == MaxSpend <= 0 \/ spent <= MaxSpend
(* CheckBudget reads the totals; nothing is reserved.                      *)
CheckBudget == MaxSpend <= 0 \/ spent < MaxSpend

Call(c) ==
    /\ ~crashed /\ ask[c].step = "" /\ asks < MaxAsks
    /\ \E e \in InUse, key \in BOOLEAN :
          IF (e.key /\ ~key) \/ (e.admit /\ ~CheckBudget)
          THEN Finish(c, FALSE)
          ELSE Put(c, [Unasked EXCEPT !.step = "request", !.entry = e])
    /\ asks' = asks + 1
    /\ UNCHANGED <<spent, builtin, cache, set, overdrawn, crashed>>

(* retryRoundTripper: a lost connection, 429, 403 and 5xx are tried again  *)
(* after a delay, or the context ends; other answers are final.  The body  *)
(* of a 403 is closed before it is searched for "total limit exceeded",    *)
(* so a spent quota is retried as any other 403.                           *)
RoundTrip(c) ==
    LET r == ask[c]
    IN  /\ ~crashed /\ r.step = "request"
        /\ \/ /\ \E status \in {"net", "limited", "forbidden", "quota"} : TRUE
              /\ IF r.tries < r.entry.retry
                 THEN Put(c, [r EXCEPT !.tries = @ + 1]) \/ Finish(c, FALSE)
                 ELSE Finish(c, FALSE)
           \/ Finish(c, FALSE)                                        \* 4xx
           \/ Put(c, [r EXCEPT !.step = "answer"])
        /\ UNCHANGED <<asks, spent, builtin, cache, set, overdrawn, crashed>>

(* The decoded answer: a text, or no choice at all.                        *)
Answer(c) ==
    LET r == ask[c]
        e == r.entry
    IN  /\ ~crashed /\ r.step = "answer"
        /\ \/ /\ IF e.stream THEN Put(c, [r EXCEPT !.step = "stream"])
                 ELSE IF e.bill = "none" THEN Finish(c, TRUE) \/ (e.json /\ Finish(c, FALSE))
                 ELSE Put(c, [r EXCEPT !.step = "price"])
              /\ UNCHANGED crashed
           \/ /\ e.empty = "crash" /\ crashed' = TRUE /\ UNCHANGED ask
           \/ /\ e.empty = "billed" /\ Put(c, [r EXCEPT !.step = "price", !.ok = FALSE])
              /\ UNCHANGED crashed
           \/ /\ e.empty = "error" /\ Finish(c, FALSE) /\ UNCHANGED crashed
        /\ UNCHANGED <<asks, spent, builtin, cache, set, overdrawn>>

(* The goroutine of a stream sends one chunk at a time to whoever reads;   *)
(* a reader that goes away leaves it there for good.                       *)
StreamChunk(c) ==
    /\ ~crashed /\ ask[c].step = "stream"
    /\ Finish(c, TRUE) \/ Put(c, [ask[c] EXCEPT !.step = "leaked"])
    /\ UNCHANGED <<asks, spent, builtin, cache, set, overdrawn, crashed>>

(***************************************************************************)
(* The price cache.  It is made on first use from the builtin prices; a    *)
(* price that is set goes to the builtin table and, when there is one, to  *)
(* the cache.  A stale cache fetches: builtin prices, then live ones, are  *)
(* read without the cache's lock and put in place under it, the prices set *)
(* at run time over them.                                                  *)
(***************************************************************************)
NewPriceCache(c) ==
    /\ ~cache.up
    /\ cache' = [up |-> TRUE, price |-> builtin, dyn |-> 0, fresh |-> FALSE]
    /\ UNCHANGED ask

SetModelPricing ==
    /\ set < MaxPrices /\ set' = set + 1
    /\ builtin' = set + 2
    /\ cache' = IF cache.up THEN [cache EXCEPT !.price = set + 2, !.dyn = set + 2] ELSE cache
    /\ UNCHANGED <<ask, asks, spent, overdrawn, crashed>>

Expire == cache.fresh /\ cache' = [cache EXCEPT !.fresh = FALSE]
          /\ UNCHANGED <<ask, asks, spent, builtin, set, overdrawn, crashed>>

(* 100 stands for the live price; a model without one keeps its builtin.   *)
FetchPrices(c) ==
    /\ cache.up /\ ~cache.fresh
    /\ \/ \E p \in {builtin, 100} : Put(c, [ask[c] EXCEPT !.step = "store", !.snap = p])
       \/ Put(c, [ask[c] EXCEPT !.step = "record"])                   \* best effort
    /\ UNCHANGED cache

StoredPrice(snap, dyn) == IF dyn # 0 THEN dyn ELSE snap

CalculateCost(c) ==
    /\ ~crashed /\ ask[c].step = "price"
    /\ \/ NewPriceCache(c)
       \/ FetchPrices(c)
       \/ cache.fresh /\ Put(c, [ask[c] EXCEPT !.step = "record"]) /\ UNCHANGED cache
    /\ UNCHANGED <<asks, spent, builtin, set, overdrawn, crashed>>

StorePrices(c) ==
    /\ ~crashed /\ ask[c].step = "store"
    /\ cache' = [cache EXCEPT !.price = StoredPrice(ask[c].snap, cache.dyn), !.fresh = TRUE]
    /\ Put(c, [ask[c] EXCEPT !.step = "record", !.snap = 0])
    /\ UNCHANGED <<asks, spent, builtin, set, overdrawn, crashed>>

(* UsageTracker.Record.  An entry that decodes into a schema does so now.  *)
Record(c) ==
    /\ ~crashed /\ ask[c].step = "record"
    /\ \E cost \in 1..MaxCost : spent' = spent + cost
    /\ overdrawn' = IF ask[c].entry.admit /\ NothingLeft THEN overdrawn + 1 ELSE overdrawn
    /\ Finish(c, ask[c].ok) \/ (ask[c].entry.json /\ Finish(c, FALSE))
    /\ UNCHANGED <<asks, builtin, cache, set, crashed>>

AskNext(c) ==
    Call(c) \/ RoundTrip(c) \/ Answer(c) \/ StreamChunk(c) \/ CalculateCost(c) \/ StorePrices(c)
    \/ Record(c)

ProvNext == SetModelPricing \/ Expire \/ \E c \in Askers : AskNext(c)

ProvSpec == ProvInit /\ [][ProvNext]_provVars

(* The promise of AdmitBudget: concurrent requests cannot independently    *)
(* consume the same budget, so that no admitted call is charged when       *)
(* nothing is left (usage.go:391-394).                                     *)
NoOverspend == overdrawn = 0

(* What remains of it: CheckBudget reserves nothing, but of the calls it   *)
(* admits only those that were in flight when the budget ran out are       *)
(* charged beyond it, one of each other caller, whatever the entry points  *)
(* that never ask have spent in between.                                   *)
BudgetBounded == overdrawn < Cardinality(Askers)
=============================================================================
