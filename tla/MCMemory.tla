------------------------------ MODULE MCMemory ------------------------------
(***************************************************************************)
(* Model checking of the services an agent calls: the unified memory, the  *)
(* conversation threads, the provider clients with their budget and the    *)
(* client middleware in front of them.  They share nothing but the calls,  *)
(* so a behaviour exercises one of them and the state spaces add up.       *)
(***************************************************************************)
EXTENDS Memory, Providers, LlmClient

VARIABLES part

(* Every store, and two of them behind a RetryStore.                       *)
MCStacks == {<<k, FALSE>> : k \in Local \cup Remote} \cup {<<"mem", TRUE>>, <<"pinecone", TRUE>>}
MCPaths == {<<"a">>, <<"a", "b">>}

(* Nothing, a scope of each depth, and a private memory of one source in a *)
(* scope; recalls that include the private ones or not, with a source or   *)
(* without.                                                                *)
Scoped(p) == [Unlabelled EXCEPT !.scoped = TRUE, !.path = p]
MCLabels == {Unlabelled, Scoped(<<"a">>), Scoped(<<"a", "b">>),
             [Scoped(<<"a">>) EXCEPT !.priv = TRUE, !.src = "alice"]}
MCRecallOptions ==
    {NoOptions, [NoOptions EXCEPT !.view = "slice"],
     [view |-> "scope", src |-> "alice", priv |-> TRUE], [view |-> "all", src |-> "alice", priv |-> TRUE]}

(* An entry point of each way to admit, to bill and to meet an empty       *)
(* answer.                                                                 *)
MCInUse == {OpenAIGenerate, OpenAIStreamGenerate, AnthropicGenerateWithUsage,
            GeminiGenerateStructured, OllamaEmbedding}

MCInit ==
    /\ part \in {"memory", "talk", "providers", "llm"}
    /\ MemInit /\ ProvInit /\ LlmInit
    /\ part # "memory" => kind = "mem" /\ ~retry

MCNext ==
    /\ \/ part = "memory" /\ MemNext /\ UNCHANGED <<provVars, llmVars>>
       \/ part = "talk" /\ TalkNext /\ UNCHANGED <<provVars, llmVars>>
       \/ part = "providers" /\ ProvNext /\ UNCHANGED <<memVars, llmVars>>
       \/ part = "llm" /\ LlmNext /\ UNCHANGED <<memVars, provVars>>
    /\ UNCHANGED part

MCSpec == MCInit /\ [][MCNext]_<<part, memVars, provVars, llmVars>> /\ MemFairness
=============================================================================
