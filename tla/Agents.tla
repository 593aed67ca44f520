------------------------------- MODULE Agents -------------------------------
(***************************************************************************)
(* The analysis engine of pkg/analyze and its agents, in the notation of   *)
(* AnalyzerProgram: the local agent (module LocalAgent), the agent that    *)
(* asks a model of Ollama, and the agent that asks a hosted service.  What *)
(* a model or a service answers is any verdict.                            *)
(***************************************************************************)
EXTENDS LocalAgent

-----------------------------------------------------------------------------
(***************************************************************************)
(* The agent of Ollama.  An analyzer names the places its file may be at;  *)
(* after them, any file whose path has the type or the name of the         *)
(* analyzer stands in for it.                                              *)
(***************************************************************************)
autoDetectFileForAnalyzer(places) ==
    Func(All(places, LAMBDA place : If(Return) \o Missing(place))
         \o If(Return) \o Missing("any file") \o Result("warn"), "error")

Place ==
    [ollamaClusterVersion |-> <<"cluster_version.json">>,
     ollamaNodeResources |-> <<"nodes.json">>,
     ollamaText |-> <<"configured file", "log with the name of the file">>,
     ollamaDatabase |-> <<"configured file", "file with the name of the database">>,
     ollamaConfigured |-> <<"configured file">>,
     ollamaCrd |-> <<"custom resource">>,
     ollamaDistribution |-> <<"nodes.json", "cluster_version.json">>,
     ollamaSearched |-> <<"file with the word">>,
     ollamaClusterResource |-> <<"nodes.json", "file of cluster resources">>,
     ollamaOther |-> <<>>]

\* a file that is no JSON, and a pod without a phase, are not counted
aggregatePodFiles ==
    Some(LAMBDA f : IfElse(Missing("pods"), Each(Items, LAMBDA pod : If(Missing("phase")))))

aggregateDeploymentFiles == Some(LAMBDA f : If(Missing("deployments")))

\* nor are lists beyond the limits of the summary
aggregateEventFiles ==
    Some(LAMBDA f : IfElse(Missing("events"), If(Missing("events beyond the limit"))))

aggregateNodeFiles == <<>>

aggregateFiles ==
    Switch(<<aggregatePodFiles, aggregateDeploymentFiles, aggregateEventFiles,
             aggregateNodeFiles>>, <<>>)

queryOllama == Call("request", "error") \o Call("status", "error") \o Call("answer", "error")

\* words of the answer decide; an answer without any of its marks is a warning
parseMarkdownResponse ==
    Switch(<<Missing("marks") \o Result("warn"), Result("fail"), Result("warn")>>, Result("pass"))

\* an answer with a status nobody knows, or that is no JSON, is a warning
parseLLMResponse ==
    Switch(<<Missing("status") \o Result("warn"), Result("pass"), Result("warn"), Result("fail")>>,
           parseMarkdownResponse)

\* the model sees the first 4000 bytes, or the last 50 lines of a log
runLLMAnalysis(find) ==
    Func(find \o IfVerdict("warn", Return) \o If(Missing("rest of the data"))
         \o queryOllama \o parseLLMResponse, "error")

OllamaPrograms ==
    [a \in DOMAIN Place |-> runLLMAnalysis(autoDetectFileForAnalyzer(Place[a]))] @@
    [ollamaAggregated |->
         runLLMAnalysis(IfElse(aggregateFiles, Missing("file paths") \o Result("warn")))]

-----------------------------------------------------------------------------
(***************************************************************************)
(* The agent of the hosted service: one token of the rate limiter for all  *)
(* attempts, and one attempt more than MaxRetries.                         *)
(***************************************************************************)
waitForToken == Call("token", "error")

Attempts == <<1, 2, 3, 4>>
Backoff(attempt) == IF attempt = 1 THEN <<>> ELSE Call("context", "error")

\* an answer ends the attempts
executeRequest == If(Return)

isNonRetryableError == If(Raise("refused", "error"))

executeWithRetry ==
    Func(All(Attempts, LAMBDA n : Backoff(n) \o executeRequest \o isNonRetryableError)
         \o Raise("no answer", "error"), "error")

\* the results of the service, or null for one of them
ServiceResults == Each(Items, LAMBDA r : IfElse(Panic("null result"), Verdict))

HostedAnalyze == waitForToken \o executeWithRetry \o ServiceResults

-----------------------------------------------------------------------------
(***************************************************************************)
(* The engine.  An analyzer that cannot be converted is a failure among    *)
(* the results; the error of an agent is listed beside them.               *)
(***************************************************************************)
convertAnalyzerToSpec == If(Missing("analyzer") \o Result("fail"))

runAgentAnalysis == IfElse(Missing("agent"), ServiceResults)

EngineAnalyze ==
    If(Raise("no bundle", "error"))
    \o Each(Items, LAMBDA agent : If(Raise("not registered", "error")))
    \o If(Raise("no agent available", "error"))
    \o Call("marshal bundle", "error")
    \o Each(Items, LAMBDA c : convertAnalyzerToSpec)
    \o Some(LAMBDA agent : runAgentAnalysis)

AgentPrograms ==
    LocalAgentPrograms @@ OllamaPrograms @@ [hosted |-> HostedAnalyze, engine |-> EngineAnalyze]
=============================================================================
