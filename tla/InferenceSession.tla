--------------------------- MODULE InferenceSession ---------------------------
(***************************************************************************)
(* One run directory, the `process` invocations made for it, and the       *)
(* llama.cpp server they talk to: LlamaCppVisionClient                     *)
(* (inference/llamacpp.py) and prepare_inference_environment               *)
(* (inference/bootstrap.py).                                               *)
(*                                                                         *)
(* The first invocation calibrates how the model is kept from thinking and *)
(* how tokens are counted, and freezes both with the server's identity in  *)
(* inference-environment.json. A later one compares the server with that   *)
(* file and proves it with one smoke request. Then each page is budgeted   *)
(* and completed, and failed requests are retried. The server answers as   *)
(* it likes and may be restarted as another one at any moment; the         *)
(* invocation may die at any moment. The run lock (see RunStore) keeps     *)
(* invocations apart, so one is modelled at a time.                        *)
(*                                                                         *)
(* A completion and each try of a token count are one step. Requests whose *)
(* answers are only judged together are one step too: the three of the     *)
(* preflight, and the application of a template with what follows from it  *)
(* in calibration, in discovery and for a budget. What the responses say   *)
(* is abstracted to the outcomes that the client tells apart.              *)
(***************************************************************************)
EXTENDS Integers, Sequences, FiniteSets

CONSTANTS
    Servers,        \* identities a server can report in /props
    Formats,        \* _THINKING_FORMAT_CANDIDATES, in the order they are tried
    Nothing,        \* None
    MaxAttempts,    \* process.max_attempts of the run
    MaxPages,       \* bound: pages completed by one invocation
    MaxInvocations, \* bound: `process` commands
    MaxRestarts     \* bound: the server becomes another one

ASSUME FormatsAssumption == Formats \in Seq(STRING) \ {<<>>}
ASSUME AttemptsAssumption == MaxAttempts \in Nat \ {0}
ASSUME BoundsAssumption ==
    {MaxPages, MaxInvocations, MaxRestarts} \subseteq Nat

\* How a completion request ends. "transient" stands for the four codes that
\* are always retried (body truncated, time-out, transport error, 429/502/503/
\* 504), "server-error" for any other 5xx, "client-error" for other statuses,
\* "envelope" for a 200 whose body is no completion, "limit" for a complete
\* answer cut by max_tokens, "invalid" for empty or ill-formed content.
Transports == {"transient", "server-error", "client-error"}
Answers == Transports \cup
    {"envelope", "no-choices", "reasoning", "limit", "invalid", "good"}

\* How a token-counting request ends: 404, a count, a bad body, 400, or a
\* time-out, transport error, 429 or 5xx.
ProbeAnswers == {"missing", "count", "malformed", "rejected", "transient"}

Modes == {"multimodal", "text-only", "apply-template", "estimate"}

\* "templated" is applied_template_probe_supported of the thinking contract.
Environments == [server : Servers, templated : BOOLEAN,
                 thinking : 1 .. Len(Formats), counting : Modes]

ASSUME NothingAssumption == Nothing \notin Servers \cup Environments

VARIABLES
    server,       \* the identity of the server that is up
    environment,  \* inference-environment.json, or Nothing
    diagnostics,  \* environments that a diagnostics/preflight-* says passed
    pc,           \* where the invocation is; "idle" when none runs
    draft,        \* what this invocation has found out
    bound,        \* the environment bound to the client, or Nothing
    tries,        \* retries used by the current token-counting probe
    attempts,     \* outcomes of the current completion's requests
    outcome,      \* how the last invocation ended
    accepted,     \* [environment, answer] of every result handed to a page
    pages, invocations, restarts

disk == <<environment, diagnostics>>
bounds == <<invocations, restarts>>
vars == <<server, environment, diagnostics, pc, draft, bound, tries, attempts,
          outcome, accepted, pages, invocations, restarts>>

NoDraft == [server |-> Nothing, templated |-> FALSE, thinking |-> 1,
            counting |-> "estimate"]

NoOutcome == [kind |-> "none", code |-> "", attempts |-> <<>>]

Init ==
    /\ server \in Servers
    /\ environment = Nothing /\ diagnostics = {}
    /\ pc = "idle" /\ draft = NoDraft /\ bound = Nothing
    /\ tries = 0 /\ attempts = <<>> /\ accepted = {}
    /\ outcome = NoOutcome
    /\ pages = 0 /\ invocations = 0 /\ restarts = 0

-------------------------------------------------------------------------------
(* The end of an invocation: an exception of one of the classes of           *)
(* errors.py, normal completion, or ("uncaught") an exception that main()    *)
(* does not expect.                                                          *)

EndAs(end) ==
    /\ pc' = "idle" /\ draft' = NoDraft /\ bound' = Nothing
    /\ attempts' = <<>>
    /\ outcome' = end

End(kind, code) ==
    EndAs([kind |-> kind, code |-> code, attempts |-> <<>>])

GoTo(step) == pc' = step /\ UNCHANGED outcome

Request(step) ==
    /\ pc = step
    /\ UNCHANGED <<server, disk, accepted, pages, bounds>>

Start ==
    /\ pc = "idle" /\ invocations < MaxInvocations
    /\ pc' = "preflight" /\ outcome' = NoOutcome
    /\ invocations' = invocations + 1
    /\ tries' = 0 /\ pages' = 0
    /\ UNCHANGED <<server, disk, draft, bound, attempts, accepted, restarts>>

FirstProbe(contract) ==
    IF contract.templated THEN "calibrate-template" ELSE "calibrate-raw"

\* /health, /v1/models and /props; a server that is missing, serves another
\* alias, has no vision or holds another model file ends the invocation. The
\* identity of a later invocation must be that of the frozen environment.
PreflightFails ==
    /\ Request("preflight") /\ UNCHANGED tries
    /\ \/ End("processing", "unsupported-llama-server-contract")
       \/ End("processing", "server-model-path-mismatch")

Preflight ==
    /\ Request("preflight") /\ UNCHANGED <<tries, attempts, bound>>
    /\ environment = Nothing
    /\ \E supported \in BOOLEAN :
          draft' = [NoDraft EXCEPT !.server = server, !.templated = supported]
    /\ GoTo(FirstProbe(draft'))

\* Fault for Verify: the identity that is found replaces the frozen one.
VerifyAdopts ==
    /\ Request("preflight") /\ UNCHANGED tries
    /\ environment # Nothing
    /\ draft' = [environment EXCEPT !.server = server] /\ GoTo("smoke")
    /\ UNCHANGED <<attempts, bound>>

Verify ==
    /\ Request("preflight") /\ UNCHANGED tries
    /\ environment # Nothing
    /\ IF server = environment.server
       THEN /\ draft' = environment /\ GoTo("smoke")
            /\ UNCHANGED <<attempts, bound>>
       ELSE End("processing", "inference-environment-drift")

-------------------------------------------------------------------------------
(* calibrate_thinking_control: three requests for each candidate format, in  *)
(* order, until one candidate passes them all.                               *)

RejectCandidate ==
    IF draft.thinking < Len(Formats)
    THEN /\ draft' = [draft EXCEPT !.thinking = @ + 1]
         /\ GoTo(FirstProbe(draft))
         /\ UNCHANGED <<attempts, bound>>
    ELSE End("processing", "unsupported-thinking-control")

Continue(step) == GoTo(step) /\ UNCHANGED <<draft, attempts, bound>>

SmokeUnavailable == End("inference", "thinking-smoke-unavailable")

CalibrateTemplate ==
    /\ Request("calibrate-template") /\ UNCHANGED tries
    /\ \/ Continue("calibrate-raw")
       \/ SmokeUnavailable
       \/ RejectCandidate

\* _post_completion with allow_retry=False: a transport failure is an
\* InferenceError, any other failure of the request a ProcessingError, and
\* neither rejects the candidate.
ProbeFails(answer) ==
    \/ /\ answer \in {"transient", "server-error"}
       /\ SmokeUnavailable
    \/ /\ answer \in {"client-error", "envelope"}
       /\ End("processing", "thinking-control-contract-drift")

\* choices[0] of an answer without choices is an IndexError.
CalibrateRaw(answer) ==
    /\ Request("calibrate-raw") /\ UNCHANGED tries
    /\ \/ ProbeFails(answer)
       \/ answer = "no-choices" /\ End("uncaught", "IndexError")
       \/ answer = "reasoning" /\ RejectCandidate
       \/ /\ answer \in {"limit", "invalid", "good"}
          /\ Continue("calibrate-production")

\* _enforce_non_thinking_response raises _CompletionFailure here, which is no
\* BookExtractError and is not among the exceptions that reject a candidate.
CalibrateProduction(answer) ==
    /\ Request("calibrate-production") /\ UNCHANGED tries
    /\ \/ ProbeFails(answer)
       \/ /\ answer \in {"no-choices", "reasoning"}
          /\ End("uncaught", "_CompletionFailure")
       \/ answer = "invalid" /\ RejectCandidate
       \/ answer \in {"limit", "good"} /\ Continue("render")

\* The first page is rendered for the token-counting probes.
RenderCalibrationPage ==
    /\ Request("render") /\ tries' = 0
    /\ \/ Continue("discover-text")
       \/ End("processing", "page-render-failed")

-------------------------------------------------------------------------------
(* discover_token_counting_contract: count the prompt without and with its   *)
(* image, else try /apply-template with /tokenize, else estimate.            *)

CalibrationFailed == End("processing", "token-counting-calibration-failed")

\* Fault for RetryProbe: a transient failure is retried, and after the retry
\* the count starts again.
RetryForever(answer) ==
    /\ answer = "transient"
    /\ tries' = 1 - tries
    /\ UNCHANGED <<pc, outcome, draft, attempts, bound>>

\* Fault for RetryProbe: the retry itself is retried once more.
RetryTwice(answer) ==
    /\ answer = "transient" /\ tries < 2
    /\ tries' = tries + 1
    /\ UNCHANGED <<pc, outcome, draft, attempts, bound>>

\* _run_budget_probe: a transient failure is retried once.
RetryProbe(answer) ==
    /\ answer = "transient" /\ tries = 0
    /\ tries' = 1
    /\ UNCHANGED <<pc, outcome, draft, attempts, bound>>

DiscoveryFails(answer) ==
    /\ \/ answer \in {"malformed", "rejected"}
       \/ answer = "transient" /\ tries = 1
    /\ CalibrationFailed
    /\ UNCHANGED tries

Freeze(mode) ==
    /\ draft' = [draft EXCEPT !.counting = mode]
    /\ GoTo("smoke")
    /\ UNCHANGED <<attempts, bound>>

DiscoverText(answer) ==
    /\ Request("discover-text")
    /\ \/ RetryProbe(answer)
       \/ DiscoveryFails(answer)
       \/ answer = "missing" /\ tries' = 0 /\ Continue("discover-template")
       \/ answer = "count" /\ tries' = 0 /\ Continue("discover-image")

DiscoverImage(answer) ==
    /\ Request("discover-image")
    /\ \/ RetryProbe(answer)
       \/ DiscoveryFails(answer)
       \/ answer = "missing" /\ tries' = 0 /\ Continue("discover-template")
       \/ /\ answer = "count" /\ tries' = 0
          /\ \E mode \in {"multimodal", "text-only"} : Freeze(mode)

\* _apply_template_tokenize_supported: up to three requests, none retried. A
\* refusal means "unsupported" when the template knows reasoning and the
\* request was the extended one, and fails the calibration otherwise.
DiscoverTemplate(answer) ==
    /\ Request("discover-template") /\ UNCHANGED tries
    /\ \/ /\ answer \in {"malformed", "rejected", "transient"}
          /\ CalibrationFailed
       \/ answer = "count" /\ Freeze("apply-template")
       \/ answer \in {"missing", "rejected"} /\ Freeze("estimate")

-------------------------------------------------------------------------------
(* Retries of a completion.                                                  *)

ServerErrorRetries ==
    Cardinality({i \in DOMAIN attempts : attempts[i] = "server-error"})

\* Fault for MayRetry: an unspecific server error is retried like the others.
MayRetryServerErrors(answer, max) ==
    /\ Len(attempts) + 1 < max
    /\ answer \in {"transient", "server-error"}

MayRetry(answer, max) ==
    /\ Len(attempts) + 1 < max
    /\ \/ answer = "transient"
       \/ answer = "server-error" /\ ServerErrorRetries < 1

Retry(answer) ==
    /\ attempts' = Append(attempts, answer)
    /\ UNCHANGED <<pc, outcome, draft, bound>>

\* run_thinking_smoke: one completion, two attempts.
Smoke(answer) ==
    /\ Request("smoke") /\ UNCHANGED tries
    /\ \/ MayRetry(answer, 2) /\ Retry(answer)
       \/ /\ ~MayRetry(answer, 2) /\ answer \in {"transient", "server-error"}
          /\ SmokeUnavailable
       \/ /\ answer \in {"client-error", "envelope", "no-choices",
                         "reasoning", "invalid"}
          /\ End("processing", "thinking-control-contract-drift")
       \/ /\ answer \in {"limit", "good"}
          /\ GoTo("record") /\ attempts' = <<>>
          /\ UNCHANGED <<draft, bound>>

\* Fault for RecordDiagnostics: the first environment is written before them.
RecordAfterFreeze ==
    /\ pc = "record"
    /\ IF environment = Nothing
       THEN GoTo("freeze") /\ UNCHANGED <<bound, diagnostics>>
       ELSE /\ GoTo("page") /\ bound' = environment
            /\ diagnostics' = diagnostics \cup {draft}
    /\ UNCHANGED <<server, environment, draft, tries, attempts, accepted,
                   pages, bounds>>

RecordDiagnostics ==
    /\ pc = "record"
    /\ diagnostics' = diagnostics \cup {draft}
    /\ IF environment = Nothing
       THEN GoTo("freeze") /\ UNCHANGED bound
       ELSE GoTo("page") /\ bound' = environment
    /\ UNCHANGED <<server, environment, draft, tries, attempts, accepted,
                   pages, bounds>>

WriteEnvironment ==
    /\ pc = "freeze" /\ environment = Nothing
    /\ environment' = draft /\ bound' = draft
    /\ GoTo("page")
    /\ UNCHANGED <<server, diagnostics, draft, tries, attempts, accepted,
                   pages, bounds>>

-------------------------------------------------------------------------------
(* generate_structured, for each page that process_book reaches: count the   *)
(* request's tokens by the frozen contract, send it, retry, hand over.       *)

Fits == GoTo("complete") /\ UNCHANGED <<draft, attempts, bound>>

CountedBudget ==
    \/ Fits
    \/ End("inference", "context-budget-exceeded")

ContractDrift == End("processing", "token-counting-contract-drift")

ProbeUnavailable == End("inference", "context-budget-probe-unavailable")

\* /v1/chat/completions/input_tokens
BudgetByCount(answer) ==
    /\ Request("page") /\ pages < MaxPages
    /\ bound.counting \in {"multimodal", "text-only"}
    /\ \/ RetryProbe(answer)
       \/ answer = "transient" /\ tries = 1 /\ ProbeUnavailable /\ UNCHANGED tries
       \/ /\ answer \in {"missing", "malformed", "rejected"}
          /\ ContractDrift /\ UNCHANGED tries
       \/ answer = "count" /\ tries' = 0 /\ CountedBudget

\* /apply-template and /tokenize, which _run_budget_probe does not wrap
BudgetByTemplate(answer) ==
    /\ Request("page") /\ pages < MaxPages /\ UNCHANGED tries
    /\ bound.counting = "apply-template"
    /\ \/ answer = "transient" /\ ProbeUnavailable
       \/ answer \in {"missing", "malformed", "rejected"} /\ ContractDrift
       \/ answer = "count" /\ CountedBudget

\* An estimate that is not well below the context size decides nothing.
BudgetByEstimate ==
    /\ Request("page") /\ pages < MaxPages /\ UNCHANGED tries
    /\ bound.counting = "estimate"
    /\ \/ Fits
       \/ End("inference", "context-budget-indeterminate")

\* The request failed for good, or its answer is not one to accept.
GiveUp(answer) ==
    EndAs([kind |-> "inference", code |-> answer,
           attempts |-> Append(attempts, answer)])

\* Fault for Complete: an answer cut by max_tokens is handed over if it parses.
CompleteAcceptsCut(answer) ==
    /\ pc = "complete"
    /\ \/ MayRetry(answer, MaxAttempts) /\ Retry(answer) /\ UNCHANGED accepted
       \/ /\ ~MayRetry(answer, MaxAttempts) /\ answer \notin {"good", "limit"}
          /\ GiveUp(answer) /\ UNCHANGED accepted
       \/ /\ answer \in {"good", "limit"}
          /\ accepted' = accepted \cup {[environment |-> bound, answer |-> answer]}
          /\ GoTo("commit") /\ attempts' = <<>>
          /\ UNCHANGED <<draft, bound>>
    /\ UNCHANGED <<server, disk, tries, pages, bounds>>

Complete(answer) ==
    /\ pc = "complete"
    /\ \/ MayRetry(answer, MaxAttempts) /\ Retry(answer) /\ UNCHANGED accepted
       \/ /\ ~MayRetry(answer, MaxAttempts) /\ answer # "good"
          /\ GiveUp(answer) /\ UNCHANGED accepted
       \/ /\ answer = "good"
          /\ accepted' = accepted \cup {[environment |-> bound, answer |-> answer]}
          /\ GoTo("commit") /\ attempts' = <<>>
          /\ UNCHANGED <<draft, bound>>
    /\ UNCHANGED <<server, disk, tries, pages, bounds>>

\* process_book: what follows is validated and committed (BookProgress,
\* RunStore), or fails for a reason of the page's own.
CommitPage ==
    /\ pc = "commit"
    /\ \/ GoTo("page") /\ pages' = pages + 1
          /\ UNCHANGED <<draft, attempts, bound>>
       \/ End("structural", "") /\ UNCHANGED pages
    /\ UNCHANGED <<server, disk, tries, accepted, bounds>>

\* The end of the book, or of the pages that were asked for.
Finish ==
    /\ Request("page") /\ tries = 0 /\ UNCHANGED tries
    /\ End("completed", "")

-------------------------------------------------------------------------------
(* The environment: the process dies; another server takes the address.      *)

Crash ==
    /\ pc # "idle"
    /\ End("crashed", "")
    /\ UNCHANGED <<server, disk, tries, accepted, pages, bounds>>

RestartServer ==
    /\ restarts < MaxRestarts
    /\ server' \in Servers \ {server}
    /\ restarts' = restarts + 1
    /\ UNCHANGED <<disk, pc, draft, bound, tries, attempts, outcome, accepted,
                   pages, invocations>>

Work ==
    \/ PreflightFails \/ Preflight \/ Verify
    \/ CalibrateTemplate
    \/ \E answer \in Answers :
          \/ CalibrateRaw(answer) \/ CalibrateProduction(answer)
          \/ Smoke(answer) \/ Complete(answer)
    \/ RenderCalibrationPage
    \/ \E answer \in ProbeAnswers :
          \/ DiscoverText(answer) \/ DiscoverImage(answer)
          \/ DiscoverTemplate(answer)
          \/ BudgetByCount(answer) \/ BudgetByTemplate(answer)
    \/ BudgetByEstimate
    \/ RecordDiagnostics \/ WriteEnvironment
    \/ CommitPage \/ Finish

Next == Start \/ Work \/ Crash \/ RestartServer

Spec == Init /\ [][Next]_vars

\* Every request is answered or times out, so an invocation keeps working.
LiveSpec == Spec /\ WF_vars(Work)

-------------------------------------------------------------------------------
(* Properties.                                                               *)

Steps == {"idle", "preflight", "calibrate-template", "calibrate-raw",
          "calibrate-production", "render", "discover-text", "discover-image",
          "discover-template", "smoke", "record", "freeze", "page",
          "complete", "commit"}

Kinds == {"processing", "inference", "structural", "completed", "uncaught",
          "crashed"}

\* The codes that the program reports, without those of a completion.
Codes == {"", "unsupported-llama-server-contract", "server-model-path-mismatch",
          "inference-environment-drift", "unsupported-thinking-control",
          "thinking-smoke-unavailable", "thinking-control-contract-drift",
          "IndexError", "_CompletionFailure", "page-render-failed",
          "token-counting-calibration-failed", "token-counting-contract-drift",
          "context-budget-exceeded", "context-budget-probe-unavailable",
          "context-budget-indeterminate"}

Outcomes == [kind : Kinds \cup {"none"}, code : Codes \cup Answers,
             attempts : Seq(Answers)]

\* Every variable has its type.
TypeOK ==
    /\ server \in Servers
    /\ environment \in Environments \cup {Nothing}
    /\ diagnostics \subseteq Environments
    /\ pc \in Steps
    /\ draft = NoDraft \/ draft \in Environments
    /\ bound \in Environments \cup {Nothing}
    /\ tries \in 0 .. 1
    /\ attempts \in Seq(Answers)
    /\ outcome \in Outcomes
    /\ accepted \subseteq [environment : Environments, answer : Answers]
    /\ pages \in 0 .. MaxPages
    /\ invocations \in 0 .. MaxInvocations
    /\ restarts \in 0 .. MaxRestarts

\* A client that works on pages works under the environment of the run
\* directory, found on the server this invocation looked at, whatever that
\* server has become since.
PagesUnderFrozen ==
    pc \in {"page", "complete", "commit"} =>
        /\ bound = environment
        /\ draft = environment

\* The frozen environment was proven before it was frozen: a diagnostics
\* directory says that its smoke request passed, also when the process died
\* between the two writes.
FrozenWasProven == environment # Nothing => environment \in diagnostics

\* Whatever else happens to the run, the results of all its pages were made
\* under one environment, and none is a thinking, cut or ill-formed answer.
ResultsComparable ==
    \A result \in accepted :
        result.environment = environment /\ result.answer = "good"

Retried(codes) ==
    /\ \A i \in DOMAIN codes : codes[i] \in {"transient", "server-error"}
    /\ Cardinality({i \in DOMAIN codes : codes[i] = "server-error"}) =< 1

\* The recorded attempts of a failed page: only transport failures were
\* retried, an unspecific server error once, and no more often than
\* max_attempts allows; and it was given up only when the last failure
\* left nothing to try.
RetryPolicyFollowed ==
    LET failed == outcome.attempts
        last == failed[Len(failed)]
        before == SubSeq(failed, 1, Len(failed) - 1)
    IN  failed # <<>> =>
        /\ Len(failed) =< MaxAttempts
        /\ Retried(before)
        /\ Retried(failed) => Len(failed) = MaxAttempts

\* An invocation, once started, ends: no answer of the server keeps it busy
\* for ever.
InvocationEnds == pc # "idle" ~> pc = "idle"

\* implementation_plan_v0.1.md: "Failure during first-process calibration ->
\* unsupported-thinking-control". Whatever the server answers to calibration,
\* an invocation that ends on it ends with one of the program's own errors.
CalibrationFailureReported ==
    [][(pc \in {"calibrate-raw", "calibrate-production"} /\ pc' = "idle") =>
          outcome'.kind \in {"processing", "inference", "crashed"}]_vars

===============================================================================
