----------------------- MODULE InferenceSessionProofs -----------------------
(***************************************************************************)
(* Proofs about InferenceSession, for any servers, candidate formats and   *)
(* bounds.  The inductive invariant IInv adds to the properties what is    *)
(* known at each point of an invocation about the frozen environment, the  *)
(* one being found out, and the attempts made so far.                      *)
(***************************************************************************)
EXTENDS InferenceSession, FiniteSetTheorems, SequenceTheorems, TLAPS

\* The points of a first invocation before anything is frozen.
Calibrating == {"calibrate-template", "calibrate-raw", "calibrate-production",
                "render", "discover-text", "discover-image",
                "discover-template", "freeze"}

Proving == {"smoke", "record"}
OnPages == {"page", "complete", "commit"}

\* What an invocation knows at pc.
Phases ==
    /\ pc \in Calibrating => environment = Nothing
    /\ pc \in Calibrating \cup Proving \cup OnPages => draft \in Environments
    /\ pc \in Proving /\ environment # Nothing => draft = environment
    /\ pc = "freeze" => draft \in diagnostics
    /\ pc \in OnPages =>
          environment # Nothing /\ bound = environment /\ draft = environment
    /\ pc \in {"complete", "commit"} => pages < MaxPages

\* What is known about the attempts of the current completion.
Attempting ==
    /\ Retried(attempts)
    /\ pc \notin {"smoke", "complete"} => attempts = <<>>
    /\ pc = "complete" => Len(attempts) < MaxAttempts

IInv == /\ TypeOK
        /\ FrozenWasProven
        /\ ResultsComparable
        /\ RetryPolicyFollowed
        /\ Phases
        /\ Attempting

-----------------------------------------------------------------------------
(* Attempts.                                                                *)

\* The places of server errors in a sequence with one more attempt.
LEMMA ServerErrorsAppend ==
    ASSUME NEW codes \in Seq(Answers), NEW answer \in Answers
    PROVE  LET Errors(s) == {i \in DOMAIN s : s[i] = "server-error"}
           IN  /\ Cardinality(Errors(codes)) \in Nat
               /\ Cardinality(Errors(Append(codes, answer))) =
                    IF answer = "server-error" THEN Cardinality(Errors(codes)) + 1
                    ELSE Cardinality(Errors(codes))
<1> DEFINE Errors(s) == {i \in DOMAIN s : s[i] = "server-error"}
<1>1. IsFiniteSet(1 .. Len(codes))
  BY FS_Interval
<1>2. IsFiniteSet(Errors(codes))
  <2>1. Errors(codes) \in SUBSET (1 .. Len(codes))
    OBVIOUS
  <2> QED
    BY <1>1, <2>1, FS_Subset
<1>3. Cardinality(Errors(codes)) \in Nat
  BY <1>2, FS_CardinalityType
<1>4. CASE answer = "server-error"
  <2>1. Errors(Append(codes, answer)) = Errors(codes) \cup {Len(codes) + 1}
    BY <1>4
  <2>2. Len(codes) + 1 \notin Errors(codes)
    OBVIOUS
  <2> QED
    BY <1>2, <1>3, <1>4, <2>1, <2>2, FS_AddElement
<1>5. CASE answer # "server-error"
  <2>1. Errors(Append(codes, answer)) = Errors(codes)
    BY <1>5
  <2> QED
    BY <1>3, <1>5, <2>1
<1> QED
  BY <1>4, <1>5

\* No attempts are attempts that the policy allows.
LEMMA NoAttempts == Retried(<<>>)
<1>1. {i \in DOMAIN <<>> : <<>>[i] = "server-error"} = {}
  OBVIOUS
<1> QED
  BY <1>1, FS_EmptySet DEF Retried

\* What _may_retry lets through keeps to the policy.
LEMMA MayRetryFollows ==
    ASSUME NEW answer \in Answers, NEW max \in Nat, attempts \in Seq(Answers),
           Retried(attempts), MayRetry(answer, max)
    PROVE  /\ Retried(Append(attempts, answer))
           /\ Append(attempts, answer) \in Seq(Answers)
           /\ Len(Append(attempts, answer)) < max
<1>1. \A i \in DOMAIN Append(attempts, answer) :
         Append(attempts, answer)[i] \in {"transient", "server-error"}
  BY DEF Retried, MayRetry
<1>2. Cardinality({i \in DOMAIN Append(attempts, answer) :
                      Append(attempts, answer)[i] = "server-error"}) =< 1
  BY ServerErrorsAppend DEF Retried, MayRetry, ServerErrorRetries
<1>3. /\ Append(attempts, answer) \in Seq(Answers)
      /\ Len(Append(attempts, answer)) < max
  BY DEF MayRetry
<1>4. Retried(Append(attempts, answer))
  BY ONLY <1>1, <1>2 DEF Retried
<1> QED
  BY <1>3, <1>4

\* What it does not let through leaves nothing to try.
LEMMA GivenUp ==
    ASSUME NEW answer \in Answers, NEW max \in Nat, attempts \in Seq(Answers),
           Retried(attempts), ~MayRetry(answer, max), Len(attempts) < max,
           Retried(Append(attempts, answer))
    PROVE  Len(attempts) + 1 = max
<1>1. answer \in {"transient", "server-error"}
  <2>1. Append(attempts, answer)[Len(attempts) + 1] = answer
        /\ Len(attempts) + 1 \in DOMAIN Append(attempts, answer)
    OBVIOUS
  <2> QED
    BY <2>1 DEF Retried
<1>2. answer = "server-error" => ServerErrorRetries < 1
  BY ServerErrorsAppend DEF Retried, ServerErrorRetries
<1> QED
  BY <1>1, <1>2 DEF MayRetry

-----------------------------------------------------------------------------
(* Steps.                                                                   *)

LEMMA InitLemma == Init => IInv
<1> SUFFICES ASSUME Init PROVE IInv
  OBVIOUS
<1> USE DEF Init
<1>1. TypeOK
  <2>1. <<>> \in Seq(Answers)
    BY EmptySeq
  <2>2. NoOutcome \in Outcomes
    BY <2>1 DEF NoOutcome, Outcomes, Codes, Kinds
  <2> QED
    BY <2>1, <2>2, BoundsAssumption DEF TypeOK, Steps
<1>2. Phases /\ FrozenWasProven /\ ResultsComparable /\ RetryPolicyFollowed
  BY DEF Phases, Calibrating, Proving, OnPages, FrozenWasProven,
         ResultsComparable, RetryPolicyFollowed, NoOutcome
<1>3. Attempting
  BY NoAttempts DEF Attempting
<1> QED
  BY <1>1, <1>2, <1>3 DEF IInv

\* What an invocation's step leaves alone, unless it says otherwise.
Kept == UNCHANGED <<server, disk, accepted, pages, bounds>>

\* The end of an invocation keeps the invariant, if the policy was followed.
LEMMA EndAsLemma ==
    ASSUME IInv, Kept, tries' \in 0 .. 1, NEW end \in Outcomes, EndAs(end),
           RetryPolicyFollowed'
    PROVE  IInv'
<1> USE DEF IInv, Kept, EndAs, disk, bounds
<1>1. TypeOK'
  BY DEF TypeOK, Steps
<1>2. Phases'
  BY DEF Phases, Calibrating, Proving, OnPages
<1>3. Attempting'
  BY NoAttempts DEF Attempting
<1>4. FrozenWasProven' /\ ResultsComparable'
  BY DEF FrozenWasProven, ResultsComparable
<1> QED
  BY <1>1, <1>2, <1>3, <1>4

\* An end without attempts, by an exception or by completion.
LEMMA EndLemma ==
    ASSUME IInv, Kept, tries' \in 0 .. 1,
           NEW kind \in Kinds, NEW code \in Codes, End(kind, code)
    PROVE  IInv'
<1> DEFINE end == [kind |-> kind, code |-> code, attempts |-> <<>>]
<1>1. <<>> \in Seq(Answers)
  BY EmptySeq
<1>2. end \in Outcomes /\ end.attempts = <<>>
  BY <1>1 DEF Outcomes
<1>3. EndAs(end)
  BY DEF End
<1>4. RetryPolicyFollowed'
  BY <1>2, <1>3 DEF RetryPolicyFollowed, EndAs
<1> QED
  BY <1>2, <1>3, <1>4, EndAsLemma

\* A step to another point of the invocation, with the attempts settled.
LEMMA GoToLemma ==
    ASSUME IInv, Kept, UNCHANGED outcome, tries' \in 0 .. 1,
           NEW step \in Steps, pc' = step,
           draft' \in Environments \cup {NoDraft},
           bound' \in Environments \cup {Nothing},
           attempts' \in Seq(Answers), Phases', Attempting'
    PROVE  IInv'
<1> USE DEF IInv, Kept, disk, bounds
<1>1. TypeOK'
  BY DEF TypeOK
<1>2. FrozenWasProven' /\ ResultsComparable' /\ RetryPolicyFollowed'
  BY DEF FrozenWasProven, ResultsComparable, RetryPolicyFollowed
<1> QED
  BY <1>1, <1>2

-----------------------------------------------------------------------------
(* A first invocation: calibration and discovery.                           *)

StartedFirst == Calibrating \ {"freeze"}

\* A step within the calibration, or out of it to the smoke request.
LEMMA CalibrationLemma ==
    ASSUME IInv, Kept, UNCHANGED outcome, tries' \in 0 .. 1,
           environment = Nothing, pc \in {"preflight"} \cup StartedFirst,
           NEW step \in StartedFirst \cup {"smoke"}, pc' = step,
           draft' \in Environments, UNCHANGED <<attempts, bound>>
    PROVE  IInv'
<1> USE DEF IInv, Kept, disk, StartedFirst, Calibrating
<1>1. step \in Steps
  BY DEF Steps
<1>2. Phases'
  BY DEF Phases, Proving, OnPages
<1>3. Attempting'
  BY NoAttempts DEF Attempting
<1>4. bound' \in Environments \cup {Nothing} /\ attempts' \in Seq(Answers)
  BY DEF TypeOK
<1> QED
  BY <1>1, <1>2, <1>3, <1>4, GoToLemma

LEMMA StartLemma == ASSUME IInv, Start PROVE IInv'
<1> USE DEF IInv, Start, disk
<1>1. TypeOK'
  <2>1. NoOutcome \in Outcomes
    BY EmptySeq DEF NoOutcome, Outcomes, Codes, Kinds
  <2> QED
    BY <2>1, BoundsAssumption DEF TypeOK, Steps
<1>2. Phases' /\ Attempting'
  BY DEF Phases, Attempting, Calibrating, Proving, OnPages
<1>3. FrozenWasProven' /\ ResultsComparable' /\ RetryPolicyFollowed'
  BY DEF FrozenWasProven, ResultsComparable, RetryPolicyFollowed, NoOutcome
<1> QED
  BY <1>1, <1>2, <1>3

LEMMA PreflightFailsLemma == ASSUME IInv, PreflightFails PROVE IInv'
<1>1. Kept /\ tries' \in 0 .. 1
  BY DEF IInv, TypeOK, PreflightFails, Request, Kept
<1>2. \E code \in Codes : End("processing", code)
  BY DEF PreflightFails, Codes
<1> QED
  BY <1>1, <1>2, EndLemma DEF Kinds

LEMMA PreflightLemma == ASSUME IInv, Preflight PROVE IInv'
<1>1. Kept /\ tries' \in 0 .. 1 /\ UNCHANGED <<outcome, attempts, bound>>
  BY DEF IInv, TypeOK, Preflight, Request, Kept, GoTo
<1>2. environment = Nothing /\ pc = "preflight"
  BY DEF Preflight, Request
<1>3. draft' \in Environments
  <2>1. PICK supported \in BOOLEAN :
           draft' = [NoDraft EXCEPT !.server = server, !.templated = supported]
    BY DEF Preflight
  <2>2. draft' = [server |-> server, templated |-> supported, thinking |-> 1,
                  counting |-> "estimate"]
    BY <2>1 DEF NoDraft
  <2>3. 1 \in 1 .. Len(Formats) /\ server \in Servers
    BY FormatsAssumption DEF IInv, TypeOK
  <2> QED
    BY <2>2, <2>3 DEF Environments, Modes
<1>4. pc' \in StartedFirst
  BY DEF Preflight, GoTo, FirstProbe, StartedFirst, Calibrating
<1> QED
  BY <1>1, <1>2, <1>3, <1>4, CalibrationLemma

\* The next candidate is tried, or there is none left.
LEMMA RejectLemma ==
    ASSUME IInv, Kept, UNCHANGED tries, pc \in StartedFirst, RejectCandidate
    PROVE  IInv'
<1>1. tries' \in 0 .. 1 /\ environment = Nothing /\ draft \in Environments
  BY DEF IInv, TypeOK, Phases, StartedFirst
<1>2. CASE draft.thinking < Len(Formats)
  <2>1. draft' = [draft EXCEPT !.thinking = @ + 1]
        /\ UNCHANGED <<outcome, attempts, bound>>
        /\ pc' \in StartedFirst
    BY <1>2 DEF RejectCandidate, GoTo, FirstProbe, StartedFirst, Calibrating
  <2>2. draft.thinking + 1 \in 1 .. Len(Formats)
    BY <1>1, <1>2, FormatsAssumption DEF Environments
  <2>3. draft' \in Environments
    BY <1>1, <2>1, <2>2 DEF Environments
  <2> QED
    BY <1>1, <2>1, <2>3, CalibrationLemma
<1>3. CASE ~(draft.thinking < Len(Formats))
  BY <1>1, <1>3, EndLemma DEF RejectCandidate, Kinds, Codes
<1> QED
  BY <1>2, <1>3

\* The same environment, one step further.
LEMMA ContinueLemma ==
    ASSUME IInv, Kept, tries' \in 0 .. 1, pc \in StartedFirst,
           NEW step \in StartedFirst \cup {"smoke"}, Continue(step)
    PROVE  IInv'
<1>1. environment = Nothing /\ draft \in Environments
  BY DEF IInv, Phases, StartedFirst
<1> QED
  BY <1>1, CalibrationLemma DEF Continue, GoTo

LEMMA CalibrateTemplateLemma == ASSUME IInv, CalibrateTemplate PROVE IInv'
<1>1. Kept /\ UNCHANGED tries /\ tries' \in 0 .. 1 /\ pc \in StartedFirst
  BY DEF IInv, TypeOK, CalibrateTemplate, Request, Kept, StartedFirst, Calibrating
<1>2. CASE Continue("calibrate-raw")
  BY <1>1, <1>2, ContinueLemma DEF StartedFirst, Calibrating
<1>3. CASE SmokeUnavailable
  BY <1>1, <1>3, EndLemma DEF SmokeUnavailable, Kinds, Codes
<1>4. CASE RejectCandidate
  BY <1>1, <1>4, RejectLemma
<1> QED
  BY <1>2, <1>3, <1>4 DEF CalibrateTemplate

LEMMA ProbeFailsLemma ==
    ASSUME IInv, Kept, UNCHANGED tries, NEW answer \in Answers, ProbeFails(answer)
    PROVE  IInv'
<1>1. tries' \in 0 .. 1
  BY DEF IInv, TypeOK
<1> QED
  BY <1>1, EndLemma DEF ProbeFails, SmokeUnavailable, Kinds, Codes

LEMMA CalibrateRawLemma ==
    ASSUME IInv, NEW answer \in Answers, CalibrateRaw(answer) PROVE IInv'
<1>1. Kept /\ UNCHANGED tries /\ tries' \in 0 .. 1 /\ pc \in StartedFirst
  BY DEF IInv, TypeOK, CalibrateRaw, Request, Kept, StartedFirst, Calibrating
<1>2. CASE ProbeFails(answer)
  BY <1>1, <1>2, ProbeFailsLemma
<1>3. CASE End("uncaught", "IndexError")
  BY <1>1, <1>3, EndLemma DEF Kinds, Codes
<1>4. CASE RejectCandidate
  BY <1>1, <1>4, RejectLemma
<1>5. CASE Continue("calibrate-production")
  BY <1>1, <1>5, ContinueLemma DEF StartedFirst, Calibrating
<1> QED
  BY <1>2, <1>3, <1>4, <1>5 DEF CalibrateRaw

LEMMA CalibrateProductionLemma ==
    ASSUME IInv, NEW answer \in Answers, CalibrateProduction(answer) PROVE IInv'
<1>1. Kept /\ UNCHANGED tries /\ tries' \in 0 .. 1 /\ pc \in StartedFirst
  BY DEF IInv, TypeOK, CalibrateProduction, Request, Kept, StartedFirst, Calibrating
<1>2. CASE ProbeFails(answer)
  BY <1>1, <1>2, ProbeFailsLemma
<1>3. CASE End("uncaught", "_CompletionFailure")
  BY <1>1, <1>3, EndLemma DEF Kinds, Codes
<1>4. CASE RejectCandidate
  BY <1>1, <1>4, RejectLemma
<1>5. CASE Continue("render")
  BY <1>1, <1>5, ContinueLemma DEF StartedFirst, Calibrating
<1> QED
  BY <1>2, <1>3, <1>4, <1>5 DEF CalibrateProduction

LEMMA RenderCalibrationPageLemma ==
    ASSUME IInv, RenderCalibrationPage
    PROVE  IInv'
<1>1. Kept /\ tries' \in 0 .. 1 /\ pc \in StartedFirst
  BY DEF RenderCalibrationPage, Request, Kept, StartedFirst, Calibrating
<1>2. CASE Continue("discover-text")
  BY <1>1, <1>2, ContinueLemma DEF StartedFirst, Calibrating
<1>3. CASE End("processing", "page-render-failed")
  BY <1>1, <1>3, EndLemma DEF Kinds, Codes
<1> QED
  BY <1>2, <1>3 DEF RenderCalibrationPage

\* The one retry of a counting probe changes nothing but its count.
LEMMA RetryProbeLemma ==
    ASSUME IInv, Kept, NEW answer \in ProbeAnswers, RetryProbe(answer),
           pc \in StartedFirst \cup {"page"}
    PROVE  IInv'
<1> USE DEF IInv, Kept, disk, RetryProbe
<1>1. Phases' /\ Attempting'
  BY DEF Phases, Attempting
<1>2. TypeOK'
  BY DEF TypeOK, bounds
<1>3. FrozenWasProven' /\ ResultsComparable' /\ RetryPolicyFollowed'
  BY DEF FrozenWasProven, ResultsComparable, RetryPolicyFollowed
<1> QED
  BY <1>1, <1>2, <1>3

LEMMA DiscoveryFailsLemma ==
    ASSUME IInv, Kept, NEW answer \in ProbeAnswers, DiscoveryFails(answer)
    PROVE  IInv'
<1>1. tries' \in 0 .. 1
  BY DEF IInv, TypeOK, DiscoveryFails
<1> QED
  BY <1>1, EndLemma DEF DiscoveryFails, CalibrationFailed, Kinds, Codes

LEMMA FreezeLemma ==
    ASSUME IInv, Kept, tries' \in 0 .. 1, pc \in StartedFirst,
           NEW mode \in Modes, Freeze(mode)
    PROVE  IInv'
<1>1. environment = Nothing /\ draft \in Environments
  BY DEF IInv, Phases, StartedFirst
<1>2. draft' \in Environments
  BY <1>1 DEF Freeze, Environments
<1> QED
  BY <1>1, <1>2, CalibrationLemma DEF Freeze, GoTo

LEMMA DiscoverTextLemma ==
    ASSUME IInv, NEW answer \in ProbeAnswers, DiscoverText(answer) PROVE IInv'
<1>1. Kept /\ pc \in StartedFirst
  BY DEF DiscoverText, Request, Kept, StartedFirst, Calibrating
<1>2. CASE RetryProbe(answer)
  BY <1>1, <1>2, RetryProbeLemma
<1>3. CASE DiscoveryFails(answer)
  BY <1>1, <1>3, DiscoveryFailsLemma
<1>4. CASE tries' = 0 /\ Continue("discover-template")
  BY <1>1, <1>4, ContinueLemma DEF StartedFirst, Calibrating
<1>5. CASE tries' = 0 /\ Continue("discover-image")
  BY <1>1, <1>5, ContinueLemma DEF StartedFirst, Calibrating
<1> QED
  BY <1>2, <1>3, <1>4, <1>5 DEF DiscoverText

LEMMA DiscoverImageLemma ==
    ASSUME IInv, NEW answer \in ProbeAnswers, DiscoverImage(answer) PROVE IInv'
<1>1. Kept /\ pc \in StartedFirst
  BY DEF DiscoverImage, Request, Kept, StartedFirst, Calibrating
<1>2. CASE RetryProbe(answer)
  BY <1>1, <1>2, RetryProbeLemma
<1>3. CASE DiscoveryFails(answer)
  BY <1>1, <1>3, DiscoveryFailsLemma
<1>4. CASE tries' = 0 /\ Continue("discover-template")
  BY <1>1, <1>4, ContinueLemma DEF StartedFirst, Calibrating
<1>5. CASE tries' = 0 /\ \E mode \in {"multimodal", "text-only"} : Freeze(mode)
  BY <1>1, <1>5, FreezeLemma DEF Modes
<1> QED
  BY <1>2, <1>3, <1>4, <1>5 DEF DiscoverImage

LEMMA DiscoverTemplateLemma ==
    ASSUME IInv, NEW answer \in ProbeAnswers, DiscoverTemplate(answer) PROVE IInv'
<1>1. Kept /\ tries' \in 0 .. 1 /\ pc \in StartedFirst
  BY DEF IInv, TypeOK, DiscoverTemplate, Request, Kept, StartedFirst, Calibrating
<1>2. CASE CalibrationFailed
  BY <1>1, <1>2, EndLemma DEF CalibrationFailed, Kinds, Codes
<1>3. CASE Freeze("apply-template") \/ Freeze("estimate")
  BY <1>1, <1>3, FreezeLemma DEF Modes
<1> QED
  BY <1>2, <1>3 DEF DiscoverTemplate

-----------------------------------------------------------------------------
(* The smoke request, diagnostics and the frozen file.                      *)

LEMMA SmokeLemma ==
    ASSUME IInv, NEW answer \in Answers, Smoke(answer) PROVE IInv'
<1>1. /\ Kept /\ UNCHANGED tries /\ tries' \in 0 .. 1 /\ pc = "smoke"
      /\ attempts \in Seq(Answers) /\ Retried(attempts)
  BY DEF IInv, TypeOK, Attempting, Smoke, Request, Kept
<1>2. CASE MayRetry(answer, 2) /\ Retry(answer)
  <2>1. Retried(attempts') /\ attempts' \in Seq(Answers)
    BY <1>1, <1>2, MayRetryFollows DEF Retry
  <2>2. Attempting'
    BY <1>1, <1>2, <2>1 DEF Attempting, Retry
  <2>3. Phases'
    BY <1>1, <1>2 DEF IInv, Phases, Retry, Kept, disk
  <2> QED
    BY <1>1, <1>2, <2>1, <2>2, <2>3, GoToLemma DEF IInv, TypeOK, Retry
<1>3. CASE SmokeUnavailable
  BY <1>1, <1>3, EndLemma DEF SmokeUnavailable, Kinds, Codes
<1>4. CASE End("processing", "thinking-control-contract-drift")
  BY <1>1, <1>4, EndLemma DEF Kinds, Codes
<1>5. CASE GoTo("record") /\ attempts' = <<>> /\ UNCHANGED <<draft, bound>>
  <2>1. Phases'
    BY <1>1, <1>5
       DEF IInv, Phases, Calibrating, Proving, OnPages, GoTo, Kept, disk
  <2>2. Attempting'
    BY <1>5, NoAttempts DEF Attempting, GoTo
  <2>3. attempts' \in Seq(Answers) /\ "record" \in Steps
    BY <1>5, EmptySeq DEF Steps
  <2> QED
    BY <1>1, <1>5, <2>1, <2>2, <2>3, GoToLemma DEF IInv, TypeOK, GoTo
<1> QED
  BY <1>2, <1>3, <1>4, <1>5 DEF Smoke

LEMMA RecordDiagnosticsLemma == ASSUME IInv, RecordDiagnostics PROVE IInv'
<1> USE DEF IInv, RecordDiagnostics, GoTo, bounds
<1>1. draft \in Environments /\ (environment # Nothing => draft = environment)
  BY DEF Phases, Proving
<1>2. TypeOK'
  BY <1>1 DEF TypeOK, Steps
<1>3. Phases'
  BY <1>1 DEF Phases, Calibrating, Proving, OnPages
<1>4. Attempting'
  BY DEF Attempting
<1>5. FrozenWasProven' /\ ResultsComparable' /\ RetryPolicyFollowed'
  BY DEF FrozenWasProven, ResultsComparable, RetryPolicyFollowed
<1> QED
  BY <1>2, <1>3, <1>4, <1>5

LEMMA WriteEnvironmentLemma == ASSUME IInv, WriteEnvironment PROVE IInv'
<1> USE DEF IInv, WriteEnvironment, GoTo, bounds
<1>1. draft \in Environments /\ draft \in diagnostics
  BY DEF Phases, Calibrating
<1>2. accepted = {}
  BY NothingAssumption DEF ResultsComparable, TypeOK
<1>3. TypeOK'
  BY <1>1 DEF TypeOK, Steps
<1>4. Phases'
  BY <1>1, NothingAssumption DEF Phases, Calibrating, Proving, OnPages
<1>5. Attempting'
  BY DEF Attempting
<1>6. FrozenWasProven' /\ ResultsComparable' /\ RetryPolicyFollowed'
  BY <1>1, <1>2 DEF FrozenWasProven, ResultsComparable, RetryPolicyFollowed
<1> QED
  BY <1>3, <1>4, <1>5, <1>6

LEMMA VerifyLemma == ASSUME IInv, Verify PROVE IInv'
<1>1. Kept /\ UNCHANGED tries /\ tries' \in 0 .. 1 /\ pc = "preflight"
      /\ environment # Nothing /\ environment \in Environments
  BY DEF IInv, TypeOK, Verify, Request, Kept
<1>2. CASE server = environment.server
  <2>1. draft' = environment /\ GoTo("smoke") /\ UNCHANGED <<attempts, bound>>
    BY <1>2 DEF Verify
  <2>2. Phases'
    BY <1>1, <2>1
       DEF IInv, Phases, Calibrating, Proving, OnPages, GoTo, Kept, disk
  <2>3. Attempting'
    BY <1>1, <2>1, NoAttempts DEF IInv, Attempting, GoTo
  <2> QED
    BY <1>1, <2>1, <2>2, <2>3, GoToLemma DEF IInv, TypeOK, GoTo, Steps
<1>3. CASE server # environment.server
  BY <1>1, <1>3, EndLemma DEF Verify, Kinds, Codes
<1> QED
  BY <1>2, <1>3

-----------------------------------------------------------------------------
(* Pages.                                                                   *)

\* A page that fits its budget is sent.
LEMMA FitsLemma ==
    ASSUME IInv, Kept, tries' \in 0 .. 1, pc = "page", pages < MaxPages, Fits
    PROVE  IInv'
<1> USE DEF IInv, Fits, GoTo, Kept, disk
<1>1. Phases'
  BY DEF Phases, Calibrating, Proving, OnPages
<1>2. Attempting'
  BY NoAttempts, AttemptsAssumption DEF Attempting
<1>3. /\ "complete" \in Steps /\ draft' \in Environments \cup {NoDraft}
      /\ bound' \in Environments \cup {Nothing} /\ attempts' \in Seq(Answers)
  BY DEF TypeOK, Steps
<1> QED
  BY <1>1, <1>2, <1>3, GoToLemma

LEMMA BudgetByCountLemma ==
    ASSUME IInv, NEW answer \in ProbeAnswers, BudgetByCount(answer) PROVE IInv'
<1>1. /\ Kept /\ pc = "page" /\ pages < MaxPages
      /\ UNCHANGED tries => tries' \in 0 .. 1
  BY DEF IInv, TypeOK, BudgetByCount, Request, Kept
<1>2. CASE RetryProbe(answer)
  BY <1>1, <1>2, RetryProbeLemma
<1>3. CASE ProbeUnavailable /\ UNCHANGED tries
  BY <1>1, <1>3, EndLemma DEF ProbeUnavailable, Kinds, Codes
<1>4. CASE ContractDrift /\ UNCHANGED tries
  BY <1>1, <1>4, EndLemma DEF ContractDrift, Kinds, Codes
<1>5. CASE tries' = 0 /\ CountedBudget
  <2>1. tries' \in 0 .. 1
    BY <1>5
  <2> QED
    BY <1>1, <1>5, <2>1, FitsLemma, EndLemma DEF CountedBudget, Kinds, Codes
<1>6. \/ RetryProbe(answer)
      \/ ProbeUnavailable /\ UNCHANGED tries
      \/ ContractDrift /\ UNCHANGED tries
      \/ tries' = 0 /\ CountedBudget
  BY DEF BudgetByCount
<1> QED
  BY <1>2, <1>3, <1>4, <1>5, <1>6

LEMMA BudgetByTemplateLemma ==
    ASSUME IInv, NEW answer \in ProbeAnswers, BudgetByTemplate(answer) PROVE IInv'
<1>1. Kept /\ tries' \in 0 .. 1 /\ pc = "page" /\ pages < MaxPages
  BY DEF IInv, TypeOK, BudgetByTemplate, Request, Kept
<1>2. CASE ProbeUnavailable
  BY <1>1, <1>2, EndLemma DEF ProbeUnavailable, Kinds, Codes
<1>3. CASE ContractDrift
  BY <1>1, <1>3, EndLemma DEF ContractDrift, Kinds, Codes
<1>4. CASE CountedBudget
  BY <1>1, <1>4, FitsLemma, EndLemma DEF CountedBudget, Kinds, Codes
<1> QED
  BY <1>2, <1>3, <1>4 DEF BudgetByTemplate

LEMMA BudgetByEstimateLemma == ASSUME IInv, BudgetByEstimate PROVE IInv'
<1>1. Kept /\ tries' \in 0 .. 1 /\ pc = "page" /\ pages < MaxPages
  BY DEF IInv, TypeOK, BudgetByEstimate, Request, Kept
<1> QED
  BY <1>1, FitsLemma, EndLemma DEF BudgetByEstimate, Kinds, Codes

\* A completion that is given up reports attempts that followed the policy.
LEMMA GiveUpLemma ==
    ASSUME IInv, Kept, tries' \in 0 .. 1, pc = "complete",
           NEW answer \in Answers, ~MayRetry(answer, MaxAttempts), GiveUp(answer)
    PROVE  IInv'
<1> DEFINE failed == Append(attempts, answer)
           end == [kind |-> "inference", code |-> answer, attempts |-> failed]
<1>1. /\ attempts \in Seq(Answers) /\ Retried(attempts)
      /\ Len(attempts) < MaxAttempts /\ MaxAttempts \in Nat
  BY AttemptsAssumption DEF IInv, TypeOK, Attempting
<1>2. failed \in Seq(Answers) /\ end \in Outcomes
  BY <1>1 DEF Outcomes, Kinds
<1>3. EndAs(end)
  BY DEF GiveUp
<1>4. /\ Len(failed) = Len(attempts) + 1
      /\ SubSeq(failed, 1, Len(failed) - 1) = attempts
  BY <1>1
<1>5. Retried(failed) => Len(failed) = MaxAttempts
  BY <1>1, <1>4, GivenUp
<1>6. outcome'.attempts = failed
  BY <1>3 DEF EndAs
<1>7. RetryPolicyFollowed'
  <2>1. Len(failed) =< MaxAttempts
    BY <1>1, <1>4
  <2> QED
    BY <1>1, <1>4, <1>5, <1>6, <2>1 DEF RetryPolicyFollowed
<1> QED
  BY <1>2, <1>3, <1>7, EndAsLemma

LEMMA CompleteLemma ==
    ASSUME IInv, NEW answer \in Answers, Complete(answer) PROVE IInv'
<1>1. /\ tries' \in 0 .. 1 /\ pc = "complete" /\ MaxAttempts \in Nat
      /\ attempts \in Seq(Answers) /\ Retried(attempts)
      /\ UNCHANGED <<server, disk, tries, pages, bounds>>
  BY AttemptsAssumption DEF IInv, TypeOK, Attempting, Complete
<1>2. CASE MayRetry(answer, MaxAttempts) /\ Retry(answer) /\ UNCHANGED accepted
  <2>1. /\ Retried(attempts') /\ attempts' \in Seq(Answers)
        /\ Len(attempts') < MaxAttempts
    BY <1>1, <1>2, MayRetryFollows DEF Retry
  <2>2. Attempting'
    BY <1>1, <1>2, <2>1 DEF Attempting, Retry
  <2>3. Phases'
    BY <1>1, <1>2 DEF IInv, Phases, Retry, disk
  <2> QED
    BY <1>1, <1>2, <2>1, <2>2, <2>3, GoToLemma DEF IInv, TypeOK, Retry, Kept
<1>3. CASE ~MayRetry(answer, MaxAttempts) /\ GiveUp(answer) /\ UNCHANGED accepted
  BY <1>1, <1>3, GiveUpLemma DEF Kept
<1>4. CASE /\ answer = "good"
           /\ accepted' = accepted \cup {[environment |-> bound, answer |-> answer]}
           /\ GoTo("commit") /\ attempts' = <<>>
           /\ UNCHANGED <<draft, bound>>
  <2> USE <1>1, <1>4 DEF IInv, GoTo, disk
  <2>1. bound = environment /\ environment \in Environments
    BY DEF Phases, OnPages, TypeOK
  <2>2. TypeOK'
    BY <2>1, EmptySeq DEF TypeOK, Steps, bounds
  <2>3. Phases'
    BY DEF Phases, Calibrating, Proving, OnPages
  <2>4. Attempting'
    BY NoAttempts DEF Attempting
  <2>5. FrozenWasProven' /\ RetryPolicyFollowed'
    BY DEF FrozenWasProven, RetryPolicyFollowed
  <2>6. ResultsComparable'
    BY <2>1 DEF ResultsComparable
  <2> QED
    BY <2>2, <2>3, <2>4, <2>5, <2>6
<1> QED
  BY <1>2, <1>3, <1>4 DEF Complete

LEMMA CommitPageLemma == ASSUME IInv, CommitPage PROVE IInv'
<1>1. /\ tries' \in 0 .. 1 /\ pc = "commit"
      /\ UNCHANGED <<server, disk, tries, accepted, bounds>>
  BY DEF IInv, TypeOK, CommitPage
<1>2. CASE /\ GoTo("page") /\ pages' = pages + 1
           /\ UNCHANGED <<draft, attempts, bound>>
  <2> USE <1>1, <1>2 DEF IInv, GoTo, disk
  <2>1. TypeOK'
    BY BoundsAssumption DEF TypeOK, Steps, bounds, Phases
  <2>2. Phases' /\ Attempting'
    BY DEF Phases, Attempting, Calibrating, Proving, OnPages
  <2>3. FrozenWasProven' /\ ResultsComparable' /\ RetryPolicyFollowed'
    BY DEF FrozenWasProven, ResultsComparable, RetryPolicyFollowed
  <2> QED
    BY <2>1, <2>2, <2>3
<1>3. CASE End("structural", "") /\ UNCHANGED pages
  BY <1>1, <1>3, EndLemma DEF Kinds, Codes, Kept
<1> QED
  BY <1>2, <1>3 DEF CommitPage

LEMMA FinishLemma == ASSUME IInv, Finish PROVE IInv'
<1>1. Kept /\ tries' \in 0 .. 1 /\ End("completed", "")
  BY DEF IInv, TypeOK, Finish, Request, Kept
<1> QED
  BY <1>1, EndLemma DEF Kinds, Codes

LEMMA CrashLemma == ASSUME IInv, Crash PROVE IInv'
<1>1. Kept /\ tries' \in 0 .. 1 /\ End("crashed", "")
  BY DEF IInv, TypeOK, Crash, Kept
<1> QED
  BY <1>1, EndLemma DEF Kinds, Codes

LEMMA RestartServerLemma == ASSUME IInv, RestartServer PROVE IInv'
<1> USE DEF IInv, RestartServer, disk
<1>1. TypeOK'
  BY BoundsAssumption DEF TypeOK
<1>2. Phases' /\ Attempting'
  BY DEF Phases, Attempting
<1>3. FrozenWasProven' /\ ResultsComparable' /\ RetryPolicyFollowed'
  BY DEF FrozenWasProven, ResultsComparable, RetryPolicyFollowed
<1> QED
  BY <1>1, <1>2, <1>3

-----------------------------------------------------------------------------
(* The theorems.                                                            *)

LEMMA StepLemma == IInv /\ [Next]_vars => IInv'
<1> SUFFICES ASSUME IInv, [Next]_vars PROVE IInv'
  OBVIOUS
<1>1. CASE Start
  BY <1>1, StartLemma
<1>2. CASE Work
  <2>1. CASE PreflightFails \/ Preflight \/ Verify
    BY <2>1, PreflightFailsLemma, PreflightLemma, VerifyLemma
  <2>2. CASE CalibrateTemplate \/ RenderCalibrationPage
    BY <2>2, CalibrateTemplateLemma, RenderCalibrationPageLemma
  <2>3. ASSUME NEW answer \in Answers,
               CalibrateRaw(answer) \/ CalibrateProduction(answer)
                 \/ Smoke(answer) \/ Complete(answer)
        PROVE  IInv'
    BY <2>3, CalibrateRawLemma, CalibrateProductionLemma, SmokeLemma, CompleteLemma
  <2>4. ASSUME NEW answer \in ProbeAnswers,
               DiscoverText(answer) \/ DiscoverImage(answer)
                 \/ DiscoverTemplate(answer)
        PROVE  IInv'
    BY <2>4, DiscoverTextLemma, DiscoverImageLemma, DiscoverTemplateLemma
  <2>5. ASSUME NEW answer \in ProbeAnswers,
               BudgetByCount(answer) \/ BudgetByTemplate(answer)
        PROVE  IInv'
    BY <2>5, BudgetByCountLemma, BudgetByTemplateLemma
  <2>6. CASE BudgetByEstimate \/ RecordDiagnostics \/ WriteEnvironment
    BY <2>6, BudgetByEstimateLemma, RecordDiagnosticsLemma, WriteEnvironmentLemma
  <2>7. CASE CommitPage \/ Finish
    BY <2>7, CommitPageLemma, FinishLemma
  <2> QED
    BY <1>2, <2>1, <2>2, <2>3, <2>4, <2>5, <2>6, <2>7 DEF Work
<1>3. CASE Crash \/ RestartServer
  BY <1>3, CrashLemma, RestartServerLemma
<1>4. CASE UNCHANGED vars
  <2> USE <1>4 DEF vars, disk, bounds, IInv
  <2>1. TypeOK' /\ Phases' /\ Attempting'
    BY DEF TypeOK, Phases, Attempting
  <2>2. FrozenWasProven' /\ ResultsComparable' /\ RetryPolicyFollowed'
    BY DEF FrozenWasProven, ResultsComparable, RetryPolicyFollowed
  <2> QED
    BY <2>1, <2>2
<1> QED
  BY <1>1, <1>2, <1>3, <1>4 DEF Next

\* IInv holds whatever the server answers and whenever anything dies.
THEOREM Invariance == Spec => []IInv
BY InitLemma, StepLemma, PTL DEF Spec

\* Every variable keeps its type.
THEOREM TypeCorrect == Spec => []TypeOK
<1>1. IInv => TypeOK
  BY DEF IInv
<1> QED
  BY <1>1, Invariance, PTL

\* Pages are interpreted under the frozen environment only.
THEOREM FrozenUsed == Spec => []PagesUnderFrozen
<1>1. IInv => PagesUnderFrozen
  BY DEF IInv, Phases, OnPages, PagesUnderFrozen
<1> QED
  BY <1>1, Invariance, PTL

\* What is frozen was proven by a smoke request before, and recorded.
THEOREM FrozenProven == Spec => []FrozenWasProven
<1>1. IInv => FrozenWasProven
  BY DEF IInv
<1> QED
  BY <1>1, Invariance, PTL

\* All results of a run were made under one environment, and are whole.
THEOREM ResultsCompare == Spec => []ResultsComparable
<1>1. IInv => ResultsComparable
  BY DEF IInv
<1> QED
  BY <1>1, Invariance, PTL

\* Failed completions were retried as the policy allows, and not given up early.
THEOREM PolicyFollowed == Spec => []RetryPolicyFollowed
<1>1. IInv => RetryPolicyFollowed
  BY DEF IInv
<1> QED
  BY <1>1, Invariance, PTL

=============================================================================
