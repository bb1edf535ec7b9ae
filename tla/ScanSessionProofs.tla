--------------------------- MODULE ScanSessionProofs ---------------------------
(***************************************************************************)
(* What ScanSession promises, for every set of options, every limit, every    *)
(* cost and any number of scans of an instance.  SessionInv says for each      *)
(* stage what the row, the files, the tracker and the follow-up can be; its    *)
(* parts say what the five properties need of the moments before an end.      *)
(*                                                                           *)
(* And what Publication promises, for any findings, issues and attempts,     *)
(* whatever the agent does.                                                  *)
(***************************************************************************)
EXTENDS ScanSession, Publication, FiniteSetTheorems, SequenceTheorems, TLAPS

\* There are options to choose from, and what is granted first can be granted.
SessionConstants ==
    /\ Option # {} /\ Option \subseteq [deep : BOOLEAN, limited : BOOLEAN,
                          validation : BOOLEAN, post : BOOLEAN, shared : BOOLEAN]
    /\ MaxCost \in Nat /\ MaxRuns \in Nat /\ Limit \in 0 .. MaxCost

\* A scan has no answer before its end, and its stages agree with its row and its files.
StagesAgree ==
    /\ pc \in (Stage \cup Unwinding) => outcome = "none"
    /\ pc \in {"inputs", "session", "runtime", "credentials", "output", "register"} => row = "none"
    /\ pc \in {"collect", "complete"} => files = "sealed"
    /\ pc \in {"followup", "following", "match"} => row = "complete" /\ ~active
    /\ pc \in {"followup", "following"} => files = "sealed"
    /\ pc = "match" => files \in {"sealed", "edited"}
    /\ pc = "recovered" => row = "partial" /\ files = "sealed"
    /\ pc \in {"prompt", "turn", "validation", "stop", "prepare", "collect", "complete"} =>
          active /\ row \in {"running", "canceled"}
    /\ pc \in {"finally", "idle"} /\ outcome = "returned" =>
          row \in {"complete", "partial"} /\ files \in {"sealed", "edited"}

\* A row that runs belongs to a scan at work, or to one that was cut off.
RunningIsActive ==
    /\ row = "running" /\ ~active => incident # {}
    /\ row = "running" /\ pc \in {"post", "posting", "raise", "finally", "idle"} => incident # {}
    /\ pc = "idle" => lock # "ours"

\* What was seen is below the limit, or the scan is aborted; it is no longer looked at
\* once the tracker has stopped.
LimitHolds ==
    /\ closing = "open" => ~closeAborted
    /\ limit > 0 /\ seen > limit => Aborted
    /\ request # "none" => limit > 0
    /\ row = "running" => limit <= rowLimit
    /\ pc \in {"prepare", "collect", "complete", "followup", "following", "match"} =>
          tracker # "on" /\ ~Over(seen)
    /\ pc \in {"recover", "recovered", "fail", "post", "posting", "raise", "finally", "idle"} =>
          tracker # "on"
    /\ outcome = "returned" /\ row = "complete" => ~Over(seen)

\* The follow-up is used up once, and not for a scan that is recovered.
FollowUpAgrees ==
    /\ postRuns = (IF post = "used" THEN 1 ELSE 0)
    /\ pc = "followup" => post = "ready"
    /\ row = "partial" => post = "none"
    /\ pc \in Stage \ {"following", "match"} => post # "used"
    /\ active /\ pc \in {"catch", "recover"} => post # "used"
    /\ pc = "recover" => active

ClosedStays ==
    closing = "done" => pc = "idle" /\ login # "waiting" /\ runtime = "none"

SessionInv ==
    /\ SessionTypeOK /\ StagesAgree /\ RunningIsActive /\ LimitHolds /\ FollowUpAgrees
    /\ ClosedStays

\* Each stage of a scan, when it succeeds and when it throws.
LEMMA StagesKeep ==
  ASSUME SessionConstants, SessionInv,
         ValidateInputs \/ TakeLock \/ EnsureRuntime \/ RuntimeReady \/ CheckCredentials \/
         PrepareOutput \/ Register \/ PreparePrompt \/ ThreadStarted \/ TurnEnds \/ Validate
         \/ StopTracker \/ PrepareCompletion \/ CollectResult \/ CompleteScan \/
         StartFollowUp \/ EndFollowUp \/ MatchFindings \/ Throw
  PROVE  SessionInv'
<1> USE DEF SessionConstants, SessionInv, SessionTypeOK, FlagsOK, ValuesOK, StagesAgree,
      RunningIsActive, LimitHolds, FollowUpAgrees, ClosedStays, Goto, Proceed, Steady,
      LastCost, CanRecover, Aborted, BudgetAborted, Closed, Over, Near, control, signals,
      instance_, scanning, cost, budget, saved, Stage, Unwinding, Answer
<1>1. CASE ValidateInputs
  BY <1>1 DEF ValidateInputs
<1>2. CASE TakeLock
  BY <1>2 DEF TakeLock
<1>3. CASE EnsureRuntime
  BY <1>3 DEF EnsureRuntime
<1>4. CASE RuntimeReady
  BY <1>4 DEF RuntimeReady
<1>5. CASE CheckCredentials
  BY <1>5 DEF CheckCredentials
<1>6. CASE PrepareOutput
  BY <1>6 DEF PrepareOutput
<1>7. CASE Register
  <2>1. FlagsOK'
    BY <1>7 DEF Register
  <2>2. row' \in {"none", "running", "complete", "partial", "failed", "canceled"}
    BY <1>7 DEF Register
  <2>3. incident' \subseteq {"orphaned", "unsaved"}
    BY <1>7 DEF Register
  <2>4. ValuesOK'
    <3>1. pc' \in {"idle", "finally"} \cup Stage \cup Unwinding
      BY <1>7 DEF Register
    <3>2. files' \in {"none", "sealed", "edited", "broken"}
      BY <1>7 DEF Register
    <3>3. post' \in {"none", "ready", "used"} /\ postRuns' \in Nat
      BY <1>7 DEF Register
    <3> QED BY <1>7, <2>2, <2>3, <3>1, <3>2, <3>3 DEF Register
  <2>5. StagesAgree' /\ RunningIsActive' /\ LimitHolds' /\ FollowUpAgrees' /\ ClosedStays'
    BY <1>7 DEF Register
  <2> QED BY ONLY <2>1, <2>4, <2>5 DEF SessionInv, SessionTypeOK
<1>8. CASE PreparePrompt
  BY <1>8 DEF PreparePrompt
<1>9. CASE ThreadStarted
  BY <1>9 DEF ThreadStarted
<1>10. CASE TurnEnds
  BY <1>10 DEF TurnEnds
<1>11. CASE Validate
  BY <1>11 DEF Validate
<1>12. CASE StopTracker
  BY <1>12 DEF StopTracker
<1>13. CASE PrepareCompletion
  BY <1>13 DEF PrepareCompletion
<1>14. CASE CollectResult
  BY <1>14 DEF CollectResult
<1>15. CASE CompleteScan
  <2>1. FlagsOK'
    BY <1>15 DEF CompleteScan
  <2>2. row' \in {"none", "running", "complete", "partial", "failed", "canceled"}
    BY <1>15 DEF CompleteScan
  <2>3. incident' \subseteq {"orphaned", "unsaved"}
    BY <1>15 DEF CompleteScan
  <2>4. ValuesOK'
    <3>1. pc' \in {"idle", "finally"} \cup Stage \cup Unwinding
      BY <1>15 DEF CompleteScan
    <3>2. files' \in {"none", "sealed", "edited", "broken"}
      BY <1>15 DEF CompleteScan
    <3>3. post' \in {"none", "ready", "used"} /\ postRuns' \in Nat
      BY <1>15 DEF CompleteScan
    <3> QED BY <1>15, <2>2, <2>3, <3>1, <3>2, <3>3 DEF CompleteScan
  <2>5. StagesAgree' /\ RunningIsActive' /\ LimitHolds' /\ FollowUpAgrees' /\ ClosedStays'
    BY <1>15 DEF CompleteScan
  <2> QED BY ONLY <2>1, <2>4, <2>5 DEF SessionInv, SessionTypeOK
<1>16. CASE StartFollowUp
  BY <1>16 DEF StartFollowUp
<1>17. CASE EndFollowUp
  BY <1>17 DEF EndFollowUp
<1>18. CASE MatchFindings
  BY <1>18 DEF MatchFindings
<1>19. CASE Throw
  BY <1>19 DEF Throw
<1> QED BY <1>1, <1>2, <1>3, <1>4, <1>5, <1>6, <1>7, <1>8, <1>9, <1>10, <1>11, <1>12, <1>13,
<1>14, <1>15, <1>16, <1>17, <1>18, <1>19

\* What follows an error: recovery, the row, the follow-up and the lock.
LEMMA UnwindingKeeps ==
  ASSUME SessionConstants, SessionInv,
         Catch \/ RecoverBudget \/ CollectRecovered \/ FailScan \/ PostScan \/ EndPostScan
         \/ Raise \/ Finally
  PROVE  SessionInv'
<1> USE DEF SessionConstants, SessionInv, SessionTypeOK, FlagsOK, ValuesOK, StagesAgree,
      RunningIsActive, LimitHolds, FollowUpAgrees, ClosedStays, Goto, Proceed, Steady,
      LastCost, CanRecover, Aborted, BudgetAborted, Closed, Over, Near, control, signals,
      instance_, scanning, cost, budget, saved, Stage, Unwinding, Answer
<1>1. CASE Catch
  BY <1>1 DEF Catch
<1>2. CASE RecoverBudget
  <2>1. FlagsOK'
    BY <1>2 DEF RecoverBudget
  <2>2. row' \in {"none", "running", "complete", "partial", "failed", "canceled"}
    BY <1>2 DEF RecoverBudget
  <2>3. incident' \subseteq {"orphaned", "unsaved"}
    BY <1>2 DEF RecoverBudget
  <2>4. ValuesOK'
    <3>1. pc' \in {"idle", "finally"} \cup Stage \cup Unwinding
      BY <1>2 DEF RecoverBudget
    <3>2. files' \in {"none", "sealed", "edited", "broken"}
      BY <1>2 DEF RecoverBudget
    <3>3. post' \in {"none", "ready", "used"} /\ postRuns' \in Nat
      BY <1>2 DEF RecoverBudget
    <3> QED BY <1>2, <2>2, <2>3, <3>1, <3>2, <3>3 DEF RecoverBudget
  <2>5. StagesAgree' /\ RunningIsActive' /\ LimitHolds' /\ FollowUpAgrees' /\ ClosedStays'
    BY <1>2 DEF RecoverBudget
  <2> QED BY ONLY <2>1, <2>4, <2>5 DEF SessionInv, SessionTypeOK
<1>3. CASE CollectRecovered
  BY <1>3 DEF CollectRecovered
<1>4. CASE FailScan
  <2>1. FlagsOK'
    BY <1>4 DEF FailScan
  <2>2. row' \in {"none", "running", "complete", "partial", "failed", "canceled"}
    BY <1>4 DEF FailScan
  <2>3. incident' \subseteq {"orphaned", "unsaved"}
    BY <1>4 DEF FailScan
  <2>4. ValuesOK'
    <3>1. pc' \in {"idle", "finally"} \cup Stage \cup Unwinding
      BY <1>4 DEF FailScan
    <3>2. files' \in {"none", "sealed", "edited", "broken"}
      BY <1>4 DEF FailScan
    <3>3. post' \in {"none", "ready", "used"} /\ postRuns' \in Nat
      BY <1>4 DEF FailScan
    <3> QED BY <1>4, <2>2, <2>3, <3>1, <3>2, <3>3 DEF FailScan
  <2>5. StagesAgree' /\ RunningIsActive' /\ LimitHolds' /\ FollowUpAgrees' /\ ClosedStays'
    BY <1>4 DEF FailScan
  <2> QED BY ONLY <2>1, <2>4, <2>5 DEF SessionInv, SessionTypeOK
<1>5. CASE PostScan
  BY <1>5 DEF PostScan
<1>6. CASE EndPostScan
  BY <1>6 DEF EndPostScan
<1>7. CASE Raise
  BY <1>7 DEF Raise
<1>8. CASE Finally
  BY <1>8 DEF Finally
<1> QED BY <1>1, <1>2, <1>3, <1>4, <1>5, <1>6, <1>7, <1>8

\* The callbacks of the tracker and the answers of the user.
LEMMA CostKeeps ==
  ASSUME SessionConstants, SessionInv,
         ObserveCost \/ AnswerRequest \/ SaveLimit
  PROVE  SessionInv'
<1> USE DEF SessionConstants, SessionInv, SessionTypeOK, FlagsOK, ValuesOK, StagesAgree,
      RunningIsActive, LimitHolds, FollowUpAgrees, ClosedStays, Goto, Proceed, Steady,
      LastCost, CanRecover, Aborted, BudgetAborted, Closed, Over, Near, control, signals,
      instance_, scanning, cost, budget, saved, Stage, Unwinding, Answer
<1>1. CASE ObserveCost
  BY <1>1 DEF ObserveCost
<1>2. CASE AnswerRequest
  BY <1>2 DEF AnswerRequest
<1>3. CASE SaveLimit
  BY <1>3 DEF SaveLimit
<1> QED BY <1>1, <1>2, <1>3

\* The instance, its logins, its end, and what others do.
LEMMA InstanceKeeps ==
  ASSUME SessionConstants, SessionInv,
         Start \/ Abort \/ StartLogin \/ TrackLogin \/ EndLogin \/ Close \/ FinishClose \/
         OthersLock \/ CanceledElsewhere
  PROVE  SessionInv'
<1> USE DEF SessionConstants, SessionInv, SessionTypeOK, FlagsOK, ValuesOK, StagesAgree,
      RunningIsActive, LimitHolds, FollowUpAgrees, ClosedStays, Goto, Proceed, Steady,
      LastCost, CanRecover, Aborted, BudgetAborted, Closed, Over, Near, control, signals,
      instance_, scanning, cost, budget, saved, Stage, Unwinding, Answer
<1>1. CASE Start
  <2>1. FlagsOK'
    BY <1>1 DEF Start
  <2>2. row' \in {"none", "running", "complete", "partial", "failed", "canceled"}
    BY <1>1 DEF Start
  <2>3. incident' \subseteq {"orphaned", "unsaved"}
    BY <1>1 DEF Start
  <2>4. ValuesOK'
    <3>1. pc' \in {"idle", "finally"} \cup Stage \cup Unwinding
      BY <1>1 DEF Start
    <3>2. files' \in {"none", "sealed", "edited", "broken"}
      BY <1>1 DEF Start
    <3>3. post' \in {"none", "ready", "used"} /\ postRuns' \in Nat
      BY <1>1 DEF Start
    <3> QED BY <1>1, <2>2, <2>3, <3>1, <3>2, <3>3 DEF Start
  <2>5. StagesAgree' /\ RunningIsActive' /\ LimitHolds' /\ FollowUpAgrees' /\ ClosedStays'
    BY <1>1 DEF Start
  <2> QED BY ONLY <2>1, <2>4, <2>5 DEF SessionInv, SessionTypeOK
<1>2. CASE Abort
  BY <1>2 DEF Abort
<1>3. CASE StartLogin
  BY <1>3 DEF StartLogin
<1>4. CASE TrackLogin
  BY <1>4 DEF TrackLogin
<1>5. CASE EndLogin
  BY <1>5 DEF EndLogin
<1>6. CASE Close
  BY <1>6 DEF Close
<1>7. CASE FinishClose
  BY <1>7 DEF FinishClose
<1>8. CASE OthersLock
  BY <1>8 DEF OthersLock
<1>9. CASE CanceledElsewhere
  BY <1>9 DEF CanceledElsewhere
<1> QED BY <1>1, <1>2, <1>3, <1>4, <1>5, <1>6, <1>7, <1>8, <1>9

\* A new instance has no scan, and no limit.
LEMMA SessionInitKeeps == SessionConstants /\ SessionInit => SessionInv
<1> SUFFICES ASSUME SessionConstants, SessionInit PROVE SessionInv
  OBVIOUS
<1>1. opt \in Option
  BY DEF SessionConstants, SessionInit
<1>2. SessionTypeOK
  <2>1. FlagsOK
    BY DEF SessionInit, FlagsOK
  <2>2. runs \in 0 .. MaxRuns /\ {limit, seen, notified, raise, rowLimit} \subseteq 0 .. MaxCost
    BY DEF SessionConstants, SessionInit
  <2>3. incident \subseteq {"orphaned", "unsaved"} /\ postRuns \in Nat
    BY DEF SessionInit
  <2>4. ValuesOK
    BY <1>1, <2>2, <2>3 DEF SessionInit, ValuesOK, Answer
  <2> QED BY <2>1, <2>4 DEF SessionTypeOK
<1>3. StagesAgree /\ RunningIsActive /\ ClosedStays
  BY DEF SessionInit, StagesAgree, RunningIsActive, ClosedStays, Stage, Unwinding
<1>4. LimitHolds /\ FollowUpAgrees
  BY DEF SessionInit, LimitHolds, FollowUpAgrees, Over, Aborted, Stage, Unwinding
<1> QED BY <1>2, <1>3, <1>4 DEF SessionInv

\* One step of the instance, of its scan or of others.
LEMMA SessionStepKeeps ==
  ASSUME SessionConstants, SessionInv, [SessionNext]_sessionVars
  PROVE  SessionInv'
<1>1. CASE UNCHANGED sessionVars
  BY <1>1 DEF sessionVars, control, signals, instance_, scanning, cost, budget, saved, SessionInv,
     SessionTypeOK, FlagsOK, ValuesOK, StagesAgree, RunningIsActive, LimitHolds,
     FollowUpAgrees, ClosedStays, Over, Aborted
<1>2. CASE RunStep
  BY <1>2, StagesKeep, UnwindingKeeps DEF RunStep
<1>3. CASE SessionNext /\ ~RunStep
  BY <1>3, CostKeeps, InstanceKeeps DEF SessionNext
<1> QED BY <1>1, <1>2, <1>3

\* The stages, the row, the files, the limit, the follow-up and the closing of an instance
\* agree at every moment (api.ts, #runScan and close).
THEOREM SessionInvariant ==
  ASSUME SessionConstants
  PROVE  SessionSpec => []SessionInv
<1>1. SessionInit => SessionInv
  BY SessionInitKeeps
<1>2. SessionInv /\ [SessionNext]_sessionVars => SessionInv'
  BY SessionStepKeeps
<1> QED BY <1>1, <1>2, PTL DEF SessionSpec

\* No stage, callback or command of an instance leaves a value outside its type.
THEOREM SessionTypeCorrect ==
  ASSUME SessionConstants
  PROVE  SessionSpec => []SessionTypeOK
<1>1. SessionInv => SessionTypeOK
  BY DEF SessionInv
<1> QED BY <1>1, SessionInvariant, PTL

\* A scan that returned is saved with sealed files, one that ended is closed and holds no
\* lock, no scan that completed went over its limit, the follow-up runs once, and a closed
\* instance has nothing left: wherever a scan throws, is aborted or is closed.
THEOREM ScansEndAsTheySay ==
  ASSUME SessionConstants
  PROVE  SessionSpec => []SessionIsSound
<1>1. SessionInv => ReturnedScansAreSaved
  BY DEF SessionInv, StagesAgree, ReturnedScansAreSaved
<1>2. SessionInv => EndedScansAreClosed
  BY DEF SessionInv, RunningIsActive, EndedScansAreClosed, Idle
<1>3. SessionInv => LimitsAreKept
  BY DEF SessionInv, LimitHolds, LimitsAreKept
<1>4. SessionInv => FollowUpRunsOnce
  BY DEF SessionInv, SessionTypeOK, ValuesOK, FollowUpAgrees, FollowUpRunsOnce
<1>5. SessionInv => ClosingLeavesNothing
  BY DEF SessionInv, ClosedStays, ClosingLeavesNothing, Idle
<1>6. SessionInv => SessionIsSound
  BY <1>1, <1>2, <1>3, <1>4, <1>5 DEF SessionIsSound
<1> QED BY <1>6, SessionInvariant, PTL

-----------------------------------------------------------------------------
(* Publication.                                                              *)

\* A sequence that is not empty has a first element.
LEMMA FirstOf ==
  ASSUME NEW S, NEW s \in Seq(S)
  PROVE  /\ Len(s) \in Nat
         /\ Len(s) = 0 <=> s = <<>>
         /\ s # <<>> => s[1] \in S /\ 1 \in DOMAIN s
  BY EmptySeq, LenProperties, ElementOfSeq

\* A sequence of one.
LEMMA OnlyOne ==
  ASSUME NEW x
  PROVE  Len(<<x>>) = 1 /\ <<x>>[1] = x
  OBVIOUS

\* A number that is not above one.
LEMMA AtMostOne ==
  ASSUME NEW n \in Nat, ~(n > 1)
  PROVE  n = 0 \/ n = 1
  OBVIOUS

\* The empty sequence has elements of any kind.
LEMMA EmptyIsSeq ==
  ASSUME NEW S
  PROVE  <<>> \in Seq(S)
  BY EmptySeq

\* A sequence of one is not empty.
LEMMA OneIsNotEmpty ==
  ASSUME NEW x
  PROVE  <<x>> # <<>>
  OBVIOUS

\* A scan has finitely many findings; issues and findings are told from what is neither.
PublicationConstants ==
    /\ IsFiniteSet(Finding)
    /\ None \notin Issue /\ None \notin Finding /\ Stray \notin Finding \cup {None}
    /\ Transport \subseteq {"api", "app"} /\ AlwaysSkip \in BOOLEAN /\ MaxAttempts \in Nat

HasRecord(i) == \E r \in records : r[2] = i

\* No issue is lost sight of, whatever the attempts were cut off in.
IssuesAreKnown ==
    /\ IsFiniteSet(made)
    /\ \A i \in made : linear[i] # None
    /\ \A i \in Issue : linear[i] # None => i \in made \/ i \in kept \/ HasRecord(i)

\* What the evidence holds of an issue: its call, or the line written after it.
Told(i) ==
    \/ /\ transport = "app"
       /\ \E n \in DOMAIN events[linear[i]] :
             /\ events[linear[i]][n].status \in {"completed", "bad"}
             /\ events[linear[i]][n].id \in {i, None}
    \/ /\ transport = "api"
       /\ lines[linear[i]] \in {<<SuccessLine(i)>>, <<FailureLine(TRUE)>>}

\* Every issue of an agent that was not killed has left its evidence, a second one of a
\* finding a second call.
IssuesAreTold ==
    step = "working" /\ ~killed =>
        /\ \A i \in made : \/ linear[i] = Stray /\ strays # {}
                           \/ linear[i] \in plan /\ Told(i)
        /\ \A i, j \in made :
              i # j /\ linear[i] = linear[j] /\ linear[i] \in Finding => Len(events[linear[i]]) > 1

\* What the evidence names was made.
EvidenceIsOfIssues ==
    step = "working" => \A f \in Finding :
        /\ \A n \in DOMAIN events[f] : events[f][n].id \in made \cup {None}
        /\ \A n \in DOMAIN lines[f] :
              /\ lines[f][n].id \in made \cup {None}
              /\ lines[f][n].status = "success" => lines[f][n].id # None

\* Over the API every finding is called for once.
CalledOnce ==
    step = "working" /\ transport = "api" =>
        /\ ~killed /\ strays = {} /\ \A f \in Finding : events[f] = <<>>
        /\ pending \cap batch = {}
        /\ \A f \in pending \cup batch : lines[f] = <<>>

\* What was concluded from the evidence: each issue of one finding, and, unless something
\* is unclear, every issue of some finding and no failed finding with an issue.
VerdictHolds ==
    step \in {"record", "conclude"} =>
        /\ \A c \in created : c[1] \in plan /\ c[2] \in made
        /\ \A c, d \in created : c[1] = d[1] \/ c[2] = d[2] => c = d
        /\ ~aborted /\ ~unclear =>
              /\ \A i \in made : \E c \in created : c[2] = i
              /\ \A f \in failed, i \in made : linear[i] # f

PlanIsNew ==
    AlwaysSkip /\ step \in {"working", "record"} => \A r \in records : r[1] \notin plan

ConcludedIsRecorded == step = "conclude" => created \subseteq records

PublicationInv ==
    /\ PublicationTypeOK /\ IssuesAreKnown /\ IssuesAreTold /\ EvidenceIsOfIssues /\ CalledOnce
    /\ VerdictHolds /\ PlanIsNew /\ ConcludedIsRecorded /\ PublicationIsSound

\* What the evidence of a finding says to have been made, was made and is claimed by it.
LEMMA NamedIsOwned ==
  ASSUME PublicationConstants, PublicationTypeOK, EvidenceIsOfIssues, step = "working",
         NEW f \in plan, Outcome(f).id # None
  PROVE  Outcome(f).id \in made /\ f \in Owners(Outcome(f).id)
<1>1. f \in Finding /\ events[f] \in Seq(Event) /\ lines[f] \in Seq(Line)
  BY DEF PublicationTypeOK
<1>2. Call(f).id # None =>
        Call(f).id \in made /\ \E n \in DOMAIN events[f] : events[f][n].id = Call(f).id
  <2>1. CASE events[f] = <<>>
    BY <2>1 DEF Call
  <2>2. CASE events[f] # <<>>
    <3>1. 1 \in DOMAIN events[f] /\ Call(f) = events[f][1]
      BY <1>1, <2>2 DEF Call
    <3> QED BY <1>1, <3>1 DEF EvidenceIsOfIssues
  <2> QED BY <2>1, <2>2
<1>3. lines[f] # <<>> /\ lines[f][1].id # None =>
        lines[f][1].id \in made /\ \E n \in DOMAIN lines[f] : lines[f][n].id = lines[f][1].id
  <2> SUFFICES ASSUME lines[f] # <<>>, lines[f][1].id # None
               PROVE  lines[f][1].id \in made /\ 1 \in DOMAIN lines[f]
    OBVIOUS
  <2>1. 1 \in DOMAIN lines[f]
    BY <1>1
  <2> QED BY <1>1, <2>1 DEF EvidenceIsOfIssues
<1>4. Outcome(f).id # None =>
        Outcome(f).id = Call(f).id \/ (lines[f] # <<>> /\ Outcome(f).id = lines[f][1].id)
  <2>1. \/ Together(Call(f), lines[f][1]).id \in {None, Call(f).id, lines[f][1].id}
        \/ lines[f] = <<>>
    <3> SUFFICES ASSUME lines[f] # <<>>
                 PROVE  Together(Call(f), lines[f][1]).id \in {None, Call(f).id, lines[f][1].id}
      OBVIOUS
    <3>1. lines[f][1] \in Line
      BY <1>1
    <3> QED BY <3>1 DEF Together, Created, Unclear, NotCreated, Line
  <2>2. Alone(Call(f)).id \in {None, Call(f).id}
    BY DEF Alone, Created, Unclear, NotCreated
  <2>3. Unclear.id = None /\ NotCreated.id = None
    BY DEF Unclear, NotCreated
  <2> QED BY <1>1, <2>1, <2>2, <2>3 DEF Outcome
<1> QED BY <1>1, <1>2, <1>3, <1>4 DEF Owners

\* A finding with an issue names one, unless its evidence is unclear.
LEMMA MakersName ==
  ASSUME PublicationConstants, PublicationTypeOK, EvidenceIsOfIssues, IssuesAreTold, CalledOnce,
         step = "working", ~killed, NEW i \in made, NEW f \in plan, linear[i] = f,
         Outcome(f) # Unclear
  PROVE  Outcome(f).id # None
<1>1. f \in Finding /\ events[f] \in Seq(Event) /\ lines[f] \in Seq(Line) /\ i \in Issue /\ i # None
  BY DEF PublicationTypeOK, PublicationConstants
<1>2. Told(i)
  BY <1>1 DEF IssuesAreTold, PublicationConstants
<1>3. /\ Len(events[f]) \in Nat /\ Len(lines[f]) \in Nat
      /\ Len(lines[f]) = 0 <=> lines[f] = <<>>
      /\ lines[f] # <<>> => lines[f][1] \in Line /\ 1 \in DOMAIN lines[f]
  BY <1>1, FirstOf
<1>4. CASE transport = "app"
  <2>1. PICK n \in DOMAIN events[f] : events[f][n].status \in {"completed", "bad"}
    BY <1>2, <1>4 DEF Told
  <2>2. ~(Len(events[f]) > 1) /\ Call(f).status # "bad"
    BY DEF Outcome
  <2>3. n = 1 /\ Call(f) = events[f][1]
    BY <1>1, <2>1, <2>2 DEF Call
  <2>4. Call(f).status = "completed"
    BY <2>1, <2>2, <2>3
  <2>5. Len(lines[f]) = 0 \/ Len(lines[f]) = 1
    <3>1. Doubtful(f)
      BY <2>4 DEF Doubtful
    <3>2. ~(Len(lines[f]) > 1)
      BY <2>2, <3>1 DEF Outcome
    <3>3. Len(lines[f]) \in Nat
      BY <1>3
    <3> QED BY <3>2, <3>3, AtMostOne
  <2>6. CASE lines[f] = <<>>
    <3>1. Outcome(f) = Alone(Call(f))
      BY <1>3, <2>2, <2>6 DEF Outcome
    <3> QED BY <1>1, <2>4, <3>1 DEF Alone, Named, Created, Unclear, NotCreated
  <2>7. CASE Len(lines[f]) = 1
    <3>1. Outcome(f) = Together(Call(f), lines[f][1])
      BY <1>3, <2>2, <2>7 DEF Outcome
    <3>2. lines[f][1] \in Line /\ 1 \in DOMAIN lines[f]
      BY <1>3, <2>7
    <3>3. lines[f][1].status = "success" => lines[f][1].id # None
      BY <1>1, <3>2 DEF EvidenceIsOfIssues
    <3> QED BY <2>4, <3>1, <3>2, <3>3 DEF Together, Named, Created, Unclear, NotCreated, Line
  <2> QED BY <1>3, <2>5, <2>6, <2>7
<1>5. CASE transport = "api"
  <2>1. events[f] = <<>> /\ lines[f] \in {<<SuccessLine(i)>>, <<FailureLine(TRUE)>>}
    BY <1>1, <1>2, <1>5 DEF Told, CalledOnce
  <2>2. Len(lines[f]) = 1 /\ lines[f][1] \in {SuccessLine(i), FailureLine(TRUE)}
    BY <2>1, OnlyOne
  <2>3. Outcome(f) = Together(Call(f), lines[f][1]) /\ Call(f).status = "none"
    BY <2>1, <2>2 DEF Outcome, Call
  <2>4. CASE lines[f][1] = SuccessLine(i)
    BY <1>1, <2>3, <2>4 DEF Together, Named, Created, SuccessLine
  <2>5. CASE lines[f][1] = FailureLine(TRUE)
    <3>1. Suspicious(lines[f][1]) /\ lines[f][1].status = "failure"
      BY <2>5 DEF Suspicious, FailureLine
    <3> QED BY <2>3, <3>1 DEF Together, Named
  <2> QED BY <2>2, <2>4, <2>5
<1> QED BY <1>2, <1>4, <1>5 DEF Told

\* A finding whose evidence is its own has issues of its own: nobody else claims them.
LEMMA OwnersAreAlone ==
  ASSUME PublicationConstants, PublicationTypeOK, NEW i \in Issue,
         NEW f \in Owners(i), NEW g \in Owners(i), f \notin Colliding
  PROVE  f = g
<1> SUFFICES ASSUME f # g
             PROVE  FALSE
  OBVIOUS
<1>1. IsFiniteSet({f, g}) /\ Cardinality({f, g}) = 2
  <2>1. IsFiniteSet({f}) /\ Cardinality({f}) = 1
    BY FS_Singleton
  <2>2. {f, g} = {f} \cup {g}
    OBVIOUS
  <2>3. g \notin {f}
    OBVIOUS
  <2>4. IsFiniteSet({f} \cup {g}) /\ Cardinality({f} \cup {g}) = Cardinality({f}) + 1
    BY <2>1, <2>3, FS_AddElement
  <2> QED BY <2>1, <2>2, <2>4
<1>2. Cardinality({f, g}) <= Cardinality(Owners(i)) /\ Cardinality(Owners(i)) \in Nat
  <2>1. {f, g} \in SUBSET Owners(i)
    OBVIOUS
  <2>2. IsFiniteSet(Owners(i))
    BY FS_Subset DEF Owners, PublicationTypeOK, PublicationConstants
  <2> QED BY <2>1, <2>2, FS_Subset, FS_CardinalityType
<1>3. Cardinality(Owners(i)) > 1
  BY <1>1, <1>2
<1>4. f \in Colliding
  BY <1>3 DEF Colliding
<1> QED BY <1>4

\* Each issue of an attempt that can be told is the issue of one finding, however the
\* agent has mixed up its lines: as many findings as issues name issues of the attempt.
LEMMA EveryIssueIsNamed ==
  ASSUME PublicationConstants, PublicationInv, step = "working", ~killed, strays = {},
         Colliding = {}, \A f \in plan : Outcome(f) # Unclear
  PROVE  /\ \A i \in made : linear[i] \in plan /\ Outcome(linear[i]).id \in made
         /\ \A i \in made : \E f \in plan : Outcome(f).id = i
<1> USE DEF PublicationInv
<1>1. \A i \in made : linear[i] \in plan
  BY DEF IssuesAreTold
<1>2. \A i \in made : /\ Outcome(linear[i]).id # None
                      /\ Outcome(linear[i]).id \in made
                      /\ linear[i] \in Owners(Outcome(linear[i]).id)
  <2> TAKE i \in made
  <2>1. linear[i] \in plan
    BY <1>1
  <2>2. Outcome(linear[i]).id # None
    BY <2>1, MakersName
  <2> QED BY <2>1, <2>2, NamedIsOwned
<1> DEFINE h == [i \in made |-> Outcome(linear[i]).id]
<1>3. h \in [made -> made]
  BY <1>2
<1>4. ASSUME NEW i \in made, NEW j \in made, h[i] = h[j]
      PROVE  i = j
  <2>1. h[i] \in Issue
    BY <1>2 DEF PublicationTypeOK
  <2>2. linear[i] \in Owners(h[i]) /\ linear[j] \in Owners(h[i])
    BY <1>2, <1>4
  <2>3. linear[i] = linear[j]
    BY <2>1, <2>2, OwnersAreAlone
  <2>4. linear[i] \in plan /\ linear[i] \in Finding
    BY <1>1 DEF PublicationTypeOK
  <2>5. ~(Len(events[linear[i]]) > 1)
    BY <2>4 DEF Outcome
  <2> QED BY <2>3, <2>4, <2>5 DEF IssuesAreTold
<1>5. h \in Injection(made, made)
  BY <1>3, <1>4 DEF Injection, IsInjective
<1>6. h \in Surjection(made, made)
  BY <1>5, FS_Injection DEF IssuesAreKnown
<1>7. ASSUME NEW i \in made
      PROVE  \E f \in plan : Outcome(f).id = i
  <2>1. PICK j \in made : h[j] = i
    BY <1>6 DEF Surjection
  <2> QED BY <1>1, <2>1
<1> QED BY <1>1, <1>2, <1>7

\* What is concluded from the evidence: an issue for each finding that names one, apart from
\* those that are claimed twice.
LEMMA VerdictIsSound ==
  ASSUME PublicationConstants, PublicationInv, step = "working", Reconcile,
         aborted' \in BOOLEAN, killed' \in BOOLEAN, killed => killed'
  PROVE  VerdictHolds' /\ created' \subseteq Finding \X Issue /\ failed' \subseteq Finding
<1> USE DEF PublicationInv
<1>1. /\ created' = {c \in (plan \ Colliding) \X Issue : Outcome(c[1]).id = c[2]}
      /\ failed' = plan \ {c[1] : c \in created'}
      /\ linear' = linear /\ plan' = plan /\ made' = made
      /\ plan \subseteq Finding /\ None \notin Issue
  BY DEF Reconcile, world, PublicationTypeOK, PublicationConstants
<1>2. ASSUME NEW c \in created'
      PROVE  /\ c[1] \in plan /\ c[2] \in Issue /\ c = <<c[1], c[2]>> /\ c[2] \in made
             /\ c[1] \in Owners(c[2]) /\ c[1] \notin Colliding
  <2>1. c[1] \in plan /\ c[2] \in Issue /\ c = <<c[1], c[2]>> /\ c[1] \notin Colliding
    BY <1>1
  <2>2. Outcome(c[1]).id = c[2] /\ c[2] # None
    BY <1>1, <2>1
  <2> QED BY <2>1, <2>2, NamedIsOwned
<1>3. \A c \in created' : c[1] \in plan' /\ c[2] \in made'
  BY <1>1, <1>2
<1>4. ASSUME NEW c \in created', NEW d \in created', c[1] = d[1] \/ c[2] = d[2]
      PROVE  c = d
  <2>1. CASE c[1] = d[1]
    BY <1>1, <1>2, <2>1
  <2>2. CASE c[2] = d[2]
    <3>1. c[1] = d[1]
      BY <1>2, <2>2, OwnersAreAlone
    <3> QED BY <1>2, <2>2, <3>1
  <2> QED BY <1>4, <2>1, <2>2
<1>5. ASSUME ~aborted', ~unclear'
      PROVE  /\ \A i \in made' : \E c \in created' : c[2] = i
             /\ \A f \in failed', i \in made' : linear'[i] # f
  <2>1. /\ ~killed /\ strays = {} /\ Colliding = {}
        /\ \A f \in plan : Outcome(f) # Unclear
    BY <1>5 DEF Reconcile
  <2>2. /\ \A i \in made : linear[i] \in plan /\ Outcome(linear[i]).id \in made
        /\ \A i \in made : \E f \in plan : Outcome(f).id = i
    BY <2>1, EveryIssueIsNamed
  <2>3. made \subseteq Issue
    BY DEF PublicationTypeOK
  <2>4. ASSUME NEW f \in plan, NEW i \in made, Outcome(f).id = i
        PROVE  <<f, i>> \in created'
    BY <1>1, <2>1, <2>3, <2>4
  <2>5. ASSUME NEW i \in made
        PROVE  \E c \in created' : c[2] = i
    <3>1. PICK f \in plan : Outcome(f).id = i
      BY <2>2
    <3>2. <<f, i>> \in created'
      BY <2>4, <3>1
    <3> QED BY <3>2
  <2>6. ASSUME NEW f \in failed', NEW i \in made
        PROVE  linear[i] # f
    <3> SUFFICES ASSUME linear[i] = f
                 PROVE  FALSE
      OBVIOUS
    <3>1. f \in plan /\ Outcome(f).id \in made
      BY <2>2
    <3>2. <<f, Outcome(f).id>> \in created'
      BY <2>4, <3>1
    <3>3. <<f, Outcome(f).id>>[1] = f
      OBVIOUS
    <3> QED BY <1>1, <3>2, <3>3
  <2> QED BY <1>1, <2>5, <2>6
<1>6. created' \subseteq Finding \X Issue /\ failed' \subseteq Finding
  BY <1>1
<1> QED BY <1>3, <1>4, <1>5, <1>6 DEF VerdictHolds

\* Reading the evidence keeps the invariant: the verdict is all that follows from it.
LEMMA ReconcileKeeps ==
  ASSUME PublicationConstants, PublicationInv, step = "working", Reconcile,
         aborted' \in BOOLEAN, killed' \in BOOLEAN, killed => killed',
         pending' \subseteq plan, batch' \subseteq plan
  PROVE  PublicationInv'
<1> USE DEF PublicationInv
<1>1. VerdictHolds' /\ created' \subseteq Finding \X Issue /\ failed' \subseteq Finding
  BY VerdictIsSound
<1>2. /\ step' = "record" /\ linear' = linear /\ records' = records /\ kept' = kept
      /\ attempts' = attempts /\ transport' = transport /\ plan' = plan /\ made' = made
      /\ answer' = answer
      /\ events' = [f \in Finding |-> <<>>] /\ lines' = [f \in Finding |-> <<>>] /\ strays' = {}
  BY DEF Reconcile, world
<1>3. unclear' \in BOOLEAN
  BY DEF Reconcile
<1>4. PublicationTypeOK'
  BY <1>1, <1>2, <1>3 DEF PublicationTypeOK
<1>5. IssuesAreKnown'
  BY <1>2 DEF IssuesAreKnown, HasRecord
<1>6. IssuesAreTold' /\ EvidenceIsOfIssues' /\ CalledOnce' /\ ConcludedIsRecorded'
  BY <1>2 DEF IssuesAreTold, EvidenceIsOfIssues, CalledOnce, ConcludedIsRecorded
<1>7. PlanIsNew'
  BY <1>2 DEF PlanIsNew
<1>8. PublicationIsSound'
  BY <1>2 DEF PublicationIsSound, EvidenceIsKept, AnswersAreTrue, RecordsAreSingle
<1> QED BY <1>1, <1>4, <1>5, <1>6, <1>7, <1>8

\* Nothing is made at first.
LEMMA PublicationInitHolds ==
  ASSUME PublicationConstants, PublicationInit
  PROVE  PublicationInv
<1> USE DEF PublicationInit
<1>0. events \in [Finding -> Seq(Event)] /\ lines \in [Finding -> Seq(Line)]
  BY EmptyIsSeq
<1>1. PublicationTypeOK
  <2>1. {aborted, killed, unclear} \subseteq BOOLEAN
    OBVIOUS
  <2>2. linear \in [Issue -> Finding \cup {Stray, None}]
    OBVIOUS
  <2>3. attempts \in 0 .. MaxAttempts
    BY DEF PublicationConstants
  <2> QED BY <1>0, <2>1, <2>2, <2>3 DEF PublicationTypeOK
<1>2. IssuesAreKnown
  BY FS_EmptySet DEF IssuesAreKnown
<1>3. IssuesAreTold /\ EvidenceIsOfIssues /\ CalledOnce /\ VerdictHolds /\ PlanIsNew
  BY DEF IssuesAreTold, EvidenceIsOfIssues, CalledOnce, VerdictHolds, PlanIsNew
<1>4. ConcludedIsRecorded /\ PublicationIsSound
  BY DEF ConcludedIsRecorded, PublicationIsSound, EvidenceIsKept, AnswersAreTrue, RecordsAreSingle
<1> QED BY <1>1, <1>2, <1>3, <1>4 DEF PublicationInv

\* An attempt begins when no issue of earlier ones is in doubt.
LEMMA BeginKeeps ==
  ASSUME PublicationConstants, PublicationInv, Begin
  PROVE  PublicationInv'
<1> USE DEF PublicationInv
<1>1. PICK t \in Transport, skip \in {TRUE, AlwaysSkip} :
        /\ transport' = t /\ attempts' = attempts + 1
        /\ plan' = (IF skip THEN Finding \ Recorded ELSE Finding)
  BY DEF Begin
<1>2. /\ step = "idle" /\ attempts < MaxAttempts /\ pending' = plan'
      /\ step' = (IF plan' = {} THEN "idle" ELSE "working")
      /\ answer' = (IF plan' = {} THEN "returned" ELSE "none")
      /\ batch' = {} /\ made' = {} /\ strays' = {} /\ aborted' = FALSE /\ killed' = FALSE
      /\ events' = [f \in Finding |-> <<>>] /\ lines' = [f \in Finding |-> <<>>]
      /\ created' = {} /\ failed' = {} /\ unclear' = FALSE
      /\ linear' = linear /\ records' = records /\ kept' = kept
  BY DEF Begin, world
<1>3. plan' \subseteq Finding /\ (AlwaysSkip => \A r \in records : r[1] \notin plan')
  BY <1>1 DEF Recorded, PublicationConstants
<1>4. PublicationTypeOK'
  <2>1. events' \in [Finding -> Seq(Event)] /\ lines' \in [Finding -> Seq(Line)]
    BY <1>2, EmptyIsSeq
  <2>2. attempts' \in 0 .. MaxAttempts
    BY <1>1, <1>2 DEF PublicationTypeOK, PublicationConstants
  <2>3. {aborted', killed', unclear'} \subseteq BOOLEAN
    BY <1>2
  <2> QED BY <1>1, <1>2, <1>3, <2>1, <2>2, <2>3 DEF PublicationTypeOK
<1>5. \A i \in Issue : linear[i] # None => i \in kept \/ \E r \in records : r[2] = i
  BY <1>2 DEF PublicationIsSound, EvidenceIsKept
<1>6. IssuesAreKnown'
  BY <1>2, <1>5, FS_EmptySet DEF IssuesAreKnown, HasRecord
<1>7. IssuesAreTold' /\ EvidenceIsOfIssues' /\ CalledOnce' /\ VerdictHolds'
  BY <1>2, <1>3 DEF IssuesAreTold, EvidenceIsOfIssues, CalledOnce, VerdictHolds
<1>8. PlanIsNew' /\ ConcludedIsRecorded'
  BY <1>2, <1>3 DEF PlanIsNew, ConcludedIsRecorded
<1>9. PublicationIsSound'
  BY <1>2, <1>5 DEF PublicationIsSound, EvidenceIsKept, AnswersAreTrue, RecordsAreSingle
<1> QED BY <1>4, <1>6, <1>7, <1>8, <1>9

\* Steps that take up findings, or notice an abort: nothing is made or written.
LEMMA TakingUpKeeps ==
  ASSUME PublicationConstants, PublicationInv, NextBatch \/ NextFinding \/ AbortPublication
  PROVE  PublicationInv'
<1> USE DEF PublicationInv
<1>1. /\ UNCHANGED <<linear, records, kept, attempts, step, transport, plan, made, events, lines,
                     strays, killed, created, failed, unclear, answer>>
      /\ step # "idle" /\ (aborted' = aborted \/ aborted' = TRUE)
      /\ aborted => aborted'
  BY DEF NextBatch, NextFinding, AbortPublication, world, evidence, verdict
<1>2. /\ pending' \cup batch' \subseteq pending \cup batch
      /\ pending' \cap batch' \subseteq pending \cap batch
  BY DEF NextBatch, NextFinding, AbortPublication
<1>3. PublicationTypeOK'
  BY <1>1, <1>2 DEF PublicationTypeOK
<1>4. IssuesAreKnown' /\ EvidenceIsOfIssues'
  BY <1>1 DEF IssuesAreKnown, HasRecord, EvidenceIsOfIssues
<1>5. IssuesAreTold'
  BY <1>1 DEF IssuesAreTold, Told
<1>6. CalledOnce'
  BY <1>1, <1>2 DEF CalledOnce
<1>7. VerdictHolds'
  BY <1>1 DEF VerdictHolds
<1>8. PlanIsNew' /\ ConcludedIsRecorded'
  BY <1>1 DEF PlanIsNew, ConcludedIsRecorded
<1>9. PublicationIsSound'
  BY <1>1 DEF PublicationIsSound, EvidenceIsKept, AnswersAreTrue, RecordsAreSingle
<1> QED BY <1>3, <1>4, <1>5, <1>6, <1>7, <1>8, <1>9

\* What a step of an attempt at work cannot disturb.
LEMMA WorkKeepsRecords ==
  ASSUME PublicationConstants, PublicationInv, step = "working", step' = "working",
         records' = records, plan' = plan
  PROVE  VerdictHolds' /\ PlanIsNew' /\ ConcludedIsRecorded' /\ PublicationIsSound'
BY DEF PublicationInv, VerdictHolds, PlanIsNew, ConcludedIsRecorded, PublicationIsSound,
       EvidenceIsKept, AnswersAreTrue, RecordsAreSingle

\* A new issue is new, and known from then on.
LEMMA MakeKeepsKnown ==
  ASSUME PublicationConstants, PublicationTypeOK, IssuesAreKnown,
         NEW i \in NewIssues, NEW f \in Finding \cup {Stray}, Make(i, f),
         records' = records, kept' = kept
  PROVE  /\ IssuesAreKnown' /\ i \in Issue /\ i \notin made
         /\ linear' \in [Issue -> Finding \cup {Stray, None}] /\ made' = made \cup {i}
         /\ made' \subseteq Issue
         /\ linear'[i] = f /\ \A j \in made : linear'[j] = linear[j]
<1>1. /\ i \in Issue /\ linear[i] = None /\ linear' = [linear EXCEPT ![i] = f]
      /\ made' = made \cup {i} /\ f # None
  BY DEF NewIssues, Make, PublicationConstants
<1>2. i \notin made /\ made \subseteq Issue
  BY <1>1 DEF IssuesAreKnown, PublicationTypeOK
<1>3. /\ linear' \in [Issue -> Finding \cup {Stray, None}] /\ made' \subseteq Issue
      /\ linear'[i] = f /\ \A j \in Issue : j # i => linear'[j] = linear[j]
  BY <1>1, <1>2 DEF PublicationTypeOK
<1>4. IssuesAreKnown'
  <2>1. IsFiniteSet(made')
    BY <1>1, FS_AddElement DEF IssuesAreKnown
  <2>2. \A j \in made' : linear'[j] # None
    BY <1>1, <1>2, <1>3 DEF IssuesAreKnown
  <2>3. \A j \in Issue : linear'[j] # None => j \in made' \/ j \in kept' \/ HasRecord(j)'
    BY <1>1, <1>3 DEF IssuesAreKnown, HasRecord
  <2> QED BY <2>1, <2>2, <2>3 DEF IssuesAreKnown
<1> QED BY <1>1, <1>2, <1>3, <1>4

\* What an entry does to the log of its finding, and not to the others.
LEMMA AppendOne ==
  ASSUME NEW S, NEW log \in [Finding -> Seq(S)], NEW f \in Finding, NEW x \in S
  PROVE  /\ Append1(log, f, x) \in [Finding -> Seq(S)]
         /\ \A g \in Finding : g # f => Append1(log, f, x)[g] = log[g]
         /\ Len(log[f]) \in Nat /\ Len(Append1(log, f, x)[f]) = Len(log[f]) + 1
         /\ DOMAIN log[f] = 1 .. Len(log[f])
         /\ DOMAIN Append1(log, f, x)[f] = 1 .. Len(log[f]) + 1
         /\ \A n \in 1 .. Len(log[f]) : Append1(log, f, x)[f][n] = log[f][n]
         /\ Append1(log, f, x)[f][Len(log[f]) + 1] = x
<1>1. /\ Append1(log, f, x) = [log EXCEPT ![f] = Append(log[f], x)]
      /\ log[f] \in Seq(S)
  BY DEF Append1
<1>2. /\ Append(log[f], x) \in Seq(S) /\ Len(Append(log[f], x)) = Len(log[f]) + 1
      /\ \A n \in 1 .. Len(log[f]) : Append(log[f], x)[n] = log[f][n]
      /\ Append(log[f], x)[Len(log[f]) + 1] = x
  BY <1>1, AppendProperties
<1>3. /\ Len(log[f]) \in Nat /\ DOMAIN log[f] = 1 .. Len(log[f])
      /\ DOMAIN Append(log[f], x) = 1 .. Len(log[f]) + 1
  BY <1>1, <1>2, LenProperties
<1>4. /\ Append1(log, f, x)[f] = Append(log[f], x)
      /\ \A g \in Finding : g # f => Append1(log, f, x)[g] = log[g]
      /\ Append1(log, f, x) \in [Finding -> Seq(S)]
  BY <1>1, <1>2
<1> QED BY <1>2, <1>3, <1>4

\* The first entry of a finding.
LEMMA AppendFirst ==
  ASSUME NEW S, NEW log \in [Finding -> Seq(S)], NEW f \in Finding, NEW x \in S, log[f] = <<>>
  PROVE  /\ Append1(log, f, x) \in [Finding -> Seq(S)]
         /\ Append1(log, f, x)[f] = <<x>>
         /\ \A g \in Finding : g # f => Append1(log, f, x)[g] = log[g]
<1>1. <<x>> \in Seq(S)
  OBVIOUS
<1>2. Append1(log, f, x) = [log EXCEPT ![f] = <<x>>]
  BY DEF Append1
<1> QED BY <1>1, <1>2

\* A finding of whose issue the lines tell has lines.
LEMMA ToldHasLines ==
  ASSUME NEW i \in made, transport = "api", Told(i)
  PROVE  lines[linear[i]] # <<>>
<1>1. CASE lines[linear[i]] = <<SuccessLine(i)>>
  BY <1>1, OneIsNotEmpty
<1>2. CASE lines[linear[i]] = <<FailureLine(TRUE)>>
  BY <1>2, OneIsNotEmpty
<1> QED BY <1>1, <1>2 DEF Told

\* The lines that the SDK writes itself.
LEMMA LinesAreLines ==
  ASSUME NEW i \in Issue, NEW p \in BOOLEAN
  PROVE  SuccessLine(i) \in Line /\ FailureLine(p) \in Line
  BY DEF SuccessLine, FailureLine, Line

\* A call over the API: the line that follows it is the first of its finding, and tells of
\* the issue that may have been made.
LEMMA CreateByApiKeeps ==
  ASSUME PublicationConstants, PublicationInv, NEW f \in Finding, CreateByApi(f)
  PROVE  PublicationInv'
<1> USE DEF PublicationInv
<1>1. /\ step = "working" /\ transport = "api" /\ f \in batch /\ batch' = batch \ {f}
      /\ UNCHANGED <<records, kept, attempts, step, transport, plan, pending, events, strays,
                     aborted, killed, created, failed, unclear, answer>>
  BY DEF CreateByApi, verdict
<1>2. /\ ~killed /\ strays = {} /\ \A g \in Finding : events[g] = <<>>
      /\ pending \cap batch = {} /\ \A g \in pending \cup batch : lines[g] = <<>>
  BY <1>1 DEF CalledOnce
<1>3. /\ f \in plan /\ lines \in [Finding -> Seq(Line)] /\ lines[f] = <<>>
      /\ {aborted, killed, unclear} \subseteq BOOLEAN
  BY <1>1, <1>2 DEF PublicationTypeOK
<1>4. VerdictHolds' /\ PlanIsNew' /\ ConcludedIsRecorded' /\ PublicationIsSound'
  BY <1>1, WorkKeepsRecords
<1>5. ASSUME NEW line \in Line, lines' = Append1(lines, f, line)
      PROVE  /\ lines' \in [Finding -> Seq(Line)] /\ lines'[f] = <<line>>
             /\ \A g \in Finding : g # f => lines'[g] = lines[g]
             /\ DOMAIN lines'[f] = {1} /\ lines'[f][1] = line
             /\ CalledOnce'
  <2>1. /\ lines' \in [Finding -> Seq(Line)] /\ lines'[f] = <<line>>
        /\ \A g \in Finding : g # f => lines'[g] = lines[g]
    BY <1>3, <1>5, AppendFirst
  <2>2. DOMAIN <<line>> = {1} /\ <<line>>[1] = line
    OBVIOUS
  <2>3. pending \subseteq Finding /\ batch \subseteq Finding
    BY DEF PublicationTypeOK
  <2>4. CalledOnce'
    BY <1>1, <1>2, <2>1, <2>3 DEF CalledOnce
  <2> QED BY <2>1, <2>2, <2>4
<1>6. CASE \E i \in NewIssues : \E line \in {SuccessLine(i), FailureLine(TRUE)} :
             Make(i, f) /\ lines' = Append1(lines, f, line)
  <2>0. PICK i \in NewIssues : \E line \in {SuccessLine(i), FailureLine(TRUE)} :
             Make(i, f) /\ lines' = Append1(lines, f, line)
    BY <1>6
  <2>1. PICK line \in {SuccessLine(i), FailureLine(TRUE)} :
             Make(i, f) /\ lines' = Append1(lines, f, line)
    BY <2>0
  <2>2. /\ IssuesAreKnown' /\ i \in Issue /\ i \notin made
        /\ linear' \in [Issue -> Finding \cup {Stray, None}] /\ made' = made \cup {i}
        /\ made' \subseteq Issue
        /\ linear'[i] = f /\ \A j \in made : linear'[j] = linear[j]
    BY <1>1, <2>1, MakeKeepsKnown
  <2>3. line \in Line
    BY <2>1, <2>2, LinesAreLines
  <2>4. /\ lines' \in [Finding -> Seq(Line)] /\ lines'[f] = <<line>>
        /\ \A g \in Finding : g # f => lines'[g] = lines[g]
        /\ DOMAIN lines'[f] = {1} /\ lines'[f][1] = line
        /\ CalledOnce'
    BY <1>5, <2>1, <2>3
  <2>5. PublicationTypeOK'
    BY <1>1, <1>3, <2>2, <2>4 DEF PublicationTypeOK
  <2>6. \A j \in made : linear[j] \in plan /\ linear[j] \in Finding /\ Told(j) /\ linear[j] # f
    <3> TAKE j \in made
    <3>1. linear[j] \in plan /\ linear[j] \in Finding /\ Told(j)
      BY <1>1, <1>2 DEF IssuesAreTold, PublicationTypeOK
    <3>2. lines[linear[j]] # <<>>
      BY <1>1, <3>1, ToldHasLines
    <3> QED BY <1>3, <3>1, <3>2
  <2>7. \A j \in made : Told(j)'
    <3> TAKE j \in made
    <3>1. lines'[linear'[j]] = lines[linear[j]]
      BY <2>2, <2>4, <2>6
    <3> QED BY <1>1, <2>6, <3>1 DEF Told
  <2>8. Told(i)'
    BY <1>1, <2>1, <2>2, <2>4 DEF Told
  <2>9. IssuesAreTold'
    BY <1>1, <1>3, <2>2, <2>6, <2>7, <2>8 DEF IssuesAreTold
  <2>10. EvidenceIsOfIssues'
    <3>1. line.id \in made' \cup {None} /\ (line.status = "success" => line.id # None)
      BY <2>1, <2>2 DEF SuccessLine, FailureLine, PublicationConstants
    <3> QED BY <1>1, <2>2, <2>4, <3>1 DEF EvidenceIsOfIssues
  <2> QED BY <1>4, <2>2, <2>4, <2>5, <2>9, <2>10
<1>7. CASE /\ \E p \in {TRUE, aborted} : lines' = Append1(lines, f, FailureLine(p))
           /\ UNCHANGED <<linear, made>>
  <2>1. PICK p \in {TRUE, aborted} : lines' = Append1(lines, f, FailureLine(p))
    BY <1>7
  <2>2. FailureLine(p) \in Line
    BY <1>3 DEF FailureLine, Line
  <2>3. /\ lines' \in [Finding -> Seq(Line)] /\ lines'[f] = <<FailureLine(p)>>
        /\ \A g \in Finding : g # f => lines'[g] = lines[g]
        /\ DOMAIN lines'[f] = {1} /\ lines'[f][1] = FailureLine(p)
        /\ CalledOnce'
    BY <1>5, <2>1, <2>2
  <2>4. PublicationTypeOK' /\ IssuesAreKnown'
    BY <1>1, <1>7, <2>3 DEF PublicationTypeOK, IssuesAreKnown, HasRecord
  <2>5. IssuesAreTold'
    <3>1. \A j \in made : linear[j] \in plan /\ linear[j] \in Finding /\ Told(j)
      BY <1>1, <1>2 DEF IssuesAreTold, PublicationTypeOK
    <3>2. \A j \in made : linear[j] # f
      BY <1>1, <1>3, <3>1, ToldHasLines
    <3>3. \A j \in made : Told(j)'
      BY <1>1, <1>7, <2>3, <3>1, <3>2 DEF Told
    <3> QED BY <1>1, <1>7, <3>1, <3>3 DEF IssuesAreTold
  <2>6. EvidenceIsOfIssues'
    <3>1. FailureLine(p).id = None /\ FailureLine(p).status = "failure"
      BY DEF FailureLine
    <3> QED BY <1>1, <1>7, <2>3, <3>1 DEF EvidenceIsOfIssues
  <2> QED BY <1>4, <2>3, <2>4, <2>5, <2>6
<1> QED BY <1>6, <1>7 DEF CreateByApi

\* A call of the agent is among its events, whether it made an issue or not.
LEMMA CallByAgentKeeps ==
  ASSUME PublicationConstants, PublicationInv, NEW f \in Finding, CallByAgent(f)
  PROVE  PublicationInv'
<1> USE DEF PublicationInv
<1>1. /\ step = "working" /\ transport = "app" /\ ~killed /\ f \in batch
      /\ UNCHANGED <<records, kept, attempts, step, transport, plan, pending, batch, lines, strays,
                     aborted, killed, created, failed, unclear, answer>>
  BY DEF CallByAgent, verdict
<1>2. f \in plan /\ events \in [Finding -> Seq(Event)] /\ plan \subseteq Finding
  BY <1>1 DEF PublicationTypeOK
<1>3. VerdictHolds' /\ PlanIsNew' /\ ConcludedIsRecorded' /\ PublicationIsSound' /\ CalledOnce'
  BY <1>1, WorkKeepsRecords DEF CalledOnce
<1>4. ASSUME NEW call \in Event, events' = Append1(events, f, call)
      PROVE  /\ events' \in [Finding -> Seq(Event)]
             /\ \A g \in Finding : g # f => events'[g] = events[g]
             /\ Len(events[f]) \in Nat /\ Len(events'[f]) = Len(events[f]) + 1
             /\ DOMAIN events[f] = 1 .. Len(events[f])
             /\ DOMAIN events'[f] = 1 .. Len(events[f]) + 1
             /\ \A n \in 1 .. Len(events[f]) : events'[f][n] = events[f][n]
             /\ events'[f][Len(events[f]) + 1] = call
  <2> DEFINE more == Append1(events, f, call)
  <2>1. /\ more \in [Finding -> Seq(Event)]
        /\ \A g \in Finding : g # f => more[g] = events[g]
        /\ Len(events[f]) \in Nat /\ Len(more[f]) = Len(events[f]) + 1
        /\ DOMAIN events[f] = 1 .. Len(events[f])
        /\ DOMAIN more[f] = 1 .. Len(events[f]) + 1
        /\ \A n \in 1 .. Len(events[f]) : more[f][n] = events[f][n]
        /\ more[f][Len(events[f]) + 1] = call
    BY <1>2, AppendOne
  <2>2. events' = more
    BY <1>4
  <2> HIDE DEF more
  <2> QED BY <2>1, <2>2
<1>5. ASSUME NEW call \in Event, events' = Append1(events, f, call), call.id \in made' \cup {None},
             made \subseteq made', \A j \in made : linear'[j] = linear[j]
      PROVE  /\ EvidenceIsOfIssues'
             /\ \A j \in made : \/ linear'[j] = Stray /\ strays' # {}
                                \/ linear'[j] \in plan' /\ Told(j)'
             /\ \A j \in made : linear[j] = f => Len(events'[f]) > 1
             /\ \A j, k \in made : j # k /\ linear[j] = linear[k] /\ linear[j] \in Finding =>
                    Len(events'[linear[j]]) > 1
  <2>1. /\ events' \in [Finding -> Seq(Event)]
        /\ \A g \in Finding : g # f => events'[g] = events[g]
        /\ Len(events[f]) \in Nat /\ Len(events'[f]) = Len(events[f]) + 1
        /\ DOMAIN events[f] = 1 .. Len(events[f])
        /\ DOMAIN events'[f] = 1 .. Len(events[f]) + 1
        /\ \A n \in 1 .. Len(events[f]) : events'[f][n] = events[f][n]
        /\ events'[f][Len(events[f]) + 1] = call
    BY <1>4, <1>5
  <2>2. EvidenceIsOfIssues'
    <3>1. ASSUME NEW g \in Finding, NEW n \in DOMAIN events'[g]
          PROVE  events'[g][n].id \in made' \cup {None}
      <4>1. CASE g = f /\ n = Len(events[f]) + 1
        BY <1>5, <2>1, <4>1
      <4>2. CASE g = f /\ n # Len(events[f]) + 1
        <5>1. n \in DOMAIN events[f] /\ events'[g][n] = events[f][n]
          BY <2>1, <3>1, <4>2
        <5> QED BY <1>1, <1>5, <5>1 DEF EvidenceIsOfIssues
      <4>3. CASE g # f
        BY <1>1, <1>5, <2>1, <3>1, <4>3 DEF EvidenceIsOfIssues
      <4> QED BY <4>1, <4>2, <4>3
    <3> QED BY <1>1, <1>5, <3>1 DEF EvidenceIsOfIssues
  <2>3. ASSUME NEW j \in made
        PROVE  \/ linear'[j] = Stray /\ strays' # {}
               \/ linear'[j] \in plan' /\ Told(j)'
    <3>1. CASE linear[j] = Stray /\ strays # {}
      BY <1>1, <1>5, <3>1
    <3>2. CASE linear[j] \in plan /\ Told(j)
      <4>1. PICK n \in DOMAIN events[linear[j]] :
              /\ events[linear[j]][n].status \in {"completed", "bad"}
              /\ events[linear[j]][n].id \in {j, None}
        BY <1>1, <3>2 DEF Told
      <4>2. n \in DOMAIN events'[linear[j]] /\ events'[linear[j]][n] = events[linear[j]][n]
        <5>1. CASE linear[j] = f
          BY <2>1, <5>1
        <5>2. CASE linear[j] # f
          BY <1>2, <2>1, <3>2, <5>2
        <5> QED BY <5>1, <5>2
      <4> QED BY <1>1, <1>5, <3>2, <4>1, <4>2 DEF Told
    <3> QED BY <1>1, <3>1, <3>2 DEF IssuesAreTold
  <2>4. ASSUME NEW j \in made, linear[j] = f
        PROVE  Len(events'[f]) > 1
    <3>1. DOMAIN events[f] # {}
      BY <1>1, <1>2, <2>4 DEF IssuesAreTold, Told, PublicationConstants
    <3>2. Len(events[f]) >= 1
      BY <2>1, <3>1
    <3> QED BY <2>1, <3>2
  <2>5. ASSUME NEW j \in made, NEW k \in made, j # k, linear[j] = linear[k],
               linear[j] \in Finding
        PROVE  Len(events'[linear[j]]) > 1
    <3>1. Len(events[linear[j]]) > 1
      BY <1>1, <2>5 DEF IssuesAreTold
    <3>2. CASE linear[j] = f
      BY <2>4, <3>2
    <3>3. CASE linear[j] # f
      BY <2>1, <2>5, <3>1, <3>3
    <3> QED BY <3>2, <3>3
  <2> QED BY <2>2, <2>3, <2>4, <2>5
<1>6. CASE \E i \in NewIssues : \E status \in {"completed", "bad"}, id \in {i, None} :
             Make(i, f) /\ events' = Append1(events, f, [status |-> status, id |-> id])
  <2>1. PICK i \in NewIssues : \E status \in {"completed", "bad"}, id \in {i, None} :
             Make(i, f) /\ events' = Append1(events, f, [status |-> status, id |-> id])
    BY <1>6
  <2>2. PICK status \in {"completed", "bad"}, id \in {i, None} :
             Make(i, f) /\ events' = Append1(events, f, [status |-> status, id |-> id])
    BY <2>1
  <2> DEFINE call == [status |-> status, id |-> id]
  <2>3. /\ IssuesAreKnown' /\ i \in Issue /\ i \notin made
        /\ linear' \in [Issue -> Finding \cup {Stray, None}] /\ made' = made \cup {i}
        /\ made' \subseteq Issue
        /\ linear'[i] = f /\ \A j \in made : linear'[j] = linear[j]
    BY <1>1, <2>2, MakeKeepsKnown
  <2>4. call \in Event /\ call.status \in {"completed", "bad"} /\ call.id \in {i, None}
    BY <2>3 DEF Event
  <2>5. events' = Append1(events, f, call) /\ call.id \in made' \cup {None}
    BY <2>2, <2>3, <2>4
  <2> HIDE DEF call
  <2>6. /\ events' \in [Finding -> Seq(Event)] /\ Len(events[f]) \in Nat
        /\ DOMAIN events'[f] = 1 .. Len(events[f]) + 1
        /\ events'[f][Len(events[f]) + 1] = call
    BY <1>4, <2>4, <2>5
  <2>7. /\ EvidenceIsOfIssues'
        /\ \A j \in made : \/ linear'[j] = Stray /\ strays' # {}
                           \/ linear'[j] \in plan' /\ Told(j)'
        /\ \A j \in made : linear[j] = f => Len(events'[f]) > 1
        /\ \A j, k \in made : j # k /\ linear[j] = linear[k] /\ linear[j] \in Finding =>
               Len(events'[linear[j]]) > 1
    BY <1>5, <2>3, <2>4, <2>5
  <2>8. PublicationTypeOK'
    BY <1>1, <2>3, <2>6 DEF PublicationTypeOK
  <2>9. linear'[i] \in plan' /\ Told(i)'
    <3>1. Len(events[f]) + 1 \in DOMAIN events'[f]
      BY <2>6
    <3> QED BY <1>1, <1>2, <2>3, <2>4, <2>6, <3>1 DEF Told
  <2>10. ASSUME NEW j \in made', NEW k \in made', j # k, linear'[j] = linear'[k],
                linear'[j] \in Finding
         PROVE  Len(events'[linear'[j]]) > 1
    <3>1. CASE linear'[j] = f
      BY <2>3, <2>7, <2>10, <3>1
    <3>2. CASE linear'[j] # f
      <4>1. j \in made /\ k \in made /\ linear[j] = linear[k] /\ linear[j] \in Finding
        BY <2>3, <2>10, <3>2
      <4> QED BY <2>3, <2>7, <2>10, <4>1
    <3> QED BY <3>1, <3>2
  <2>11. IssuesAreTold'
    BY <2>3, <2>7, <2>9, <2>10 DEF IssuesAreTold
  <2> QED BY <1>3, <2>3, <2>7, <2>8, <2>11
<1>7. CASE /\ events' = Append1(events, f, [status |-> "failed", id |-> None])
           /\ UNCHANGED <<linear, made>>
  <2> DEFINE call == [status |-> "failed", id |-> None]
  <2>1. call \in Event /\ call.id = None
    BY DEF Event
  <2>2. events' = Append1(events, f, call)
    BY <1>7
  <2> HIDE DEF call
  <2>3. events' \in [Finding -> Seq(Event)]
    BY <1>4, <2>1, <2>2
  <2>4. PublicationTypeOK' /\ IssuesAreKnown'
    BY <1>1, <1>7, <2>3 DEF PublicationTypeOK, IssuesAreKnown, HasRecord
  <2>5. /\ EvidenceIsOfIssues'
        /\ \A j \in made : \/ linear'[j] = Stray /\ strays' # {}
                           \/ linear'[j] \in plan' /\ Told(j)'
        /\ \A j, k \in made : j # k /\ linear[j] = linear[k] /\ linear[j] \in Finding =>
               Len(events'[linear[j]]) > 1
    BY <1>5, <1>7, <2>1, <2>2
  <2>6. IssuesAreTold'
    BY <1>7, <2>5 DEF IssuesAreTold
  <2> QED BY <1>3, <2>4, <2>5, <2>6
<1> QED BY <1>6, <1>7 DEF CallByAgent

\* A stray issue leaves evidence of its own.
LEMMA CallAstrayKeeps ==
  ASSUME PublicationConstants, PublicationInv, CallAstray
  PROVE  PublicationInv'
<1> USE DEF PublicationInv
<1>1. /\ step = "working" /\ transport = "app" /\ ~killed
      /\ UNCHANGED <<records, kept, attempts, step, transport, plan, pending, batch, events, lines,
                     aborted, killed, created, failed, unclear, answer>>
  BY DEF CallAstray, verdict
<1>2. PICK i \in NewIssues : \E id \in {i, None} : Make(i, Stray) /\ strays' = strays \cup {id}
  BY DEF CallAstray
<1>3. PICK id \in {i, None} : Make(i, Stray) /\ strays' = strays \cup {id}
  BY <1>2
<1>4. /\ IssuesAreKnown' /\ i \in Issue /\ i \notin made
      /\ linear' \in [Issue -> Finding \cup {Stray, None}] /\ made' = made \cup {i}
      /\ made' \subseteq Issue
      /\ linear'[i] = Stray /\ \A j \in made : linear'[j] = linear[j]
  BY <1>1, <1>3, MakeKeepsKnown
<1>5. VerdictHolds' /\ PlanIsNew' /\ ConcludedIsRecorded' /\ PublicationIsSound'
  BY <1>1, WorkKeepsRecords
<1>6. PublicationTypeOK'
  BY <1>1, <1>3, <1>4 DEF PublicationTypeOK
<1>7. CalledOnce' /\ EvidenceIsOfIssues'
  BY <1>1, <1>4 DEF CalledOnce, EvidenceIsOfIssues
<1>8. strays' # {} /\ Stray \notin Finding
  BY <1>3 DEF PublicationConstants
<1>9. \A j \in made : \/ linear'[j] = Stray /\ strays' # {}
                      \/ linear'[j] \in plan' /\ Told(j)'
  BY <1>1, <1>4, <1>8 DEF IssuesAreTold, Told
<1>10. IssuesAreTold'
  BY <1>1, <1>4, <1>8, <1>9 DEF IssuesAreTold
<1> QED BY <1>4, <1>5, <1>6, <1>7, <1>10

\* A line of the agent names what was made, whoever it was made for.
LEMMA WriteLineKeeps ==
  ASSUME PublicationConstants, PublicationInv, NEW f \in Finding, WriteLine(f)
  PROVE  PublicationInv'
<1> USE DEF PublicationInv
<1>1. /\ step = "working" /\ transport = "app" /\ ~killed
      /\ UNCHANGED <<linear, records, kept, attempts, step, transport, plan, pending, batch, made,
                     events, strays, aborted, killed, created, failed, unclear, answer>>
  BY DEF WriteLine, world, verdict
<1>2. PICK line \in Line :
        /\ line.id \in made \cup {None} /\ (line.status = "success" => line.id # None)
        /\ lines' = Append1(lines, f, line)
  BY DEF WriteLine
<1>3. lines \in [Finding -> Seq(Line)]
  BY DEF PublicationTypeOK
<1> DEFINE more == Append1(lines, f, line)
<1>4. /\ more \in [Finding -> Seq(Line)]
      /\ \A g \in Finding : g # f => more[g] = lines[g]
      /\ Len(lines[f]) \in Nat
      /\ DOMAIN lines[f] = 1 .. Len(lines[f])
      /\ DOMAIN more[f] = 1 .. Len(lines[f]) + 1
      /\ \A n \in 1 .. Len(lines[f]) : more[f][n] = lines[f][n]
      /\ more[f][Len(lines[f]) + 1] = line
  BY <1>3, AppendOne
<1>5. lines' = more
  BY <1>2
<1> HIDE DEF more
<1>6. VerdictHolds' /\ PlanIsNew' /\ ConcludedIsRecorded' /\ PublicationIsSound'
  BY <1>1, WorkKeepsRecords
<1>7. PublicationTypeOK' /\ IssuesAreKnown'
  BY <1>1, <1>4, <1>5 DEF PublicationTypeOK, IssuesAreKnown, HasRecord
<1>8. IssuesAreTold' /\ CalledOnce'
  BY <1>1 DEF IssuesAreTold, Told, CalledOnce
<1>9. ASSUME NEW g \in Finding, NEW n \in DOMAIN more[g]
      PROVE  /\ more[g][n].id \in made \cup {None}
             /\ more[g][n].status = "success" => more[g][n].id # None
  <2>1. CASE g = f /\ n = Len(lines[f]) + 1
    BY <1>2, <1>4, <2>1
  <2>2. CASE g = f /\ n # Len(lines[f]) + 1
    <3>1. n \in DOMAIN lines[f] /\ more[g][n] = lines[f][n]
      BY <1>4, <1>9, <2>2
    <3> QED BY <1>1, <3>1 DEF EvidenceIsOfIssues
  <2>3. CASE g # f
    BY <1>1, <1>4, <1>9, <2>3 DEF EvidenceIsOfIssues
  <2> QED BY <2>1, <2>2, <2>3
<1>10. EvidenceIsOfIssues'
  BY <1>1, <1>5, <1>9 DEF EvidenceIsOfIssues
<1> QED BY <1>6, <1>7, <1>8, <1>10

\* An issue of a killed agent may have left no evidence.
LEMMA KilledInCallKeeps ==
  ASSUME PublicationConstants, PublicationInv, NEW f \in Finding, KilledInCall(f)
  PROVE  PublicationInv'
<1> USE DEF PublicationInv
<1>1. /\ step = "working" /\ transport = "app" /\ killed' = TRUE
      /\ UNCHANGED <<records, kept, attempts, step, transport, plan, pending, batch, events, lines,
                     strays, aborted, created, failed, unclear, answer>>
  BY DEF KilledInCall, verdict
<1>2. PICK i \in NewIssues : Make(i, f)
  BY DEF KilledInCall
<1>3. /\ IssuesAreKnown' /\ linear' \in [Issue -> Finding \cup {Stray, None}]
      /\ made' = made \cup {i} /\ made' \subseteq Issue
  BY <1>1, <1>2, MakeKeepsKnown
<1>4. VerdictHolds' /\ PlanIsNew' /\ ConcludedIsRecorded' /\ PublicationIsSound'
  BY <1>1, WorkKeepsRecords
<1>5. PublicationTypeOK'
  BY <1>1, <1>3 DEF PublicationTypeOK
<1>6. IssuesAreTold' /\ CalledOnce' /\ EvidenceIsOfIssues'
  BY <1>1, <1>3 DEF IssuesAreTold, CalledOnce, EvidenceIsOfIssues
<1> QED BY <1>3, <1>4, <1>5, <1>6

\* What is broken off leaves its directory, and nothing else changes.
LEMMA BreakOffKeeps ==
  ASSUME PublicationConstants, PublicationInv, BreakOff
  PROVE  PublicationInv'
<1> USE DEF PublicationInv
<1>1. /\ step' = "idle" /\ answer' = "rejected" /\ kept' = kept \cup made
      /\ UNCHANGED <<linear, records, attempts, transport, plan, pending, batch, made, events,
                     lines, strays, aborted, killed, created, failed, unclear>>
  BY DEF BreakOff, evidence, verdict
<1>2. PublicationTypeOK'
  BY <1>1 DEF PublicationTypeOK
<1>3. IssuesAreKnown'
  BY <1>1 DEF IssuesAreKnown, HasRecord
<1>4. /\ IssuesAreTold' /\ EvidenceIsOfIssues' /\ CalledOnce' /\ VerdictHolds' /\ PlanIsNew'
      /\ ConcludedIsRecorded'
  BY <1>1 DEF IssuesAreTold, EvidenceIsOfIssues, CalledOnce, VerdictHolds, PlanIsNew,
              ConcludedIsRecorded
<1>5. EvidenceIsKept'
  BY <1>1 DEF IssuesAreKnown, HasRecord, EvidenceIsKept
<1>6. AnswersAreTrue' /\ RecordsAreSingle'
  BY <1>1 DEF AnswersAreTrue, RecordsAreSingle, PublicationIsSound
<1> QED BY <1>2, <1>3, <1>4, <1>5, <1>6 DEF PublicationIsSound

\* The records stay single: the plan left out what is recorded, the verdict names an issue
\* once, and none that another finding has.
LEMMA RecordKeeps ==
  ASSUME PublicationConstants, PublicationInv, Record
  PROVE  PublicationInv'
<1> USE DEF PublicationInv
<1>1. /\ step = "record" /\ step' = "conclude" /\ records' = records \cup created
      /\ UNCHANGED <<linear, kept, attempts, transport, plan, pending, batch, made, events, lines,
                     strays, aborted, killed, created, failed, unclear, answer>>
      /\ \A c \in created, r \in records : c[2] = r[2] => c[1] = r[1]
  BY DEF Record, evidence, verdict, Conflicting
<1>2. PublicationTypeOK'
  BY <1>1 DEF PublicationTypeOK
<1>3. IssuesAreKnown'
  BY <1>1 DEF IssuesAreKnown, HasRecord
<1>4. /\ IssuesAreTold' /\ EvidenceIsOfIssues' /\ CalledOnce' /\ VerdictHolds' /\ PlanIsNew'
      /\ ConcludedIsRecorded' /\ EvidenceIsKept' /\ AnswersAreTrue'
  BY <1>1 DEF IssuesAreTold, EvidenceIsOfIssues, CalledOnce, VerdictHolds, PlanIsNew,
              ConcludedIsRecorded, EvidenceIsKept, AnswersAreTrue
<1>5. \A c \in created \cup records : c = <<c[1], c[2]>>
  BY DEF PublicationTypeOK
<1>6. \A r, s \in records' : r[2] = s[2] => r = s
  BY <1>1, <1>5 DEF VerdictHolds, RecordsAreSingle, PublicationIsSound
<1>7. AlwaysSkip => \A r, s \in records' : r[1] = s[1] => r = s
  BY <1>1 DEF VerdictHolds, PlanIsNew, RecordsAreSingle, PublicationIsSound
<1> QED BY <1>2, <1>3, <1>4, <1>6, <1>7 DEF PublicationIsSound, RecordsAreSingle

\* The directory goes only when all issues of the attempt are recorded.
LEMMA ConcludeKeeps ==
  ASSUME PublicationConstants, PublicationInv, Conclude
  PROVE  PublicationInv'
<1> USE DEF PublicationInv
<1>1. /\ step = "conclude" /\ step' = "idle"
      /\ UNCHANGED <<linear, records, attempts, transport, plan, pending, batch, made, events,
                     lines, strays, aborted, killed, created, failed, unclear>>
      /\ IF aborted \/ unclear
           THEN answer' = "rejected" /\ kept' = kept \cup made
           ELSE answer' \in {"returned", "rejected"} /\ kept' = kept
  BY DEF Conclude, evidence, verdict
<1>2. PublicationTypeOK'
  BY <1>1 DEF PublicationTypeOK
<1>3. created \subseteq records
  BY <1>1 DEF ConcludedIsRecorded
<1>4. ASSUME aborted \/ unclear
      PROVE  IssuesAreKnown' /\ EvidenceIsKept' /\ AnswersAreTrue'
  <2>1. answer' = "rejected" /\ kept' = kept \cup made
    BY <1>1, <1>4
  <2>2. IssuesAreKnown' /\ EvidenceIsKept' /\ AnswersAreTrue'
    BY <1>1, <2>1 DEF IssuesAreKnown, HasRecord, EvidenceIsKept, AnswersAreTrue
  <2> QED BY <2>2
<1>5. ASSUME ~aborted, ~unclear
      PROVE  IssuesAreKnown' /\ EvidenceIsKept' /\ AnswersAreTrue'
  <2>1. /\ \A i \in made : \E c \in created : c[2] = i
        /\ \A f \in failed, i \in made : linear[i] # f
    BY <1>1, <1>5 DEF VerdictHolds
  <2>2. kept' = kept
    BY <1>1, <1>5
  <2>3. IssuesAreKnown' /\ EvidenceIsKept'
    BY <1>1, <1>3, <2>1, <2>2 DEF IssuesAreKnown, HasRecord, EvidenceIsKept
  <2>4. \A c \in created : linear[c[2]] # None
    BY <1>1 DEF VerdictHolds, IssuesAreKnown
  <2>5. AnswersAreTrue'
    BY <1>1, <1>3, <2>1, <2>4 DEF AnswersAreTrue
  <2> QED BY <2>3, <2>5
<1>6. IssuesAreKnown' /\ EvidenceIsKept' /\ AnswersAreTrue'
  BY <1>4, <1>5
<1>7. /\ IssuesAreTold' /\ EvidenceIsOfIssues' /\ CalledOnce' /\ VerdictHolds' /\ PlanIsNew'
      /\ ConcludedIsRecorded' /\ RecordsAreSingle'
  BY <1>1 DEF IssuesAreTold, EvidenceIsOfIssues, CalledOnce, VerdictHolds, PlanIsNew,
              ConcludedIsRecorded, RecordsAreSingle, PublicationIsSound
<1> QED BY <1>2, <1>6, <1>7 DEF PublicationIsSound

\* Both ends of the work read the evidence.
LEMMA EvidenceIsRead ==
  ASSUME PublicationConstants, PublicationInv, EndApi \/ EndAgent
  PROVE  PublicationInv'
<1>1. {aborted, killed} \subseteq BOOLEAN /\ pending \subseteq plan /\ batch \subseteq plan
  BY DEF PublicationInv, PublicationTypeOK
<1>2. CASE EndApi
  <2>1. /\ step = "working" /\ Reconcile /\ aborted' = aborted /\ killed' = killed
        /\ pending' = pending /\ batch' = batch
    BY <1>2 DEF EndApi
  <2> QED BY <1>1, <2>1, ReconcileKeeps
<1>3. CASE EndAgent
  <2>1. /\ step = "working" /\ Reconcile /\ aborted' \in BOOLEAN
        /\ killed' \in {killed \/ aborted', TRUE} /\ pending' = {} /\ batch' = {}
    BY <1>3 DEF EndAgent
  <2>2. killed' \in BOOLEAN /\ (killed => killed')
    BY <2>1
  <2> QED BY <2>1, <2>2, ReconcileKeeps
<1> QED BY <1>2, <1>3

-----------------------------------------------------------------------------
(* The theorems about publication.                                           *)

\* Whatever is made, lost, mixed up or broken off: the evidence names what was made, the
\* verdict follows from it, and no issue is lost sight of.
THEOREM PublicationInvariant ==
  ASSUME PublicationConstants
  PROVE  PublicationSpec => []PublicationInv
<1>1. PublicationInit => PublicationInv
  BY PublicationInitHolds
<1>2. PublicationInv /\ [PublicationNext]_publicationVars => PublicationInv'
  <2> SUFFICES ASSUME PublicationInv, [PublicationNext]_publicationVars
               PROVE  PublicationInv'
    OBVIOUS
  <2>1. CASE PublicationNext
    BY <2>1, BeginKeeps, TakingUpKeeps, EvidenceIsRead, CallAstrayKeeps, BreakOffKeeps,
       RecordKeeps, ConcludeKeeps, CreateByApiKeeps, CallByAgentKeeps, WriteLineKeeps,
       KilledInCallKeeps DEF PublicationNext
  <2>2. CASE UNCHANGED publicationVars
    <3>1. UNCHANGED <<linear, records, kept, attempts, step, transport, plan, pending, batch, made,
                      events, lines, strays, aborted, killed, created, failed, unclear, answer>>
      BY <2>2 DEF publicationVars, world, evidence, verdict
    <3>2. PublicationTypeOK' /\ IssuesAreKnown'
      BY <3>1 DEF PublicationInv, PublicationTypeOK, IssuesAreKnown, HasRecord
    <3>3. IssuesAreTold' /\ EvidenceIsOfIssues' /\ CalledOnce'
      BY <3>1 DEF PublicationInv, IssuesAreTold, Told, EvidenceIsOfIssues, CalledOnce
    <3>4. VerdictHolds' /\ PlanIsNew' /\ ConcludedIsRecorded'
      BY <3>1 DEF PublicationInv, VerdictHolds, PlanIsNew, ConcludedIsRecorded
    <3>5. PublicationIsSound'
      BY <3>1 DEF PublicationInv, PublicationIsSound, EvidenceIsKept, AnswersAreTrue,
                  RecordsAreSingle
    <3> QED BY <3>2, <3>3, <3>4, <3>5 DEF PublicationInv
  <2> QED BY <2>1, <2>2
<1> QED BY <1>1, <1>2, PTL DEF PublicationSpec

\* Between attempts every issue is in the history or in a directory that remains, what an
\* attempt returned is true, and records are single: for any findings, any issues, any number
\* of attempts and whatever the agent does.
THEOREM PublicationsAreSound ==
  ASSUME PublicationConstants
  PROVE  PublicationSpec => []PublicationIsSound
<1>1. PublicationInv => PublicationIsSound
  BY DEF PublicationInv
<1> QED BY <1>1, PublicationInvariant, PTL

================================================================================
