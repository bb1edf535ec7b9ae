----------------------------- MODULE Publication -----------------------------
(***************************************************************************)
(* Publication of one completed scan to one Linear destination                *)
(* (sdk/typescript/src/publish.ts, publication-events.ts,                     *)
(* publication-store.ts, scripts/workbench_publication.py).                  *)
(*                                                                           *)
(* An attempt plans the findings, has an issue made of each, over the Linear   *)
(* API or by an agent with the connected app, reconciles what the calls and     *)
(* the handoff file say, and records the issues in the scan history.  The      *)
(* handoff directory is all that is left of what could not be recorded.        *)
(* Attempts follow each other; any of them may be interrupted or die.          *)
(*                                                                           *)
(* A call that Linear refuses makes no issue; one whose answer is lost may     *)
(* have.  The agent's calls are all among its events, unless it is killed, and *)
(* the identifiers it writes down are of issues that it made.                  *)
(***************************************************************************)
EXTENDS Naturals, Sequences, FiniteSets

CONSTANTS
    Finding,            \* the findings of the scan
    Stray,              \* what an issue is about that no finding asked for
    Issue,              \* bound: the issues of Linear, 1 .. n
    None,
    Transport,          \* of {"api", "app"}
    AlwaysSkip,         \* every attempt is made with --skip-existing
    BatchSize,
    MaxExtra,           \* bound: what an agent does beyond one call and one line a finding
    MaxAttempts         \* bound

VARIABLES
    linear,             \* linear[i]: what issue i was made for, or None
    records,            \* finding_publications: <<finding, issue>>
    kept,               \* the issues made by attempts whose handoff directory remains
    attempts, step, transport,
    plan, pending, batch,
    made,               \* the issues of this attempt
    events, lines,      \* the calls and handoff lines of each finding
    strays,             \* evidence of issues that belong to no finding
    aborted, killed,
    created, failed, unclear, \* what the evidence says
    answer

world == <<linear, records, kept>>
evidence == <<made, events, lines, strays>>
verdict == <<created, failed, unclear>>
publicationVars == <<world, attempts, step, transport, plan, pending, batch, evidence,
                     aborted, killed, verdict, answer>>

Event == [status : {"completed", "failed", "bad"}, id : Issue \cup {None}]
Line == [status : {"success", "failure", "invalid"}, id : Issue \cup {None}, possible : BOOLEAN]

PublicationTypeOK ==
    /\ linear \in [Issue -> Finding \cup {Stray, None}]
    /\ records \subseteq Finding \X Issue /\ kept \subseteq Issue /\ made \subseteq Issue
    /\ attempts \in 0 .. MaxAttempts /\ transport \in Transport
    /\ step \in {"idle", "working", "record", "conclude"}
    /\ plan \subseteq Finding /\ pending \subseteq plan /\ batch \subseteq plan
    /\ events \in [Finding -> Seq(Event)] /\ lines \in [Finding -> Seq(Line)]
    /\ strays \subseteq Issue \cup {None} /\ {aborted, killed, unclear} \subseteq BOOLEAN
    /\ created \subseteq Finding \X Issue /\ failed \subseteq Finding
    /\ answer \in {"none", "returned", "rejected"}

PublicationInit ==
    /\ linear = [i \in Issue |-> None] /\ records = {} /\ kept = {}
    /\ attempts = 0 /\ step = "idle" /\ transport \in Transport
    /\ plan = {} /\ pending = {} /\ batch = {} /\ made = {}
    /\ events = [f \in Finding |-> <<>>] /\ lines = [f \in Finding |-> <<>>] /\ strays = {}
    /\ aborted = FALSE /\ killed = FALSE
    /\ created = {} /\ failed = {} /\ unclear = FALSE /\ answer = "none"

Recorded == {r[1] : r \in records}

\* Linear names the issues in the order they are made.
NewIssues == {i \in Issue : linear[i] = None /\ \A j \in Issue : linear[j] = None => i <= j}
Make(i, f) == linear' = [linear EXCEPT ![i] = f] /\ made' = made \cup {i}

\* publishScanInternal up to the handoff directory: the findings that are recorded
\* are left out on request, and there may be nothing to do.
Begin ==
    /\ step = "idle" /\ attempts < MaxAttempts
    /\ \E t \in Transport, skip \in {TRUE, AlwaysSkip} :
         /\ transport' = t /\ attempts' = attempts + 1
         /\ plan' = (IF skip THEN Finding \ Recorded ELSE Finding)
    /\ pending' = plan' /\ step' = (IF plan' = {} THEN "idle" ELSE "working")
    /\ answer' = (IF plan' = {} THEN "returned" ELSE "none")
    /\ batch' = {} /\ made' = {} /\ strays' = {} /\ aborted' = FALSE /\ killed' = FALSE
    /\ events' = [f \in Finding |-> <<>>] /\ lines' = [f \in Finding |-> <<>>]
    /\ created' = {} /\ failed' = {} /\ unclear' = FALSE
    /\ UNCHANGED world

Append1(log, f, x) == [log EXCEPT ![f] = Append(@, x)]
SuccessLine(i) == [status |-> "success", id |-> i, possible |-> FALSE]
FailureLine(p) == [status |-> "failure", id |-> None, possible |-> p]

\* publishLinearApiIssues: the next findings are called for together, none after an abort.
NextBatch ==
    /\ step = "working" /\ transport = "api" /\ batch = {} /\ pending # {} /\ ~aborted
    /\ \E b \in SUBSET pending :
         /\ \/ b = pending /\ Cardinality(b) < BatchSize
            \/ Cardinality(b) = BatchSize
         /\ batch' = b /\ pending' = pending \ b
    /\ UNCHANGED <<world, attempts, step, transport, plan, evidence, aborted, killed, verdict,
                   answer>>

\* One call and its line in the handoff.  The call fails for certain, or without
\* saying whether there is an issue now; any failure after an abort is of that kind.
CreateByApi(f) ==
    /\ step = "working" /\ transport = "api" /\ f \in batch /\ batch' = batch \ {f}
    /\ \/ \E i \in NewIssues : \E line \in {SuccessLine(i), FailureLine(TRUE)} :
             Make(i, f) /\ lines' = Append1(lines, f, line)
       \/ /\ \E p \in {TRUE, aborted} : lines' = Append1(lines, f, FailureLine(p))
          /\ UNCHANGED <<linear, made>>
    /\ UNCHANGED <<records, kept, attempts, step, transport, plan, pending, events, strays,
                   aborted, killed, verdict, answer>>

Extra ==
    LET beyond(log) == Cardinality({f \in Finding : Len(log[f]) = 2})
    IN beyond(events) + beyond(lines) + Cardinality(strays)
MayAdd(log, f) == log[f] = <<>> \/ (Len(log[f]) = 1 /\ Extra < MaxExtra)

\* The agent, which was given all of them, takes up a finding.
NextFinding ==
    /\ step = "working" /\ transport = "app" /\ ~killed /\ pending # {}
    /\ LET f == CHOOSE x \in pending : TRUE IN batch' = {f} /\ pending' = pending \ {f}
    /\ UNCHANGED <<world, attempts, step, transport, plan, evidence, aborted, killed, verdict,
                   answer>>

\* It calls for it, perhaps twice or with other arguments, and the answer may lack
\* the identifier.
CallByAgent(f) ==
    /\ step = "working" /\ transport = "app" /\ ~killed /\ f \in batch
    /\ MayAdd(events, f) /\ lines[f] = <<>>
    /\ \/ \E i \in NewIssues : \E status \in {"completed", "bad"}, id \in {i, None} :
             Make(i, f) /\ events' = Append1(events, f, [status |-> status, id |-> id])
       \/ /\ events' = Append1(events, f, [status |-> "failed", id |-> None])
          /\ UNCHANGED <<linear, made>>
    /\ UNCHANGED <<records, kept, attempts, step, transport, plan, pending, batch, lines, strays,
                   aborted, killed, verdict, answer>>

\* It makes an issue that belongs to no finding.
CallAstray ==
    /\ step = "working" /\ transport = "app" /\ ~killed /\ Extra < MaxExtra
    /\ \E i \in NewIssues : \E id \in {i, None} : Make(i, Stray) /\ strays' = strays \cup {id}
    /\ UNCHANGED <<records, kept, attempts, step, transport, plan, pending, batch, events, lines,
                   aborted, killed, verdict, answer>>

\* It writes a line for the finding: of its issue, of another's, or of a failure.
WriteLine(f) ==
    /\ step = "working" /\ transport = "app" /\ ~killed /\ f \in batch /\ MayAdd(lines, f)
    /\ \E line \in Line :
         /\ line.id \in made \cup {None}
         /\ line.id # None => ~line.possible
         /\ line.status = "success" => line.id # None
         /\ line.status = "failure" => line.id = None
         /\ lines' = Append1(lines, f, line)
    /\ UNCHANGED <<world, attempts, step, transport, plan, pending, batch, made, events, strays,
                   aborted, killed, verdict, answer>>

\* runPublicationCodex: the agent is killed after a call, before its event.
KilledInCall(f) ==
    /\ step = "working" /\ transport = "app" /\ f \in batch /\ ~killed /\ killed' = TRUE
    /\ \E i \in NewIssues : Make(i, f)
    /\ UNCHANGED <<records, kept, attempts, step, transport, plan, pending, batch, events, lines,
                   strays, aborted, verdict, answer>>

\* The handoff line could not be appended, the reading or the process failed: the
\* directory stays.
BreakOff ==
    /\ step \in {"working", "record"} /\ step' = "idle" /\ answer' = "rejected"
    /\ kept' = kept \cup made
    /\ UNCHANGED <<linear, records, attempts, transport, plan, pending, batch, evidence,
                   aborted, killed, verdict>>

\* One that reaches a working agent is part of EndAgent.
AbortPublication ==
    /\ step # "idle" /\ (transport = "app" => step # "working") /\ ~aborted /\ aborted' = TRUE
    /\ UNCHANGED <<world, attempts, step, transport, plan, pending, batch, evidence, killed,
                   verdict, answer>>

----------------------------------------------------------------------------
(* reconcilePublicationEvidence.                                             *)

\* What the evidence says of a finding: its issue, that there is none, or neither.
Created(i) == [kind |-> "created", id |-> i]
NotCreated == [kind |-> "none", id |-> None]
Unclear == [kind |-> "unclear", id |-> None]

Claims(line) == line.id # None
Suspicious(line) == Claims(line) \/ line.possible

\* The first call for a finding.
Call(f) == IF events[f] = <<>> THEN [status |-> "none", id |-> None] ELSE events[f][1]
Named(call) == call.status = "completed" /\ call.id # None

\* What a call says without a line.
Alone(call) ==
    IF Named(call) THEN Created(call.id)
    ELSE IF call.status = "completed" THEN Unclear ELSE NotCreated

\* What it says together with one line: a failure does not weigh against it.
Together(call, line) ==
    IF Named(call) /\ (line.status = "failure" \/ line.id = call.id) THEN Created(call.id)
    ELSE IF line.status = "success" /\ call.status # "failed" /\ ~Named(call)
      THEN Created(line.id)
    ELSE IF call.status = "completed" \/ Suspicious(line) THEN Unclear ELSE NotCreated

\* What several lines leave open.
Doubtful(f) ==
    Call(f).status = "completed" \/ \E n \in DOMAIN lines[f] : Suspicious(lines[f][n])

\* reconcileFindingEvidence: two calls, or one for something else, leave it open what was made.
Outcome(f) ==
    IF Len(events[f]) > 1 \/ Call(f).status = "bad" THEN Unclear
    ELSE IF Len(lines[f]) > 1 THEN IF Doubtful(f) THEN Unclear ELSE NotCreated
    ELSE IF lines[f] # <<>> THEN Together(Call(f), lines[f][1]) ELSE Alone(Call(f))

\* indexPublicationEvidence: who claims an identifier.
Owners(i) ==
    {f \in plan : \/ \E n \in DOMAIN events[f] : events[f][n].id = i
                  \/ \E n \in DOMAIN lines[f] : lines[f][n].id = i}
Colliding ==
    UNION {Owners(i) : i \in {j \in Issue : Cardinality(Owners(j)) > 1 \/ j \in strays}}

\* The evidence is read once: what follows knows its verdict only.
Reconcile ==
    /\ step' = "record"
    /\ created' = {c \in (plan \ Colliding) \X Issue : Outcome(c[1]).id = c[2]}
    /\ failed' = plan \ {c[1] : c \in created'}
    /\ unclear' = (\/ \E f \in plan : Outcome(f) = Unclear
                   \/ Colliding # {} \/ strays # {} \/ (killed' /\ ~aborted'))
    /\ events' = [f \in Finding |-> <<>>] /\ lines' = [f \in Finding |-> <<>>] /\ strays' = {}
    /\ UNCHANGED <<world, attempts, transport, plan, made, answer>>

EndApi ==
    /\ step = "working" /\ transport = "api" /\ batch = {} /\ (pending = {} \/ aborted)
    /\ UNCHANGED <<pending, batch, aborted, killed>> /\ Reconcile

\* An abort kills the agent, and so may others.
EndAgent ==
    /\ step = "working" /\ transport = "app"
    /\ aborted' \in BOOLEAN /\ killed' \in {killed \/ aborted', TRUE}
    /\ Reconcile /\ pending' = {} /\ batch' = {}

\* record_linear_publications refuses an issue that is associated with another finding.
Conflicting == \E c \in created, r \in records : c[2] = r[2] /\ c[1] # r[1]

\* The issues are recorded in one transaction, or not at all.
Record ==
    /\ step = "record" /\ ~Conflicting
    /\ records' = records \cup created /\ step' = "conclude"
    /\ UNCHANGED <<linear, kept, attempts, transport, plan, pending, batch, evidence, aborted,
                   killed, verdict, answer>>

\* A plausible mistake: the directory goes whenever the issues are recorded.
BugConclude ==
    /\ step = "conclude" /\ step' = "idle"
    /\ IF aborted
         THEN answer' = "rejected" /\ kept' = kept \cup made
         ELSE answer' = "returned" /\ UNCHANGED kept
    /\ UNCHANGED <<linear, records, attempts, transport, plan, pending, batch, evidence,
                   aborted, killed, verdict>>

\* The directory goes when everything is clear, and stays otherwise; an abort that
\* comes later, or a receipt that cannot be written, is answered all the same.
Conclude ==
    /\ step = "conclude" /\ step' = "idle"
    /\ IF aborted \/ unclear
         THEN answer' = "rejected" /\ kept' = kept \cup made
         ELSE answer' \in {"returned", "rejected"} /\ UNCHANGED kept
    /\ UNCHANGED <<linear, records, attempts, transport, plan, pending, batch, evidence,
                   aborted, killed, verdict>>

PublicationNext ==
    \/ Begin \/ NextBatch \/ EndApi \/ NextFinding \/ CallAstray \/ EndAgent \/ BreakOff
    \/ AbortPublication \/ Record \/ Conclude
    \/ \E f \in Finding : CreateByApi(f) \/ CallByAgent(f) \/ WriteLine(f) \/ KilledInCall(f)

PublicationSpec == PublicationInit /\ [][PublicationNext]_publicationVars

----------------------------------------------------------------------------
\* Between attempts every issue that was made is in the history, or in a handoff
\* directory that remains for somebody to look at.
EvidenceIsKept ==
    step = "idle" =>
        \A i \in Issue : linear[i] # None => i \in kept \/ \E r \in records : r[2] = i

\* What an attempt that returned says of its findings is true: there is an issue
\* of those that it names, and none was made of those it says failed, so that they
\* can be published again.
AnswersAreTrue ==
    step = "idle" /\ answer = "returned" /\ plan # {} =>
        /\ \A c \in created : linear[c[2]] # None /\ c \in records
        /\ \A f \in failed : \A i \in made : linear[i] # f

\* With --skip-existing a finding is not recorded twice, and an issue has one finding.
RecordsAreSingle ==
    /\ \A r \in records, s \in records : r[2] = s[2] => r = s
    /\ AlwaysSkip => \A r \in records, s \in records : r[1] = s[1] => r = s

PublicationIsSound == EvidenceIsKept /\ AnswersAreTrue /\ RecordsAreSingle
=============================================================================
