-------------------------------- MODULE MCSdk --------------------------------
(* Instances of the modules of the SDK for TLC, checked in one run.  They share *)
(* nothing but the workbench, so that they are looked at one at a time.         *)
EXTENDS Naturals

CONSTANTS None, Stray, Findings, Destination

VARIABLES
    instance,
    runs, opt, pc, outcome, failure, reason, userAborted, closeAborted, closing, runtime,
    login, lock, active, thread, tracker, post, postRuns, limit, seen, notified, request,
    raise, budgetClosed, row, rowLimit, files, incident,
    linear, records, kept, attempts, publicationStep, transport, plan, pending, batch, made,
    events, lines, strays, aborted, killed, created, failed, unclear, answer,
    wf, scans, sealed, service, written, saved, source, faults, workflowPc, command, scan,
    begun, decisions, review,
    selected, near, phase, next, nominated, rejected, supported, clusters, cluster,
    support, conflicts, open, groups,
    database, folder, place, settings, staged, installed, auth, marker, homeCommand,
    homeSession, commands, cut, raced, returned, signedIn

Options(deep, limited, validation, followUp, shared) ==
    [deep |-> deep, limited |-> limited, validation |-> validation, post |-> followUp,
     shared |-> shared]

\* One scan: deep, limited, with a follow-up and another client beside it; or with the
\* caller's validation, which Deep Scans do not allow, and a follow-up.
One == INSTANCE ScanSession WITH
    Option <- {Options(TRUE, TRUE, FALSE, TRUE, TRUE), Options(FALSE, FALSE, TRUE, TRUE, FALSE)},
    Limit <- 1, MaxCost <- 3, MaxRuns <- 1

\* Two scans of one instance: limited and with the caller's validation, or deep.
Two == INSTANCE ScanSession WITH
    Option <- {Options(FALSE, TRUE, TRUE, FALSE, FALSE), Options(TRUE, FALSE, FALSE, TRUE, TRUE)},
    Limit <- 1, MaxCost <- 2, MaxRuns <- 2

\* Three attempts over the API, and one with the app.
Api == INSTANCE Publication WITH
    Finding <- Findings, Issue <- 1 .. 3, Transport <- {"api"}, AlwaysSkip <- TRUE,
    BatchSize <- 1, MaxExtra <- 0, MaxAttempts <- 3, step <- publicationStep

App == INSTANCE Publication WITH
    Finding <- Findings, Issue <- 1 .. 3, Transport <- {"app"}, AlwaysSkip <- TRUE,
    BatchSize <- 1, MaxExtra <- 1, MaxAttempts <- 1, step <- publicationStep

Workflow == INSTANCE FindingsWorkflow WITH
    FindingPair <- Findings, Unbound <- None, Orderly <- TRUE, MaxFaults <- 2, MaxSource <- 1,
    pc <- workflowPc

Duplicates == INSTANCE Deduplication WITH N <- 4, active <- clusters

\* Two clients and one of an earlier release; a client that scans twice, with an API key or
\* with what is stored, and one that asks for its account, beside logins and logouts.
Clients == {"client 1", "client 2"}
Twice == [c \in Clients |-> IF c = "client 1" THEN 2 ELSE 1]

Home == INSTANCE CredentialHome WITH
    Client <- Clients, Released <- {"earlier"}, Asking <- {}, MaxScans <- Twice,
    MaxCommands <- 0, Methods <- [c \in Clients |-> {"stored_credentials"}],
    Plugin <- [c \in Clients |-> IF c = "client 1" THEN 1 ELSE 2],
    command <- homeCommand, session <- homeSession

Logins == INSTANCE CredentialHome WITH
    Client <- Clients, Released <- {}, Asking <- {"client 2"},
    MaxScans <- [c \in Clients |-> IF c = "client 1" THEN 2 ELSE 0], MaxCommands <- 2,
    Methods <- [c \in Clients |-> {"api_key", "stored_credentials"}],
    Plugin <- [c \in Clients |-> 1], command <- homeCommand, session <- homeSession

sessionVars == <<runs, opt, pc, outcome, failure, reason, userAborted, closeAborted, closing,
    runtime, login, lock, active, thread, tracker, post, postRuns, limit, seen, notified,
    request, raise, budgetClosed, row, rowLimit, files, incident>>
publicationVars == <<linear, records, kept, attempts, publicationStep, transport, plan, pending,
    batch, made, events, lines, strays, aborted, killed, created, failed, unclear, answer>>
workflowVars == <<wf, scans, sealed, service, written, saved, source, faults, workflowPc,
    command, scan, begun, decisions, review>>
duplicateVars == <<selected, near, phase, next, nominated, rejected, supported, clusters,
    cluster, support, conflicts, open, groups>>
homeVars == <<database, folder, place, settings, staged, installed, auth, marker, homeCommand,
    homeSession, commands, cut, raced, returned, signedIn>>
mcVars == <<instance, sessionVars, publicationVars, workflowVars, duplicateVars, homeVars>>

Instance == {"one", "two", "api", "app", "workflow", "duplicates", "home", "logins"}
NoSession == Two!SessionInit
NoPublication == Api!PublicationInit
NoWorkflow == Workflow!WorkflowInit /\ sealed = {}
NoDuplicates == Duplicates!DeduplicationInit /\ selected = 1 .. 4 /\ near = {}

MCInit ==
    /\ instance \in Instance
    /\ CASE instance = "one" -> One!SessionInit
         [] OTHER -> NoSession
    /\ CASE instance = "app" -> App!PublicationInit
         [] OTHER -> NoPublication
    /\ CASE instance = "workflow" -> Workflow!WorkflowInit
         [] OTHER -> NoWorkflow
    /\ CASE instance = "duplicates" -> Duplicates!DeduplicationInit
         [] OTHER -> NoDuplicates
    /\ CASE instance = "home" -> Home!HomeInit
         [] OTHER -> Logins!HomeInit

OnSession(A) ==
    A /\ UNCHANGED <<instance, publicationVars, workflowVars, duplicateVars, homeVars>>
OnPublication(A) ==
    A /\ UNCHANGED <<instance, sessionVars, workflowVars, duplicateVars, homeVars>>
OnWorkflow(A) ==
    A /\ UNCHANGED <<instance, sessionVars, publicationVars, duplicateVars, homeVars>>
OnDuplicates(A) ==
    A /\ UNCHANGED <<instance, sessionVars, publicationVars, workflowVars, homeVars>>
OnHome(A) ==
    A /\ UNCHANGED <<instance, sessionVars, publicationVars, workflowVars, duplicateVars>>

MCNext ==
    \/ instance = "one" /\ OnSession(One!SessionNext)
    \/ instance = "two" /\ OnSession(Two!SessionNext)
    \/ instance = "api" /\ OnPublication(Api!PublicationNext)
    \/ instance = "app" /\ OnPublication(App!PublicationNext)
    \/ instance = "workflow" /\ OnWorkflow(Workflow!WorkflowNext)
    \/ instance = "duplicates" /\ OnDuplicates(Duplicates!DeduplicationNext)
    \/ instance = "home" /\ OnHome(Home!HomeNext)
    \/ instance = "logins" /\ OnHome(Logins!HomeNext)

\* SessionLiveSpec, WorkflowLiveSpec and HomeSpec, each for its own instances.
MCFairness ==
    WF_mcVars(\/ instance = "one" /\ OnSession(One!DueStep)
              \/ instance = "workflow" /\ OnWorkflow(Workflow!DueStep)
              \/ instance = "home" /\ OnHome(Home!DueStep))

MCSpec == MCInit /\ [][MCNext]_mcVars /\ MCFairness

\* Every part keeps to the values it declares.
SdkTypeOK ==
    CASE instance \in {"one", "two"} -> One!SessionTypeOK \/ Two!SessionTypeOK
      [] instance \in {"api", "app"} -> Api!PublicationTypeOK \/ App!PublicationTypeOK
      [] instance = "workflow" -> Workflow!WorkflowTypeOK
      [] instance = "duplicates" -> Duplicates!DeduplicationTypeOK
      [] instance = "home" -> Home!HomeTypeOK
      [] OTHER -> Logins!HomeTypeOK

\* What the caller of a scan relies on when it is over: the row, the files, the limit,
\* the follow-up, the lock, and close(); and on what scans share: one of them works in the
\* home, what it finds there is its own, and credentials come and go with the commands
\* of the user.
SessionIsSound ==
    /\ SdkTypeOK
    /\ CASE instance \in {"one", "two"} -> One!SessionIsSound
         [] instance = "home" -> Home!HomeIsSound
         [] instance = "logins" -> Logins!HomeIsSound
         [] OTHER -> TRUE

\* What the answers, the history and the handoff of publications say is true together.
PublicationIsSound == instance \in {"api", "app"} => Api!PublicationIsSound

\* A workflow does each of its stages once, in order, over deaths and repetitions.
WorkflowIsSound == instance = "workflow" => Workflow!WorkflowIsSound

\* The duplicate groups respect every decision that was made.
GroupsAreSound == instance = "duplicates" => Duplicates!GroupsAreSound

\* An abort ends a scan, close() comes to its end, and so does a workflow whose
\* commands are repeated, and no scan waits for a home whose owner died.
SdkSettles ==
    []<>CASE instance = "one" -> One!Settled
          [] instance = "workflow" -> Workflow!Completed("dedupe")
          [] instance = "home" -> Home!Freed
          [] OTHER -> TRUE
=============================================================================
