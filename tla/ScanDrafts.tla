------------------------------ MODULE ScanDrafts ------------------------------
(***************************************************************************)
(* Recording the draft of a scan (artifact-scan-draft.ts, write_scan_draft).  *)
(*                                                                           *)
(* An agent records drafts as it goes: each decides some candidates (found,   *)
(* deferred or rejected) and is a checkpoint or final.  A draft replaces the  *)
(* saved one, but takes over everything it does not mention from it and from  *)
(* all checkpoints.  A parent publishes three documents under the completion  *)
(* lock of the scan, after comparing the digest of the documents it merged;   *)
(* a Deep Scan worker writes one result into its own directory, which is      *)
(* archived when the worker is tried again.                                  *)
(*                                                                           *)
(* A finding is its candidate: the details merged into it are left out, and   *)
(* one surface, left for follow-up or settled, stands for all of them.          *)
(***************************************************************************)
EXTENDS Naturals, Sequences, FiniteSets, SequencesExt

CONSTANTS
    Layout,         \* "scan" (a parent) or "worker": ArtifactContext.layout
    Author,         \* processes that record drafts of the same scan
    Candidate,
    None,
    Input,          \* the drafts an author may record
    MaxDrafts,      \* bound of the model: drafts recorded
    MaxCrashes      \* bound of the model: processes killed, attempts archived

VARIABLES
    documents,      \* the documents of the draft that are present
    canon,          \* what they say
    files,          \* saved checkpoints, newest first; of a worker, with its result
    head,           \* checkpoint-head.json of a worker
    archived,       \* drafts of archived attempts, as they are read
    calls,          \* the call of each author
    stopped,        \* the scan no longer runs
    drafts, crashes,
    torn,           \* history: a publication was cut off after its first document, and
                    \* by now another one is complete
    reported,       \* history: candidates and findings of accepted drafts
    lastFinal       \* history: the last final draft, if it was accepted

vars == <<documents, canon, files, head, archived, calls, stopped, drafts, crashes,
          torn, reported, lastFinal>>

\* "kept": rejected with the finding it once was
Draft == [complete : BOOLEAN, found : SUBSET Candidate, deferred : SUBSET Candidate,
          rejected : SUBSET Candidate, kept : SUBSET Candidate,
          follow : {"absent", "open", "settled"}]
Nothing == [complete |-> TRUE, found |-> {}, deferred |-> {}, rejected |-> {},
            kept |-> {}, follow |-> "absent"]
Documents == IF Layout = "scan" THEN {"findings", "coverage", "manifest"} ELSE {"result"}
Saved == [draft : Draft, result : BOOLEAN]
Pc == {"idle", "begun", "reconciled", "coverage", "manifest", "head", "result", "findings"}
NoCall == [pc |-> "idle", input |-> Nothing, merged |-> Nothing,
           base |-> [documents |-> {}, canon |-> Nothing]]

DraftsTypeOK ==
    /\ documents \subseteq Documents /\ canon \in Draft
    /\ files \in Seq(Saved) /\ head \in Draft \cup {None} /\ archived \in Seq(Draft)
    /\ \A a \in Author : calls[a].pc \in Pc /\ calls[a].input \in Draft /\ calls[a].merged \in Draft
    /\ stopped \in BOOLEAN /\ torn \in {"no", "yes", "mended"}
    /\ drafts \in 0 .. MaxDrafts /\ crashes \in 0 .. MaxCrashes
    /\ reported.candidates \subseteq Candidate /\ reported.findings \subseteq Candidate

DraftsInit ==
    /\ documents = {} /\ canon = Nothing
    /\ files = <<>> /\ head = None /\ archived = <<>>
    /\ calls = [a \in Author |-> NoCall]
    /\ stopped = FALSE /\ drafts = 0 /\ crashes = 0 /\ torn = "no"
    /\ reported = [candidates |-> {}, findings |-> {}] /\ lastFinal = Nothing

-----------------------------------------------------------------------------
(* preserveScanDraft: a draft with everything its sources know besides.  The sources *)
(* are the published draft, the checkpoints of this attempt and of earlier ones.     *)
Known(d) == d.found \cup d.deferred \cup d.rejected

\* A source adds what the draft has not decided; a finding of it that the draft
\* rejects stays with the rejection.
Absorb(d, s, followUpsDone) ==
    LET found == d.found \cup (s.found \ d.rejected)
        known == found \cup d.deferred \cup d.rejected
    IN [d EXCEPT !.found = found,
                 !.deferred = @ \cup (s.deferred \ known),
                 !.rejected = @ \cup (s.rejected \ known),
                 !.kept = @ \cup (s.found \cap d.rejected) \cup (s.kept \cap (s.rejected \ known)),
                 !.follow = IF @ = "absent" /\ ~(s.follow = "open" /\ followUpsDone)
                            THEN s.follow ELSE @]

\* A checkpoint does not replace a final draft: that one is published again.
Start(input, sources) ==
    LET final == SelectSeq(sources, LAMBDA s : s.complete)
    IN IF ~input.complete /\ final # <<>> THEN final[1] ELSE input

\* Follow-ups go when all that was deferred along with them is decided.
Merged(input, sources) ==
    LET start == Start(input, sources)
        followUpsDone == \E i \in DOMAIN sources :
            /\ sources[i].follow = "open" /\ sources[i].deferred # {}
            /\ sources[i].deferred \subseteq start.found \cup start.rejected
    IN FoldLeft(LAMBDA d, s : Absorb(d, s, followUpsDone), start, sources)

\* readCurrentCheckpoints: the head first, then by age; a draft is not its own source.
Checkpoints(input) ==
    LET others == SelectSeq(files, LAMBDA f : ~f.result /\ f.draft # input)
        first == IF head = None \/ head = input THEN <<>> ELSE <<head>>
    IN first \o SelectSeq([i \in DOMAIN others |-> others[i].draft], LAMBDA d : d # head)

Sources(input) ==
    (IF documents = {} THEN <<>> ELSE <<canon>>) \o Checkpoints(input) \o archived

\* Written anew, or again over the same contents: the newest file.
Newest(entry) == <<entry>> \o SelectSeq(files, LAMBDA f : f # entry /\ ~(f.result /\ entry.result))

\* saveScanDraftCheckpoint: a checkpoint that exists is left as old as it is.
SaveCheckpoint(d) ==
    LET entry == [draft |-> d, result |-> FALSE]
    IN files' = IF Contains(files, entry) THEN files ELSE Newest(entry)

To(a, pc) == calls' = [calls EXCEPT ![a].pc = pc]
End(a) == calls' = [calls EXCEPT ![a] = NoCall]

\* The call returns draft_written.  A checkpoint that gave way to a final draft is not
\* merged before the next draft.
Accepted(input, merged) ==
    /\ reported' = IF input.complete = merged.complete
                   THEN [candidates |-> reported.candidates \cup Known(input),
                         findings |-> reported.findings \cup input.found]
                   ELSE reported
    /\ lastFinal' = IF input.complete THEN input ELSE lastFinal

\* What a final draft decided that was cut off may be found or not.
CutOff(a) ==
    /\ lastFinal' = IF calls[a].pc # "idle" /\ calls[a].input.complete THEN Nothing ELSE lastFinal
    /\ UNCHANGED reported

UNCHANGEDHistory == UNCHANGED <<torn, reported, lastFinal>>

-----------------------------------------------------------------------------
(* The parent: recordCodexSecurityScanDraftViaWorkbench. *)
Writing(a) == calls[a].pc \in {"findings", "coverage", "manifest"}
LockIsFree == \A a \in Author : ~Writing(a)

Record(a, d) ==
    /\ Layout = "scan" /\ calls[a].pc = "idle" /\ ~stopped /\ drafts < MaxDrafts
    /\ calls' = [calls EXCEPT ![a] = [NoCall EXCEPT !.pc = "begun", !.input = d]]
    /\ drafts' = drafts + 1
    /\ UNCHANGED <<documents, canon, files, head, archived, stopped, crashes>> /\ UNCHANGEDHistory

\* Some of the three documents, but not all, end the call: a first draft that was cut
\* off cannot be recorded again.
Reconcile(a) ==
    /\ Layout = "scan" /\ calls[a].pc = "begun"
    /\ IF documents \in {{}, Documents}
       THEN calls' = [calls EXCEPT ![a].pc = "reconciled",
                                   ![a].merged = Merged(calls[a].input, Sources(calls[a].input)),
                                   ![a].base = [documents |-> documents, canon |-> canon]]
       ELSE End(a)
    /\ UNCHANGED <<documents, canon, files, head, archived, stopped, drafts, crashes>>
    /\ UNCHANGEDHistory

\* _scan_draft_digest
UnchangedSince(a) == calls[a].base = [documents |-> documents, canon |-> canon]

\* write_scan_draft: the checkpoint is saved also when the draft has to be merged again.
Publish(a) ==
    /\ calls[a].pc = "reconciled" /\ LockIsFree
    /\ \/ stopped /\ End(a) /\ UNCHANGED files
       \/ /\ ~stopped
          /\ files' = Newest([draft |-> calls[a].input, result |-> FALSE])
          /\ To(a, IF UnchangedSince(a) THEN "findings" ELSE "begun")
    /\ UNCHANGED <<documents, canon, head, archived, stopped, drafts, crashes>>
    /\ UNCHANGEDHistory

WriteFindings(a) ==
    /\ calls[a].pc = "findings" /\ To(a, "coverage")
    /\ documents' = documents \cup {"findings"}
    /\ canon' = [canon EXCEPT !.found = calls[a].merged.found]
    /\ UNCHANGED <<files, head, archived, stopped, drafts, crashes>> /\ UNCHANGEDHistory

WriteCoverage(a) ==
    /\ calls[a].pc = "coverage" /\ To(a, "manifest")
    /\ documents' = documents \cup {"coverage"}
    /\ canon' = [calls[a].merged EXCEPT !.complete = canon.complete]
    /\ UNCHANGED <<files, head, archived, stopped, drafts, crashes>> /\ UNCHANGEDHistory

WriteManifest(a) ==
    /\ calls[a].pc = "manifest" /\ End(a)
    /\ documents' = Documents /\ canon' = calls[a].merged
    /\ torn' = (IF torn = "no" THEN "no" ELSE "mended") /\ Accepted(calls[a].input, calls[a].merged)
    /\ UNCHANGED <<files, head, archived, stopped, drafts, crashes>>

\* The process is killed; the operating system frees the lock.
Crash(a) ==
    /\ Layout = "scan" /\ calls[a].pc # "idle" /\ crashes < MaxCrashes
    /\ torn' = IF calls[a].pc \in {"coverage", "manifest"} THEN "yes" ELSE torn
    /\ End(a) /\ CutOff(a) /\ crashes' = crashes + 1
    /\ UNCHANGED <<documents, canon, files, head, archived, stopped, drafts>>

\* The scan is completed, failed or canceled, under the same lock.
Stop ==
    /\ Layout = "scan" /\ ~stopped /\ LockIsFree /\ stopped' = TRUE
    /\ UNCHANGED <<documents, canon, files, head, archived, calls, drafts, crashes>>
    /\ UNCHANGEDHistory

-----------------------------------------------------------------------------
(* A worker: recordCodexSecurityWorkerScanDraft, one call after the other. *)
WorkerRecord(a, d) ==
    /\ Layout = "worker" /\ calls[a].pc = "idle" /\ drafts < MaxDrafts
    /\ calls' = [calls EXCEPT ![a] = [NoCall EXCEPT !.pc = "begun", !.input = d]]
    /\ drafts' = drafts + 1 /\ SaveCheckpoint(d)
    /\ UNCHANGED <<documents, canon, head, archived, stopped, crashes>> /\ UNCHANGEDHistory

WorkerReconcile(a) ==
    /\ Layout = "worker" /\ calls[a].pc = "begun"
    /\ LET merged == Merged(calls[a].input, Sources(calls[a].input)) IN
          /\ SaveCheckpoint(merged)
          /\ calls' = [calls EXCEPT ![a].pc = "head", ![a].merged = merged]
    /\ UNCHANGED <<documents, canon, head, archived, stopped, drafts, crashes>> /\ UNCHANGEDHistory

WorkerHead(a) ==
    /\ calls[a].pc = "head" /\ To(a, "result") /\ head' = calls[a].merged
    /\ UNCHANGED <<documents, canon, files, archived, stopped, drafts, crashes>> /\ UNCHANGEDHistory

WorkerResult(a) ==
    /\ calls[a].pc = "result" /\ End(a)
    /\ documents' = Documents /\ canon' = calls[a].merged
    /\ files' = Newest([draft |-> calls[a].merged, result |-> TRUE])
    /\ Accepted(calls[a].input, calls[a].merged)
    /\ UNCHANGED <<head, archived, stopped, drafts, crashes, torn>>

\* The attempt fails at any point and its directory becomes attempt-NN; it is read with
\* its head first, then by age (archiveDirectory, readArchivedWorkerCheckpoints).
Archive(a) ==
    /\ Layout = "worker" /\ crashes < MaxCrashes /\ crashes' = crashes + 1
    /\ End(a) /\ documents' = {} /\ canon' = Nothing /\ files' = <<>> /\ head' = None
    /\ archived' = LET rest == SelectSeq(files, LAMBDA f : f.result \/ f.draft # head)
                   IN (IF head = None THEN <<>> ELSE <<head>>)
                      \o [i \in DOMAIN rest |-> rest[i].draft] \o archived
    /\ CutOff(a) /\ UNCHANGED <<stopped, drafts, torn>>

DraftsNext ==
    \/ \E a \in Author :
          \/ \E d \in Input : Record(a, d) \/ WorkerRecord(a, d)
          \/ Reconcile(a) \/ Publish(a)
          \/ WriteFindings(a) \/ WriteCoverage(a) \/ WriteManifest(a) \/ Crash(a)
          \/ WorkerReconcile(a) \/ WorkerHead(a) \/ WorkerResult(a) \/ Archive(a)
    \/ Stop

DraftsSpec == DraftsInit /\ [][DraftsNext]_vars

-----------------------------------------------------------------------------
(* What must hold. *)

\* The documents are those of one publication.
Whole == documents = Documents /\ torn # "yes" /\ LockIsFree

\* A draft that was accepted is never dropped by a later one, of this author or
\* another, of this attempt or the next: what it reported stays in the published
\* draft, decided or deferred, and what it called a finding stays a finding or
\* stays with the decision against it.  (A publication that was cut off may cost a
\* rejected finding its details, when the checkpoint that has them is recorded again.)
NothingIsDropped ==
    Whole => /\ reported.candidates \subseteq Known(canon)
             /\ torn = "no" => reported.findings \subseteq canon.found \cup canon.kept

\* A checkpoint that comes late takes nothing back from a final draft: the result
\* stays final and decides as the last final draft decided.
FinalDraftsDecide ==
    Whole /\ lastFinal # Nothing =>
        /\ canon.complete
        /\ lastFinal.found \subseteq canon.found
        /\ lastFinal.rejected \subseteq canon.rejected \ canon.found

\* Drafts recorded over one another neither drop nor overrule what was accepted.
DraftsAreSound == NothingIsDropped /\ FinalDraftsDecide
=============================================================================
