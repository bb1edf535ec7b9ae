------------------------------- MODULE ScanCost -------------------------------
(***************************************************************************)
(* What a scan costs (ScanCostTracker of cost.ts).                            *)
(*                                                                           *)
(* Every thread of Codex appends to a session file of its own.  While a scan  *)
(* runs, the tracker polls the files, finds out which threads belong to the   *)
(* scan, and tells the observers of the scan its cost, its events and its     *)
(* progress.  The file of a forked thread begins with the history of its      *)
(* parent, tokens included.                                                   *)
(*                                                                           *)
(* Abstracted: lines become visible whole (a partial line waits for its end); *)
(* usage is one number, and cost grows with it; activities and reasoning,     *)
(* which go the way of events; lines longer than a string can be.             *)
(***************************************************************************)
EXTENDS Naturals, Sequences, FiniteSets
LOCAL INSTANCE SequencesExt
LOCAL INSTANCE FiniteSetsExt

CONSTANTS
    Threads,        \* number of session files, in the order of their directory
    Families,       \* what the threads may be: functions to Thread records
    MaxSpent,       \* bound of the model: usage each thread reports
    Marker,         \* what a thread may claim: files completed, of how many
    MaxMarkers,     \* bound of the model: progress markers of a thread
    MaxFailures,    \* bound of the model: reads that fail
    FilesTotal      \* expectedFilesTotal

Thread == 1 .. Threads
\* "worker" runs in the artifacts of the scan, "stale" did so before the scan began,
\* "child" and "fork" have a parent, "turn" is a thread of the caller's own, and "other" is
\* of someone else.
Origin == [kind : {"scan", "worker", "stale", "child", "fork", "turn", "other"},
           parent : 0 .. Threads]

VARIABLES
    origin,         \* where each thread comes from
    text,           \* the lines of each session file: a type and its numbers
    spent, base,    \* tokens a thread used, and those it inherited with its history
    sessions,       \* #sessions: what the tracker read of each file
    reported,       \* #receipts: usage the SDK reported, NoUsage before, Unusable
    snapshot,       \* #snapshot.usage
    best,           \* #highestFilesCompleted
    delivered,      \* events given to the observer, of each thread
    timer, polling, rerun,
    queue,          \* #pending: refreshes that wait their turn; the first is at work
    at, unread,     \* files the first has passed, and those it failed to read
    stage,          \* of the scan
    erred,          \* history: an error was reported
    due             \* history: what had been spent when stop() was called

trackerVars == <<sessions, reported, snapshot, best, delivered, timer, polling, rerun,
    queue, at, unread, stage, erred, due>>
costVars == <<origin, text, spent, base, trackerVars>>

Usage == 0 .. (Threads + 1) * MaxSpent
NoUsage == 1000
Unusable == 1001

Session == [thread : {0} \cup Thread, offset : Nat, replaying : BOOLEAN, inherited : Usage,
            usage : Usage \cup {NoUsage}, tracked : BOOLEAN, events : Nat,
            markers : Seq(Nat \X Nat), done : Nat, total : Nat]
NewSession == [thread |-> 0, offset |-> 0, replaying |-> FALSE, inherited |-> 0, usage |-> NoUsage,
               tracked |-> FALSE, events |-> 0, markers |-> <<>>, done |-> 0, total |-> 0]

CostTypeOK ==
    /\ origin \in [Thread -> Origin] /\ spent \in [Thread -> 0 .. MaxSpent]
    /\ base \in [Thread -> Usage] /\ sessions \in [Thread -> Session]
    /\ reported \in [Thread -> Usage \cup {NoUsage, Unusable}]
    /\ snapshot \in Usage \cup {NoUsage}
    /\ best \in 0 .. FilesTotal /\ delivered \in [Thread -> Nat]
    /\ {timer, polling, rerun, erred} \subseteq BOOLEAN
    /\ Len(queue) <= 2 /\ Range(queue) \subseteq {"poll", "turn", "stop"}
    /\ at \in 0 .. Threads /\ unread \subseteq Thread
    /\ stage \in {"running", "turn", "stopping", "stopped"} /\ due \in [Thread -> 0 .. MaxSpent]

Scan == CHOOSE t \in Thread : origin[t].kind = "scan"
None0 == [t \in Thread |-> 0]

CostInit ==
    /\ origin \in Families
    /\ text = [t \in Thread |-> <<>>] /\ spent = None0 /\ base = None0
    /\ sessions = [t \in Thread |-> NewSession]
    /\ reported = [t \in Thread |-> NoUsage]
    /\ snapshot = NoUsage /\ best = 0 /\ delivered = None0
    /\ timer = TRUE /\ polling = TRUE /\ rerun = FALSE
    /\ queue = <<"poll">> /\ at = 0 /\ unread = {}
    /\ stage = "running" /\ erred = FALSE /\ due = None0

-----------------------------------------------------------------------------
(* Codex writes its files. *)
Forked(t) == origin[t].kind = "fork"
Opened(t) == Len(text[t]) >= IF Forked(t) THEN 4 ELSE 1

Open(t) ==
    LET parent == origin[t].parent
        line == CASE text[t] = <<>> -> <<"meta", t>>
                  [] Len(text[t]) = 1 -> <<"meta", parent>>
                  [] Len(text[t]) = 2 -> <<"count", base[t]>>
                  [] OTHER -> <<"started", 0>>
    IN /\ ~Opened(t)
       /\ (parent # 0 => Opened(parent))
       /\ (origin[t].kind \notin {"scan", "stale", "other"} => Opened(Scan))
       /\ text' = [text EXCEPT ![t] = Append(@, line)]
       /\ base' = IF text[t] = <<>> /\ Forked(t)
                  THEN [base EXCEPT ![t] = base[parent] + spent[parent]] ELSE base
       /\ UNCHANGED <<origin, spent, trackerVars>>

Spend(t) ==
    /\ Opened(t) /\ spent[t] < MaxSpent
    /\ spent' = [spent EXCEPT ![t] = @ + 1]
    /\ text' = [text EXCEPT ![t] = Append(@, <<"count", base[t] + spent[t] + 1>>)]
    /\ UNCHANGED <<origin, base, trackerVars>>

Markers(t) == Cardinality({i \in DOMAIN text[t] : text[t][i][1] = "marker"})
Mark(t, marker) ==
    /\ Opened(t) /\ Markers(t) < MaxMarkers
    /\ text' = [text EXCEPT ![t] = Append(@, <<"marker", marker[1], marker[2]>>)]
    /\ UNCHANGED <<origin, spent, base, trackerVars>>

-----------------------------------------------------------------------------
(* One file. *)
Event(s) == IF s.tracked THEN [s EXCEPT !.events = @ + 1] ELSE s

\* A plausible mistake: the history of its parent counts as the fork's own.
BugReplays(s, line) == FALSE

\* The metadata of another thread begin its history, which ends with a task of its own.
Replays(s, line) == line[1] = "meta" /\ s.thread # line[2]

\* The count includes what came with the history.
CountUsage(s, line) == [s EXCEPT !.usage = line[2] - s.inherited]

\* Markers are kept until they are reported.
KeepMarker(s, line) == [s EXCEPT !.markers = Append(@, <<line[2], line[3]>>)]

\* readSessionEvent
ReadLine(s, line) ==
    CASE line[1] = "meta" /\ s.thread = 0 -> Event([s EXCEPT !.thread = line[2]])
      [] line[1] = "meta" /\ s.thread # 0 ->
            IF Replays(s, line) THEN [s EXCEPT !.replaying = TRUE]
            ELSE Event([s EXCEPT !.replaying = FALSE])
      [] s.replaying /\ line[1] = "count" -> [s EXCEPT !.inherited = line[2]]
      [] s.replaying /\ line[1] = "started" -> Event([s EXCEPT !.replaying = FALSE])
      [] s.replaying /\ line[1] = "marker" -> s
      [] ~s.replaying /\ line[1] = "count" -> Event(CountUsage(s, line))
      [] ~s.replaying /\ line[1] = "started" -> Event(s)
      [] OTHER -> Event(KeepMarker(s, line))

\* readSessionUsage: from where the last read ended.
Read(s, t) ==
    [FoldLeft(ReadLine, s, SubSeq(text[t], s.offset + 1, Len(text[t])))
        EXCEPT !.offset = Len(text[t])]

ReadNext ==
    /\ queue # <<>> /\ at < Threads
    /\ at' = at + 1
    /\ sessions' = [sessions EXCEPT ![at'] = Read(@, at')]
    /\ UNCHANGED <<origin, text, spent, base, reported, snapshot, best, delivered,
                   timer, polling, rerun, queue, unread, stage, erred, due>>

\* The first refresh is over.
EndRefresh(failed) ==
    LET again == Head(queue) = "poll" /\ rerun /\ timer IN
    /\ queue' = Tail(queue) \o IF again THEN <<"poll">> ELSE <<>>
    /\ polling' = IF Head(queue) = "poll" THEN again ELSE polling
    /\ rerun' = (rerun /\ ~again)
    /\ at' = 0 /\ unread' = {} /\ UNCHANGED timer
    /\ stage' = CASE Head(queue) = "turn" -> "running"
                  [] Head(queue) = "stop" -> "stopped"
                  [] OTHER -> stage
    /\ erred' = (erred \/ failed)

\* A file cannot be read: that matters at once when its thread is not known.
ReadFails ==
    /\ queue # <<>> /\ at < Threads /\ text[at + 1] # <<>>
    /\ Cardinality(unread) < MaxFailures /\ ~erred
    /\ IF sessions[at + 1].thread = 0 THEN EndRefresh(TRUE)
       ELSE at' = at + 1 /\ unread' = unread \cup {at + 1}
            /\ UNCHANGED <<timer, polling, rerun, queue, stage, erred>>
    /\ UNCHANGED <<origin, text, spent, base, sessions, reported, snapshot, best,
                   delivered, due>>

-----------------------------------------------------------------------------
(* All files. *)
Known(t) == sessions[t].thread # 0

\* Threads whose parents belong to the scan belong to it, however deep.
WithChildren(included) ==
    LET more == {t \in Thread : Known(t) /\ origin[t].parent \in included} IN included \cup more

RECURSIVE Closure(_)
Closure(included) ==
    IF WithChildren(included) = included THEN included ELSE Closure(WithChildren(included))

Included ==
    Closure({Scan} \cup {t \in Thread : reported[t] # NoUsage}
              \cup {t \in Thread : Known(t) /\ Known(Scan) /\ origin[t].kind = "worker"})

\* Sessions that are new to the scan are read again from their beginning.
Replayed(t) ==
    IF t \in Included /\ Known(t) /\ ~sessions[t].tracked
    THEN Read([NewSession EXCEPT !.tracked = TRUE], t) ELSE sessions[t]

\* The larger one of the receipt and the session.
OwnUsage(t, s) ==
    CASE reported[t] \in {NoUsage, Unusable} /\ s.usage # NoUsage -> s.usage
      [] reported[t] \in Usage /\ s.usage # NoUsage /\ s.usage > reported[t] -> s.usage
      [] OTHER -> reported[t]

\* reportWorkerProgress: markers that contradict the scan or the worker are passed over.
TakeMarker(s, marker) ==
    IF \/ marker[2] > FilesTotal \/ (s.total # 0 /\ marker[2] # s.total) \/ marker[1] < s.done
    THEN s ELSE [s EXCEPT !.done = marker[1], !.total = marker[2]]

AfterReport(t) ==
    LET s == Replayed(t)
        taken == IF t = Scan THEN s ELSE FoldLeft(TakeMarker, s, s.markers)
    IN IF t \in Included /\ Known(t)
       THEN [taken EXCEPT !.events = 0, !.markers = IF t = Scan THEN @ ELSE <<>>] ELSE s

Total(f) == FoldFunction(LAMBDA x, y : x + y, 0, f)

\* Usage that cannot be told leaves no cost.
Account(usages) ==
    LET told == {t \in Thread : usages[t] # NoUsage} IN
    IF \E t \in told : usages[t] = Unusable
    THEN snapshot' = NoUsage
    ELSE IF told = {} THEN UNCHANGED snapshot
    ELSE snapshot' = Total([t \in told |-> usages[t]])

\* readSessions, after the last file.
Report ==
    /\ queue # <<>> /\ at = Threads
    /\ IF unread \cap Included # {}
       THEN /\ EndRefresh(TRUE)
            /\ UNCHANGED <<sessions, snapshot, best, delivered>>
       ELSE /\ EndRefresh(FALSE)
            /\ sessions' = [t \in Thread |-> AfterReport(t)]
            /\ delivered' = [t \in Thread |-> delivered[t] +
                  IF t \in Included /\ Known(t) THEN Replayed(t).events ELSE 0]
            /\ best' = Max({best, Min({FilesTotal, Total([t \in Thread |-> sessions'[t].done])})})
            /\ Account([t \in Thread |-> IF t \in Included THEN OwnUsage(t, sessions'[t]) ELSE NoUsage])
    /\ UNCHANGED <<origin, text, spent, base, reported, due>>

-----------------------------------------------------------------------------
(* The scan. *)

\* The interval timer: one poll at a time, and one more after it at most.
Tick ==
    /\ timer /\ ~rerun
    /\ IF polling THEN rerun' = TRUE /\ UNCHANGED <<polling, queue>>
       ELSE polling' = TRUE /\ queue' = Append(queue, "poll") /\ UNCHANGED rerun
    /\ UNCHANGED <<origin, text, spent, base, sessions, reported, snapshot, best,
                   delivered, timer, at, unread, stage, erred, due>>

\* recordUsage
Record(t) == \E usage \in {spent[t], Unusable} : reported' = [reported EXCEPT ![t] = usage]

\* A turn is over, of the scan's thread or of the caller's own.
EndTurn(t) ==
    /\ stage = "running" /\ Opened(t) /\ reported[t] = NoUsage
    /\ origin[t].kind \in {"scan", "turn"}
    /\ Record(t) /\ queue' = Append(queue, "turn") /\ stage' = "turn"
    /\ UNCHANGED <<origin, text, spent, base, sessions, snapshot, best, delivered,
                   timer, polling, rerun, at, unread, erred, due>>

\* stop, with the usage of the scan's last turn or without.
Stop ==
    /\ stage = "running"
    /\ timer' = FALSE /\ stage' = "stopping" /\ due' = spent
    /\ queue' = Append(queue, "stop")
    /\ Record(Scan) \/ UNCHANGED reported
    /\ UNCHANGED <<origin, text, spent, base, sessions, snapshot, best, delivered,
                   polling, rerun, at, unread, erred>>

CostNext ==
    \/ \E t \in Thread :
          \/ stage # "stopped" /\ (Open(t) \/ Spend(t) \/ \E marker \in Marker : Mark(t, marker))
          \/ EndTurn(t)
    \/ ReadNext \/ ReadFails \/ Report \/ Tick \/ Stop

CostSpec == CostInit /\ [][CostNext]_costVars
-----------------------------------------------------------------------------
(* What must hold. *)

\* The threads that work for the scan, however deep, known to the tracker or not.
RECURSIVE Descendants(_)
Descendants(threads) ==
    LET more == threads \cup {t \in Thread : origin[t].parent \in threads} IN
    IF more = threads THEN threads ELSE Descendants(more)
Works == Descendants({t \in Thread : origin[t].kind \in {"scan", "worker", "turn"}})
Sum(f) == Total([t \in Works |-> f[t]])
Cost == IF snapshot = NoUsage THEN 0 ELSE snapshot
Due == {t \in Works : origin[t].kind # "turn" \/ reported[t] # NoUsage}

\* The cost never counts a token twice, nor one of another scan; and when the scan is
\* over and nothing went wrong, it has counted all that was spent by then.
CostIsExact ==
    /\ Cost <= Sum(spent)
    /\ stage = "stopped" /\ ~erred =>
          \/ Cost >= Total([t \in Due |-> due[t]])
          \/ snapshot = NoUsage /\ \E t \in Thread : reported[t] = Unusable

\* The lines of a file that are its thread's own.
Own(t, n) == IF Forked(t) THEN IF n < 4 THEN Min({n, 1}) ELSE n - 2 ELSE n

\* The observer gets every event of a thread of the scan, once, those before it was known
\* to belong to the scan included, and no event of another thread.
EventsAreComplete ==
    \A t \in Thread :
        /\ delivered[t] # 0 => t \in Works
        /\ IF sessions[t].tracked
           THEN delivered[t] + sessions[t].events = Own(t, sessions[t].offset)
           ELSE delivered[t] = 0

\* Progress never exceeds what the workers themselves have claimed.
Claimed(t) ==
    Max({0} \cup {text[t][i][2] : i \in {j \in DOMAIN text[t] :
            text[t][j][1] = "marker" /\ text[t][j][3] <= FilesTotal}})
ProgressIsSound == best <= Sum([t \in Thread |-> IF t = Scan THEN 0 ELSE Claimed(t)])

\* Once stop() has answered nothing is read or reported any more.
SilentAfterStop == stage = "stopped" => queue = <<>>

CostIsAccounted == CostIsExact /\ EventsAreComplete /\ ProgressIsSound /\ SilentAfterStop
=============================================================================
