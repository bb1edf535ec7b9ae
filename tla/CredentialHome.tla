---------------------------- MODULE CredentialHome ----------------------------
(***************************************************************************)
(* The home that all scans of a user share: its lock (runtime.ts), what a     *)
(* scan prepares in it (configuration, plugin, credentials), and the commands   *)
(* that sign in and out beside it.  A client holds an exclusive transaction of  *)
(* SQLite and a directory; clients of earlier releases know the directory only. *)
(*                                                                           *)
(* A client scans several times, with an API key or with stored credentials, may  *)
(* ask for its account in between, and may abort or die anywhere.  Assumed of       *)
(* processes that live: they do not stop for 30 seconds between two file operations. *)
(* Abstracted: modes, owners and links of the files; file systems without hard  *)
(* links; other accounts; other providers and commands that give credentials.   *)
(* Logins and logouts are those of the command line.                            *)
(***************************************************************************)
EXTENDS Naturals, FiniteSets

CONSTANTS
    Client, Released,   \* clients of this and of earlier releases
    None,
    Plugin,             \* version of the plugin that a client brings
    Methods,            \* how scans of each client sign in
    Asking,             \* clients that ask for their account
    MaxScans,           \* bound of the model: scans of each client
    MaxCommands         \* bound of the model: commands that sign in or out

Process == Client \cup Released

VARIABLES
    database,           \* who has the exclusive transaction
    folder,             \* the directory: made, its owner.json, and 30 seconds old
    place,              \* where a process is
    session,            \* of a client: its runtime, how it signs in, #runtimeCredentialSource
    settings,           \* config.toml: whose, and what is registered in it
    staged,             \* sdk-marketplace
    installed,          \* the plugin that Codex runs
    auth, marker,       \* auth.json, and the logout marker
    command, commands,  \* of the user, and how many there were
    cut,                \* history: staging ended in the middle
    raced,              \* history: the last logout met an import
    returned,           \* history: since it, a client went back from its key to what is stored
    signedIn            \* history: a login that nobody ended

lockVars == <<database, folder>>
pluginVars == <<settings, staged, installed, cut>>
authVars == <<auth, marker, raced, returned, signedIn>>
userVars == <<command, commands>>
homeVars == <<lockVars, place, session, pluginVars, authVars, userVars>>

Waiting == {"begin", "look", "recover", "make"}
Staging == {"clear", "copy", "manifest"}
Credentials == {"marker", "stored", "link", "session", "again"}
Method == {"api_key", "stored_credentials"}
Working == {"config", "stage", "register", "install", "ready"} \cup Staging \cup Credentials
Releasing == {"release", "unlink", "rmdir", "close"}
Over == {"out", "dead"}

NoLock == [made |-> FALSE, owner |-> None, old |-> FALSE]
Made(p) == [made |-> TRUE, owner |-> p, old |-> FALSE]
Copied(v, whole, announced) ==
    [version |-> v, complete |-> whole, manifest |-> announced]
Nothing == Copied(0, FALSE, FALSE)

Places == {"idle", "sign", "ask"} \cup Waiting \cup Working \cup Releasing \cup Over
Folders == [made : BOOLEAN, owner : Process \cup {None}, old : BOOLEAN]
Sessions == [prepared : BOOLEAN, method : Method, source : Method, scans : Nat]
Plugins == [version : {0} \cup {Plugin[c] : c \in Client},
            complete : BOOLEAN, manifest : BOOLEAN]

SessionsOK ==
    session \in [Client -> Sessions] /\ \A c \in Client : session[c].scans <= MaxScans[c]

HomeTypeOK ==
    /\ database \in Client \cup {None}
    /\ folder \in Folders
    /\ place \in [Process -> Places]
    /\ SessionsOK
    /\ settings \in [of : Client \cup {None}, market : BOOLEAN, plugin : BOOLEAN]
    /\ staged \in Plugins /\ installed \in Plugins
    /\ auth \in {"none", "ambient", "login"}
    /\ command \in {"none", "login", "logout"} /\ commands \in 0 .. MaxCommands
    /\ marker \in BOOLEAN /\ cut \in BOOLEAN /\ raced \in BOOLEAN /\ returned \in BOOLEAN
    /\ signedIn \in BOOLEAN

NewSession ==
    [prepared |-> FALSE, method |-> "stored_credentials", source |-> "stored_credentials",
     scans |-> 0]

HomeInit ==
    /\ database = None /\ folder = NoLock /\ place = [p \in Process |-> "idle"]
    /\ session = [c \in Client |-> NewSession]
    /\ settings = [of |-> None, market |-> FALSE, plugin |-> FALSE]
    /\ staged = Nothing /\ installed = Nothing
    /\ auth = "none" /\ marker = FALSE /\ command = "none" /\ commands = 0
    /\ cut = FALSE /\ raced = FALSE /\ returned = FALSE /\ signedIn = FALSE

Goto(p, there) == place' = [place EXCEPT ![p] = there]
Alive(p) == place[p] # "dead"

-----------------------------------------------------------------------------
(* acquireCodexSecurityCredentialHomeLock *)

\* scanAuthentication: each scan of a client chooses how it signs in.
Start(c) ==
    /\ place[c] \in {"idle", "out"} /\ session[c].scans < MaxScans[c] /\ Goto(c, "begin")
    /\ \E method \in Methods[c] :
         session' = [session EXCEPT ![c].method = method, ![c].scans = @ + 1]
    /\ UNCHANGED <<lockVars, pluginVars, authVars, userVars>>

Begin(c) ==
    /\ place[c] = "begin" /\ database = None
    /\ database' = c /\ Goto(c, "look")
    /\ UNCHANGED <<folder, session, pluginVars, authVars, userVars>>

\* A plausible mistake: a directory without a record is left alone.
BugOrphaned ==
    \/ folder.owner \in Client
    \/ folder.owner \in Released /\ ~Alive(folder.owner)

\* recoverStaleCredentialHomeLock, under the transaction: a record of this protocol is an
\* orphan, and so is that of a dead process; without a record, the age decides.
Orphaned ==
    \/ folder.owner \in Client
    \/ folder.owner \in Released /\ ~Alive(folder.owner)
    \/ folder.owner = None /\ folder.old

Look(c) ==
    /\ place[c] = "look"
    /\ \/ ~folder.made /\ Goto(c, "make")
       \/ folder.made /\ Orphaned /\ Goto(c, "recover")
    /\ UNCHANGED <<lockVars, session, pluginVars, authVars, userVars>>

\* The directory is renamed, whatever it holds by now.
Recover(c) ==
    /\ place[c] = "recover" /\ folder' = NoLock /\ Goto(c, "look")
    /\ UNCHANGED <<database, session, pluginVars, authVars, userVars>>

MakeLock(p, next) ==
    IF folder.made THEN Goto(p, next) /\ UNCHANGED folder
    ELSE Goto(p, "sign") /\ folder' = Made(None)

Make(c) ==
    /\ place[c] = "make" /\ MakeLock(c, "look")
    /\ UNCHANGED <<database, session, pluginVars, authVars, userVars>>

\* owner.json is new, or the directory is given up.
Sign(c) ==
    /\ place[c] = "sign"
    /\ IF folder.made /\ folder.owner = None
       THEN folder' = Made(c) /\ Goto(c, "config") /\ UNCHANGED database
       ELSE folder' = NoLock /\ database' = None /\ Goto(c, "out")
    /\ UNCHANGED <<session, pluginVars, authVars, userVars>>

\* The directory goes before the transaction.
Release(c) ==
    \/ /\ place[c] = "release"
       /\ Goto(c, IF folder.owner = c THEN "unlink" ELSE "close") /\ UNCHANGED lockVars
    \/ /\ place[c] = "unlink" /\ Goto(c, "rmdir")
       /\ folder' = Made(None) /\ UNCHANGED database
    \/ place[c] = "rmdir" /\ Goto(c, "close") /\ folder' = NoLock /\ UNCHANGED database
    \/ place[c] = "close" /\ Goto(c, "out") /\ database' = None /\ UNCHANGED folder

Unlock(c) == Release(c) /\ UNCHANGED <<session, pluginVars, authVars, userVars>>

\* Clients of earlier releases wait until there is no directory.
ReleasedStep(r) ==
    /\ \/ place[r] = "idle" /\ ~folder.made /\ MakeLock(r, "idle")
       \/ /\ place[r] = "sign" /\ folder.made /\ folder.owner = None
          /\ folder' = Made(r) /\ Goto(r, "ready")
       \/ place[r] = "ready" /\ Goto(r, "rmdir")
            /\ folder' = Made(None)
       \/ place[r] = "rmdir" /\ Goto(r, "out") /\ folder' = NoLock
    /\ UNCHANGED <<database, session, pluginVars, authVars, userVars>>

EarlierStep == \E r \in Released : place[r] # "idle" /\ ReleasedStep(r)

TimePasses ==
    /\ folder.made /\ ~folder.old /\ \A p \in Process : place[p] \notin {"sign", "rmdir"}
    /\ folder' = [folder EXCEPT !.old = TRUE]
    /\ UNCHANGED <<database, place, session, pluginVars, authVars, userVars>>

-----------------------------------------------------------------------------
(* The runtime: the configuration and the plugin. *)
SamePlace == settings.market /\ settings.plugin /\ staged # Nothing

\* preserveCodexSecurityPluginRegistration, and a file that replaces the other
WriteConfig(c) ==
    /\ place[c] = "config" /\ Goto(c, "stage")
    /\ settings' = [of |-> c, market |-> SamePlace, plugin |-> SamePlace]
    /\ UNCHANGED <<lockVars, session, staged, installed, cut, authVars, userVars>>

\* bootstrapPlugin: what is staged counts if its version is the right one.
Stage(c) ==
    /\ place[c] = "stage"
    /\ Goto(c, IF staged.version = Plugin[c] THEN "register" ELSE "clear")
    /\ UNCHANGED <<lockVars, session, pluginVars, authVars, userVars>>

\* The directory is removed, file by file, the announcement sooner or later.
Clear(c) ==
    /\ place[c] = "clear"
    /\ \/ /\ staged.complete
          /\ \E announced \in {FALSE, staged.manifest} :
               staged' = Copied(staged.version, FALSE, announced)
          /\ UNCHANGED place
       \/ staged' = Nothing /\ Goto(c, "copy")
    /\ UNCHANGED <<lockVars, session, settings, installed, cut, authVars, userVars>>

\* createMarketplace: the plugin is copied, file by file, and then announced.
Copy(c) ==
    /\ place[c] = "copy"
    /\ \/ /\ staged = Nothing /\ staged' = Copied(Plugin[c], FALSE, FALSE)
          /\ UNCHANGED place
       \/ /\ staged # Nothing
          /\ staged' = Copied(Plugin[c], TRUE, FALSE) /\ Goto(c, "manifest")
    /\ UNCHANGED <<lockVars, session, settings, installed, cut, authVars, userVars>>

Announce(c) ==
    /\ place[c] = "manifest" /\ Goto(c, "register")
    /\ staged' = [staged EXCEPT !.manifest = TRUE]
    /\ UNCHANGED <<lockVars, session, settings, installed, cut, authVars, userVars>>

\* What Codex does fails without marketplace.json.
Register(c) ==
    /\ place[c] = "register"
    /\ \/ settings.market /\ Goto(c, "install") /\ UNCHANGED settings
       \/ /\ ~settings.market /\ staged.manifest
          /\ settings' = [settings EXCEPT !.market = TRUE] /\ Goto(c, "install")
       \/ ~settings.market /\ ~staged.manifest /\ Goto(c, "release") /\ UNCHANGED settings
    /\ UNCHANGED <<lockVars, session, staged, installed, cut, authVars, userVars>>

\* With a runtime from an earlier scan, this was #refreshPersistentRuntime.
Install(c) ==
    /\ place[c] = "install"
    /\ IF staged.manifest
       THEN /\ installed' = staged /\ settings' = [settings EXCEPT !.plugin = TRUE]
            /\ Goto(c, IF session[c].prepared THEN "session" ELSE "marker")
       ELSE Goto(c, "release") /\ UNCHANGED <<installed, settings>>
    /\ UNCHANGED <<lockVars, session, staged, cut, authVars, userVars>>

-----------------------------------------------------------------------------
(* Credentials. *)

\* #ensureRuntime: the client has a runtime from now on.
Prepared(c) ==
    /\ Goto(c, "session")
    /\ session' = [session EXCEPT ![c].prepared = TRUE, ![c].source = "stored_credentials"]

\* initialCredentialsAvailable: with an API key or after a logout nothing is imported.
CheckMarker(c) ==
    /\ place[c] = "marker"
    /\ IF session[c].method = "api_key" \/ marker
       THEN Prepared(c)
       ELSE Goto(c, "stored") /\ UNCHANGED session
    /\ UNCHANGED <<lockVars, pluginVars, authVars, userVars>>

\* Stored credentials are used, and otherwise those of Codex, if there are any.
CheckStored(c) ==
    /\ place[c] = "stored"
    /\ \/ Prepared(c)
       \/ auth = "none" /\ Goto(c, "link") /\ UNCHANGED session
    /\ UNCHANGED <<lockVars, pluginVars, authVars, userVars>>

\* importAmbientAuth: the copy is linked unless there are credentials by now.
Import == auth' = IF auth = "none" THEN "ambient" ELSE auth

Link(c) ==
    /\ place[c] = "link" /\ Prepared(c) /\ Import
    /\ UNCHANGED <<lockVars, pluginVars, marker, raced, returned, signedIn, userVars>>

\* A client whose last scan used an API key, and that signs in with what is stored now,
\* imports once more.
GoesBack(c) ==
    session[c].method = "stored_credentials" /\ session[c].source = "api_key"

Session(c) ==
    /\ place[c] = "session" /\ Goto(c, IF GoesBack(c) THEN "again" ELSE "ready")
    /\ returned' = (returned \/ (marker /\ GoesBack(c)))
    /\ UNCHANGED <<lockVars, session, pluginVars, auth, marker, raced, signedIn, userVars>>

\* The marker is not looked at here.
Reimport(c) ==
    /\ place[c] = "again" /\ Goto(c, "ready")
    /\ Import \/ UNCHANGED auth
    /\ session' = [session EXCEPT ![c].source = "stored_credentials"]
    /\ UNCHANGED <<lockVars, pluginVars, marker, raced, returned, signedIn, userVars>>

Done(c) ==
    /\ place[c] = "ready" /\ Goto(c, "release")
    /\ session' = [session EXCEPT ![c].source =
                      IF session[c].method = "api_key" THEN "api_key" ELSE @]
    /\ UNCHANGED <<lockVars, pluginVars, authVars, userVars>>

\* account(), and login status, which do not take the lock: what initialCredentialsAvailable
\* does, between the look at the marker and the link.
Ask(c) ==
    /\ c \in Asking /\ place[c] \in {"idle", "out"} /\ ~marker /\ Goto(c, "ask")
    /\ UNCHANGED <<lockVars, session, pluginVars, authVars, userVars>>

Answer(c) ==
    /\ place[c] = "ask" /\ Goto(c, "out")
    /\ Import \/ UNCHANGED auth
    /\ UNCHANGED <<lockVars, session, pluginVars, marker, raced, returned, signedIn, userVars>>

\* Who may still import.
Importing == {c \in Client : place[c] \in {"stored", "link", "again", "ask"}}

\* Login and logout: Codex changes auth.json, and then the marker is removed or set. They
\* do not take the lock.
RunCodex ==
    /\ command = "none" /\ commands < MaxCommands /\ commands' = commands + 1
    /\ \/ command' = "login" /\ auth' = "login" /\ signedIn' = TRUE
       \/ command' = "logout" /\ auth' = "none" /\ signedIn' = FALSE
    /\ UNCHANGED <<lockVars, place, session, pluginVars, marker, raced, returned>>

RecordCommand ==
    /\ command # "none" /\ command' = "none"
    /\ marker' = (command = "logout")
    /\ raced' = IF command = "logout" THEN Importing # {} \/ auth # "none" ELSE FALSE
    /\ returned' = FALSE
    /\ UNCHANGED <<lockVars, place, session, pluginVars, auth, signedIn, commands>>

CommandDies ==
    /\ command # "none" /\ command' = "none"
    /\ UNCHANGED <<lockVars, place, session, pluginVars, authVars, commands>>

-----------------------------------------------------------------------------
(* Failures. *)
Half == staged.version # 0 /\ ~(staged.complete /\ staged.manifest)

\* An error or the signal: a waiting client closes the database, one at work releases the
\* lock. What was copied is removed, if the copy is not finished.
Abort(c) ==
    \/ /\ place[c] \in Waiting /\ Goto(c, "out")
       /\ database' = IF database = c THEN None ELSE database
       /\ UNCHANGED <<folder, session, pluginVars, authVars, userVars>>
    \/ /\ place[c] \in Working \ {"ready"} /\ Goto(c, "release")
       /\ staged' = IF place[c] = "copy" THEN Nothing ELSE staged
       /\ cut' = (cut \/ (place[c] \in {"clear", "manifest"} /\ Half))
       /\ UNCHANGED <<lockVars, session, settings, installed, authVars, userVars>>

Die(p) ==
    /\ place[p] \notin Over \cup {"idle"} /\ Goto(p, "dead")
    /\ database' = IF database = p THEN None ELSE database
    /\ cut' = (cut \/ (place[p] \in Staging /\ Half))
    /\ UNCHANGED <<folder, session, settings, staged, installed, authVars, userVars>>

Prepare(c) ==
    \/ WriteConfig(c) \/ Stage(c) \/ Clear(c) \/ Copy(c) \/ Announce(c) \/ Register(c)
    \/ Install(c) \/ CheckMarker(c) \/ CheckStored(c) \/ Link(c) \/ Session(c)
    \/ Reimport(c) \/ Done(c)

ClientStep(c) ==
    \/ Begin(c) \/ Look(c) \/ Recover(c) \/ Make(c) \/ Sign(c) \/ Prepare(c) \/ Unlock(c)

HomeNext ==
    \/ \E c \in Client : Start(c) \/ ClientStep(c) \/ Ask(c) \/ Answer(c) \/ Abort(c)
    \/ \E r \in Released : ReleasedStep(r)
    \/ \E p \in Process : Die(p)
    \/ TimePasses \/ RunCodex \/ RecordCommand \/ CommandDies

\* Clients go on, and time does.
DueStep == (\E c \in Client : ClientStep(c)) \/ EarlierStep \/ TimePasses

HomeSpec == HomeInit /\ [][HomeNext]_homeVars /\ WF_homeVars(DueStep)

-----------------------------------------------------------------------------
(* What must hold. *)

\* One process works in the home, of whatever release.
HolderIsAlone ==
    /\ Cardinality({p \in Process : place[p] \in Working}) <= 1
    /\ \A c \in Client : place[c] \in Working => database = c /\ folder.owner = c

\* A scan that starts has its own configuration, and its own plugin, completely, unless
\* staging once ended in the middle.
ReadyIsOwn ==
    \A c \in Client : place[c] = "ready" =>
        /\ settings = [of |-> c, market |-> TRUE, plugin |-> TRUE]
        /\ installed.version = Plugin[c]
        /\ cut \/ installed.complete

\* After a logout nothing is imported, unless an import was under way, or a client that had
\* used an API key goes back to stored credentials (#prepareSession imports then without a
\* look at the marker); and an import never replaces what a login has stored.
CredentialsAreKept ==
    /\ marker /\ ~raced /\ ~returned => auth # "ambient"
    /\ signedIn => auth = "login"

HomeIsSound == HolderIsAlone /\ ReadyIsOwn /\ CredentialsAreKept

\* No client waits for ever, whoever died with the lock.
Freed == \A c \in Client : place[c] \in Over \cup {"idle", "ask"}
HomeIsFreed == []<>Freed
=============================================================================
