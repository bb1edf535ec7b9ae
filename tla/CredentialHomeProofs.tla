-------------------------- MODULE CredentialHomeProofs --------------------------
(***************************************************************************)
(* What CredentialHome promises, for every set of scans, of clients of         *)
(* earlier releases and of versions.  HomeInv has three parts: LockHolds says   *)
(* who may be where while the directory and the transaction change hands;      *)
(* PreparedIsOwn and AnnouncedIsComplete what a client has made of the home so  *)
(* far; ImportsRespectCommands what commands and imports see of each other.   *)
(* The last is conditional, as the code is: once a client went back from its   *)
(* API key to stored credentials after a logout, it has imported without a     *)
(* look at the marker (api.ts:2290), and nothing is said of the credentials    *)
(* until the next logout.                                                      *)
(***************************************************************************)
EXTENDS CredentialHome, FiniteSetTheorems, TLAPS

\* A process is of this release or of an earlier one, and every plugin has a version.
HomeConstants ==
    /\ Client \cap Released = {} /\ None \notin Process
    /\ Plugin \in [Client -> Nat \ {0}] /\ MaxCommands \in Nat
    /\ MaxScans \in [Client -> Nat] /\ Methods \in [Client -> SUBSET Method]

\* A client past the look has the transaction.
DatabaseIsHeld ==
    \A c \in Client :
        place[c] \in {"look", "recover", "make", "sign"} \cup Working \cup Releasing =>
            database = c

\* Clients of earlier releases only take, hold and release the directory.
EarlierPlaces ==
    \A r \in Released : place[r] \in {"idle", "sign", "ready", "rmdir", "out", "dead"}

\* Who makes or removes the directory finds it without a record and young; who works has
\* its own record in it.
DirectoryIsHeld ==
    \A p \in Process :
        /\ place[p] \in {"sign", "rmdir"} =>
              folder.made /\ folder.owner = None /\ ~folder.old
        /\ place[p] \in Working \cup {"release", "unlink"} =>
              folder.made /\ folder.owner = p

\* Without a record the directory is in the hands of one process.
OneSigns ==
    \A p, q \in Process :
        place[p] \in {"sign", "rmdir"} /\ place[q] \in {"sign", "rmdir"} => p = q

\* What is about to be recovered is still nobody's.
RecoversOrphans ==
    \A c \in Client : place[c] = "recover" => folder.made /\ Orphaned

LockHolds ==
    DatabaseIsHeld /\ EarlierPlaces /\ DirectoryIsHeld /\ OneSigns /\ RecoversOrphans

\* What a client has prepared so far is its own.
PreparedIsOwn ==
    \A c \in Client :
        /\ place[c] \in {"stage", "register", "install", "ready"} \cup Staging \cup Credentials
             => settings.of = c
        /\ place[c] = "copy" => ~staged.manifest /\ staged.version \in {0, Plugin[c]}
        /\ place[c] = "manifest" => staged.complete
        /\ place[c] \in {"manifest", "register", "install"} => staged.version = Plugin[c]
        /\ place[c] = "install" => settings.market
        /\ place[c] \in Credentials \cup {"ready"} =>
             /\ settings.market /\ settings.plugin
             /\ installed.version = Plugin[c]
             /\ cut \/ installed.complete

\* What was announced is complete, unless it is being removed or its removal was cut off.
AnnouncedIsComplete ==
    /\ staged.version = 0 => staged = Nothing
    /\ staged.manifest => staged.complete \/ cut \/ \E c \in Client : place[c] = "clear"

\* Nothing is imported after a logout that met no import, unless a client goes back from its
\* API key to what is stored, nor over a login.
ImportsRespectCommands ==
    /\ marker /\ ~raced /\ ~returned => auth # "ambient" /\ Importing = {}
    /\ signedIn => auth = "login"

HomeInv ==
    /\ HomeTypeOK /\ LockHolds /\ PreparedIsOwn /\ AnnouncedIsComplete
    /\ ImportsRespectCommands

\* What the directory, and the staged plugin, can become.
LEMMA FolderTyped ==
  ASSUME HomeTypeOK,
         \/ folder' = folder \/ folder' = NoLock
         \/ \E p \in Process \cup {None} : folder' = Made(p)
  PROVE  folder' \in Folders
<1>1. CASE folder' = folder
  BY <1>1 DEF HomeTypeOK, Folders
<1>2. CASE folder' = NoLock
  BY <1>2 DEF NoLock, Folders, Process
<1>3. CASE \E p \in Process \cup {None} : folder' = Made(p)
  BY <1>3 DEF Made, Folders
<1> QED BY <1>1, <1>2, <1>3

LEMMA StagedTyped ==
  ASSUME HomeTypeOK,
         \/ staged' = staged
         \/ \E v \in {0} \cup {Plugin[i] : i \in Client}, w, a \in BOOLEAN :
              staged' = Copied(v, w, a)
  PROVE  staged' \in Plugins
<1>1. CASE staged' = staged
  BY <1>1 DEF HomeTypeOK, Plugins
<1>2. CASE \E v \in {0} \cup {Plugin[i] : i \in Client}, w, a \in BOOLEAN :
              staged' = Copied(v, w, a)
  BY <1>2 DEF Copied, Plugins
<1> QED BY <1>1, <1>2

\* A process that goes to a place, and a client that changes its session.
LEMMA PlaceTyped ==
  ASSUME HomeTypeOK, NEW p \in Process,
         place' = place \/ \E there \in Places : place' = [place EXCEPT ![p] = there]
  PROVE  place' \in [Process -> Places]
BY DEF HomeTypeOK

LEMMA SessionTyped ==
  ASSUME HomeTypeOK, NEW c \in Client, MaxScans \in [Client -> Nat],
         \/ session' = session
         \/ \E t \in Sessions : t.scans <= MaxScans[c] /\ session' = [session EXCEPT ![c] = t]
  PROVE  SessionsOK'
BY DEF HomeTypeOK, SessionsOK

LEMMA PreparedTyped ==
  ASSUME HomeTypeOK, HomeConstants, NEW c \in Client,
         session' = session \/ Prepared(c)
  PROVE  SessionsOK'
<1> DEFINE t == [session[c] EXCEPT !.prepared = TRUE, !.source = "stored_credentials"]
<1>1. session[c] \in Sessions /\ session[c].scans <= MaxScans[c]
  BY DEF HomeTypeOK, SessionsOK
<1>2. t \in Sessions /\ t.scans = session[c].scans
  BY <1>1 DEF Sessions, Method
<1>3. session' = session \/ session' = [session EXCEPT ![c] = t]
  BY DEF Prepared, HomeTypeOK, SessionsOK, Sessions
<1> HIDE DEF t
<1> QED BY <1>1, <1>2, <1>3, SessionTyped DEF HomeConstants

\* A client that waits for the lock, takes it or releases it.
LEMMA LockStepsKeep ==
  ASSUME HomeConstants, HomeInv, NEW c \in Client,
         Start(c) \/ Begin(c) \/ Look(c) \/ Recover(c) \/ Make(c) \/ Sign(c) \/ Unlock(c)
  PROVE  HomeInv'
<1> USE DEF HomeConstants, HomeInv, HomeTypeOK, LockHolds, DatabaseIsHeld, EarlierPlaces,
            DirectoryIsHeld, OneSigns, RecoversOrphans, PreparedIsOwn, AnnouncedIsComplete,
            ImportsRespectCommands, Goto, Alive, Orphaned, MakeLock, lockVars, pluginVars,
            authVars, userVars, Waiting, Staging, Credentials, Working, Releasing, Over,
            NoLock, Nothing, SamePlace, Half, Importing, Process, Plugins, Folders, Places,
            Made, Copied, Sessions, Method, SessionsOK
<1>1. CASE Start(c)
  <2>1. HomeTypeOK'
    <3>1. (database \in Client \cup {None})'
      BY <1>1 DEF Start
    <3>2. (folder \in Folders)'
      BY <1>1 DEF Start
    <3>3. (place \in [Process -> Places])'
      <4>1. \E there \in Places : place' = [place EXCEPT ![c] = there]
        BY <1>1 DEF Start
      <4>2. c \in Process
        OBVIOUS
      <4> QED BY ONLY <4>1, <4>2, PlaceTyped, HomeTypeOK
    <3>4. (settings \in [of : Client \cup {None}, market : BOOLEAN, plugin : BOOLEAN])'
      BY <1>1 DEF Start
    <3>5. (staged \in Plugins)'
      BY <1>1 DEF Start
    <3>6. (installed \in Plugins)'
      BY <1>1 DEF Start
    <3>7. (auth \in {"none", "ambient", "login"})'
      BY <1>1 DEF Start
    <3>8. (command \in {"none", "login", "logout"} /\ commands \in 0 .. MaxCommands)'
      BY <1>1 DEF Start
    <3>9. (marker \in BOOLEAN /\ cut \in BOOLEAN /\ raced \in BOOLEAN /\ returned \in BOOLEAN /\
             signedIn \in BOOLEAN)'
      BY <1>1 DEF Start
    <3>10. SessionsOK'
      <4>1. PICK method \in Methods[c] :
                session' = [session EXCEPT ![c].method = method, ![c].scans = @ + 1]
        BY <1>1 DEF Start
      <4> DEFINE t == [session[c] EXCEPT !.method = method, !.scans = @ + 1]
      <4>2. session[c] \in Sessions /\ MaxScans[c] \in Nat /\ session[c].scans < MaxScans[c]
        BY <1>1 DEF Start
      <4>3. method \in Method
        OBVIOUS
      <4>4. t \in Sessions /\ t.scans <= MaxScans[c]
        <5>1. session[c].scans \in Nat /\ session[c].scans + 1 \in Nat /\
              session[c].scans + 1 <= MaxScans[c]
          BY ONLY <4>2 DEF Sessions
        <5>2. t.scans = session[c].scans + 1 /\ t.method = method /\ t \in Sessions
          BY ONLY <4>2, <4>3, <5>1 DEF Sessions
        <5> QED BY ONLY <5>1, <5>2
      <4>5. session' = [session EXCEPT ![c] = t]
        BY ONLY <4>1, <4>2 DEF Sessions
      <4> QED BY ONLY <4>4, <4>5, SessionTyped, HomeTypeOK, HomeConstants DEF HomeConstants
    <3> QED BY ONLY <3>1, <3>2, <3>3, <3>4, <3>5, <3>6, <3>7, <3>8, <3>9, <3>10 DEF HomeTypeOK
  <2>2. DatabaseIsHeld'
    BY <1>1 DEF Start
  <2>3. EarlierPlaces'
    <3>1. \A r \in Released : r # c /\ r \in Process
      OBVIOUS
    <3>2. place' = [place EXCEPT ![c] = "begin"]
      BY <1>1 DEF Start
    <3> QED BY ONLY <3>1, <3>2, EarlierPlaces, HomeTypeOK DEF EarlierPlaces, HomeTypeOK
  <2>4. DirectoryIsHeld'
    BY <1>1 DEF Start
  <2>5. OneSigns'
    BY <1>1 DEF Start
  <2>6. RecoversOrphans'
    BY <1>1 DEF Start
  <2>7. PreparedIsOwn'
    BY <1>1 DEF Start
  <2>8. AnnouncedIsComplete'
    BY <1>1 DEF Start
  <2>9. ImportsRespectCommands'
    BY <1>1 DEF Start
  <2> QED BY <2>1, <2>2, <2>3, <2>4, <2>5, <2>6, <2>7, <2>8, <2>9
<1>2. CASE Begin(c)
  <2>1. HomeTypeOK'
    BY <1>2 DEF Begin
  <2>2. DatabaseIsHeld'
    BY <1>2 DEF Begin
  <2>3. EarlierPlaces'
    BY <1>2 DEF Begin
  <2>4. DirectoryIsHeld'
    BY <1>2 DEF Begin
  <2>5. OneSigns'
    BY <1>2 DEF Begin
  <2>6. RecoversOrphans'
    BY <1>2 DEF Begin
  <2>7. PreparedIsOwn'
    BY <1>2 DEF Begin
  <2>8. AnnouncedIsComplete'
    BY <1>2 DEF Begin
  <2>9. ImportsRespectCommands'
    BY <1>2 DEF Begin
  <2> QED BY <2>1, <2>2, <2>3, <2>4, <2>5, <2>6, <2>7, <2>8, <2>9
<1>3. CASE Look(c)
  <2>1. HomeTypeOK'
    BY <1>3 DEF Look
  <2>2. DatabaseIsHeld'
    BY <1>3 DEF Look
  <2>3. EarlierPlaces'
    BY <1>3 DEF Look
  <2>4. DirectoryIsHeld'
    BY <1>3 DEF Look
  <2>5. OneSigns'
    BY <1>3 DEF Look
  <2>6. RecoversOrphans'
    BY <1>3 DEF Look
  <2>7. PreparedIsOwn'
    BY <1>3 DEF Look
  <2>8. AnnouncedIsComplete'
    BY <1>3 DEF Look
  <2>9. ImportsRespectCommands'
    BY <1>3 DEF Look
  <2> QED BY <2>1, <2>2, <2>3, <2>4, <2>5, <2>6, <2>7, <2>8, <2>9
<1>4. CASE Recover(c)
  <2>1. HomeTypeOK'
    BY <1>4 DEF Recover
  <2>2. DatabaseIsHeld'
    BY <1>4 DEF Recover
  <2>3. EarlierPlaces'
    BY <1>4 DEF Recover
  <2>4. DirectoryIsHeld'
    BY <1>4 DEF Recover
  <2>5. OneSigns'
    BY <1>4 DEF Recover
  <2>6. RecoversOrphans'
    BY <1>4 DEF Recover
  <2>7. PreparedIsOwn'
    BY <1>4 DEF Recover
  <2>8. AnnouncedIsComplete'
    BY <1>4 DEF Recover
  <2>9. ImportsRespectCommands'
    BY <1>4 DEF Recover
  <2> QED BY <2>1, <2>2, <2>3, <2>4, <2>5, <2>6, <2>7, <2>8, <2>9
<1>5. CASE Make(c)
  <2>1. HomeTypeOK'
    <3>1. (database \in Client \cup {None})'
      BY <1>5 DEF Make
    <3>2. (folder \in Folders)'
      <4>1. \/ folder' = folder \/ folder' = NoLock
            \/ \E p \in Process \cup {None} : folder' = Made(p)
        BY <1>5 DEF Make
      <4> QED BY ONLY <4>1, FolderTyped, HomeTypeOK
    <3>3. (place \in [Process -> Places])'
      <4>1. place' = place \/ \E there \in Places : place' = [place EXCEPT ![c] = there]
        BY <1>5 DEF Make
      <4>2. c \in Process
        OBVIOUS
      <4> QED BY ONLY <4>1, <4>2, PlaceTyped, HomeTypeOK
    <3>4. (settings \in [of : Client \cup {None}, market : BOOLEAN, plugin : BOOLEAN])'
      BY <1>5 DEF Make
    <3>5. (staged \in Plugins)'
      BY <1>5 DEF Make
    <3>6. (installed \in Plugins)'
      BY <1>5 DEF Make
    <3>7. (auth \in {"none", "ambient", "login"})'
      BY <1>5 DEF Make
    <3>8. (command \in {"none", "login", "logout"} /\ commands \in 0 .. MaxCommands)'
      BY <1>5 DEF Make
    <3>9. (marker \in BOOLEAN /\ cut \in BOOLEAN /\ raced \in BOOLEAN /\ returned \in BOOLEAN /\
             signedIn \in BOOLEAN)'
      BY <1>5 DEF Make
    <3>10. SessionsOK'
      BY <1>5 DEF Make
    <3> QED BY ONLY <3>1, <3>2, <3>3, <3>4, <3>5, <3>6, <3>7, <3>8, <3>9, <3>10 DEF HomeTypeOK
  <2>2. DatabaseIsHeld'
    BY <1>5 DEF Make
  <2>3. EarlierPlaces'
    BY <1>5 DEF Make
  <2>4. DirectoryIsHeld'
    BY <1>5 DEF Make
  <2>5. OneSigns'
    BY <1>5 DEF Make
  <2>6. RecoversOrphans'
    BY <1>5 DEF Make
  <2>7. PreparedIsOwn'
    BY <1>5 DEF Make
  <2>8. AnnouncedIsComplete'
    BY <1>5 DEF Make
  <2>9. ImportsRespectCommands'
    BY <1>5 DEF Make
  <2> QED BY <2>1, <2>2, <2>3, <2>4, <2>5, <2>6, <2>7, <2>8, <2>9
<1>6. CASE Sign(c)
  <2>1. HomeTypeOK'
    <3>1. (database \in Client \cup {None})'
      BY <1>6 DEF Sign
    <3>2. (folder \in Folders)'
      <4>1. \/ folder' = folder \/ folder' = NoLock
            \/ \E p \in Process \cup {None} : folder' = Made(p)
        BY <1>6 DEF Sign
      <4> QED BY ONLY <4>1, FolderTyped, HomeTypeOK
    <3>3. (place \in [Process -> Places])'
      BY <1>6 DEF Sign
    <3>4. (settings \in [of : Client \cup {None}, market : BOOLEAN, plugin : BOOLEAN])'
      BY <1>6 DEF Sign
    <3>5. (staged \in Plugins)'
      BY <1>6 DEF Sign
    <3>6. (installed \in Plugins)'
      BY <1>6 DEF Sign
    <3>7. (auth \in {"none", "ambient", "login"})'
      BY <1>6 DEF Sign
    <3>8. (command \in {"none", "login", "logout"} /\ commands \in 0 .. MaxCommands)'
      BY <1>6 DEF Sign
    <3>9. (marker \in BOOLEAN /\ cut \in BOOLEAN /\ raced \in BOOLEAN /\ returned \in BOOLEAN /\
             signedIn \in BOOLEAN)'
      BY <1>6 DEF Sign
    <3>10. SessionsOK'
      BY <1>6 DEF Sign
    <3> QED BY ONLY <3>1, <3>2, <3>3, <3>4, <3>5, <3>6, <3>7, <3>8, <3>9, <3>10 DEF HomeTypeOK
  <2>2. DatabaseIsHeld'
    BY <1>6 DEF Sign
  <2>3. EarlierPlaces'
    BY <1>6 DEF Sign
  <2>4. DirectoryIsHeld'
    BY <1>6 DEF Sign
  <2>5. OneSigns'
    BY <1>6 DEF Sign
  <2>6. RecoversOrphans'
    BY <1>6 DEF Sign
  <2>7. PreparedIsOwn'
    BY <1>6 DEF Sign
  <2>8. AnnouncedIsComplete'
    BY <1>6 DEF Sign
  <2>9. ImportsRespectCommands'
    BY <1>6 DEF Sign
  <2> QED BY <2>1, <2>2, <2>3, <2>4, <2>5, <2>6, <2>7, <2>8, <2>9
<1>7. CASE Unlock(c)
  <2>1. HomeTypeOK'
    <3>1. (database \in Client \cup {None})'
      BY <1>7 DEF Unlock, Release
    <3>2. (folder \in Folders)'
      <4>1. \/ folder' = folder \/ folder' = NoLock
            \/ \E p \in Process \cup {None} : folder' = Made(p)
        BY <1>7 DEF Unlock, Release
      <4> QED BY ONLY <4>1, FolderTyped, HomeTypeOK
    <3>3. (place \in [Process -> Places])'
      BY <1>7 DEF Unlock, Release
    <3>4. (settings \in [of : Client \cup {None}, market : BOOLEAN, plugin : BOOLEAN])'
      BY <1>7 DEF Unlock, Release
    <3>5. (staged \in Plugins)'
      BY <1>7 DEF Unlock, Release
    <3>6. (installed \in Plugins)'
      BY <1>7 DEF Unlock, Release
    <3>7. (auth \in {"none", "ambient", "login"})'
      BY <1>7 DEF Unlock, Release
    <3>8. (command \in {"none", "login", "logout"} /\ commands \in 0 .. MaxCommands)'
      BY <1>7 DEF Unlock, Release
    <3>9. (marker \in BOOLEAN /\ cut \in BOOLEAN /\ raced \in BOOLEAN /\ returned \in BOOLEAN /\
             signedIn \in BOOLEAN)'
      BY <1>7 DEF Unlock, Release
    <3>10. SessionsOK'
      BY <1>7 DEF Unlock, Release
    <3> QED BY ONLY <3>1, <3>2, <3>3, <3>4, <3>5, <3>6, <3>7, <3>8, <3>9, <3>10 DEF HomeTypeOK
  <2>2. DatabaseIsHeld'
    BY <1>7 DEF Unlock, Release
  <2>3. EarlierPlaces'
    BY <1>7 DEF Unlock, Release
  <2>4. DirectoryIsHeld'
    <3>1. CASE place[c] = "release"
      BY <1>7, <3>1 DEF Unlock, Release
    <3>2. CASE place[c] = "unlink"
      BY <1>7, <3>2 DEF Unlock, Release
    <3>3. CASE place[c] = "rmdir"
      BY <1>7, <3>3 DEF Unlock, Release
    <3>4. CASE place[c] = "close"
      BY <1>7, <3>4 DEF Unlock, Release
    <3> QED BY <1>7, <3>1, <3>2, <3>3, <3>4 DEF Unlock, Release
  <2>5. OneSigns'
    BY <1>7 DEF Unlock, Release
  <2>6. RecoversOrphans'
    BY <1>7 DEF Unlock, Release
  <2>7. PreparedIsOwn'
    BY <1>7 DEF Unlock, Release
  <2>8. AnnouncedIsComplete'
    BY <1>7 DEF Unlock, Release
  <2>9. ImportsRespectCommands'
    BY <1>7 DEF Unlock, Release
  <2> QED BY <2>1, <2>2, <2>3, <2>4, <2>5, <2>6, <2>7, <2>8, <2>9
<1> QED BY <1>1, <1>2, <1>3, <1>4, <1>5, <1>6, <1>7

\* A client that prepares the home, finishes, asks for its account or gives up.
LEMMA PreparingKeeps ==
  ASSUME HomeConstants, HomeInv, NEW c \in Client,
         WriteConfig(c) \/ Stage(c) \/ Clear(c) \/ Copy(c) \/ Announce(c) \/ Register(c) \/
         Install(c) \/ CheckMarker(c) \/ CheckStored(c) \/ Link(c) \/ Session(c) \/
         Reimport(c) \/ Done(c) \/ Ask(c) \/ Answer(c) \/ Abort(c)
  PROVE  HomeInv'
<1> USE DEF HomeConstants, HomeInv, HomeTypeOK, LockHolds, DatabaseIsHeld, EarlierPlaces,
            DirectoryIsHeld, OneSigns, RecoversOrphans, PreparedIsOwn, AnnouncedIsComplete,
            ImportsRespectCommands, Goto, Alive, Orphaned, MakeLock, lockVars, pluginVars,
            authVars, userVars, Waiting, Staging, Credentials, Working, Releasing, Over,
            NoLock, Nothing, SamePlace, Half, Importing, Process, Plugins, Folders, Places,
            Made, Copied, Sessions, Method, SessionsOK
<1>1. CASE WriteConfig(c)
  <2>1. HomeTypeOK'
    BY <1>1 DEF WriteConfig
  <2>2. DatabaseIsHeld'
    BY <1>1 DEF WriteConfig
  <2>3. EarlierPlaces'
    BY <1>1 DEF WriteConfig
  <2>4. DirectoryIsHeld'
    BY <1>1 DEF WriteConfig
  <2>5. OneSigns'
    BY <1>1 DEF WriteConfig
  <2>6. RecoversOrphans'
    BY <1>1 DEF WriteConfig
  <2>7. PreparedIsOwn'
    BY <1>1 DEF WriteConfig
  <2>8. AnnouncedIsComplete'
    BY <1>1 DEF WriteConfig
  <2>9. ImportsRespectCommands'
    BY <1>1 DEF WriteConfig
  <2> QED BY <2>1, <2>2, <2>3, <2>4, <2>5, <2>6, <2>7, <2>8, <2>9
<1>2. CASE Stage(c)
  <2>1. HomeTypeOK'
    BY <1>2 DEF Stage
  <2>2. DatabaseIsHeld'
    BY <1>2 DEF Stage
  <2>3. EarlierPlaces'
    BY <1>2 DEF Stage
  <2>4. DirectoryIsHeld'
    BY <1>2 DEF Stage
  <2>5. OneSigns'
    BY <1>2 DEF Stage
  <2>6. RecoversOrphans'
    BY <1>2 DEF Stage
  <2>7. PreparedIsOwn'
    BY <1>2 DEF Stage
  <2>8. AnnouncedIsComplete'
    BY <1>2 DEF Stage
  <2>9. ImportsRespectCommands'
    BY <1>2 DEF Stage
  <2> QED BY <2>1, <2>2, <2>3, <2>4, <2>5, <2>6, <2>7, <2>8, <2>9
<1>3. CASE Clear(c)
  <2>1. HomeTypeOK'
    <3>1. (database \in Client \cup {None})'
      BY <1>3 DEF Clear
    <3>2. (folder \in Folders)'
      BY <1>3 DEF Clear
    <3>3. (place \in [Process -> Places])'
      BY <1>3 DEF Clear
    <3>4. (settings \in [of : Client \cup {None}, market : BOOLEAN, plugin : BOOLEAN])'
      BY <1>3 DEF Clear
    <3>5. (staged \in Plugins)'
      <4>1. \/ staged' = staged
            \/ \E v \in {0} \cup {Plugin[i] : i \in Client}, w, a \in BOOLEAN :
                 staged' = Copied(v, w, a)
        <5> HIDE DEF Copied
        <5>1. staged.version \in {0} \cup {Plugin[i] : i \in Client} /\ staged.manifest \in BOOLEAN
          OBVIOUS
        <5>2. CASE \E announced \in {FALSE, staged.manifest} :
                     staged' = Copied(staged.version, FALSE, announced)
          <6>1. PICK announced \in {FALSE, staged.manifest} :
                       staged' = Copied(staged.version, FALSE, announced)
            BY ONLY <5>2
          <6>2. announced \in BOOLEAN
            BY ONLY <5>1
          <6> QED BY ONLY <5>1, <6>1, <6>2
        <5> QED BY <1>3, <5>2 DEF Clear
      <4> QED BY ONLY <4>1, StagedTyped, HomeTypeOK
    <3>6. (installed \in Plugins)'
      BY <1>3 DEF Clear
    <3>7. (auth \in {"none", "ambient", "login"})'
      BY <1>3 DEF Clear
    <3>8. (command \in {"none", "login", "logout"} /\ commands \in 0 .. MaxCommands)'
      BY <1>3 DEF Clear
    <3>9. (marker \in BOOLEAN /\ cut \in BOOLEAN /\ raced \in BOOLEAN /\ returned \in BOOLEAN /\
             signedIn \in BOOLEAN)'
      BY <1>3 DEF Clear
    <3>10. SessionsOK'
      BY <1>3 DEF Clear
    <3> QED BY ONLY <3>1, <3>2, <3>3, <3>4, <3>5, <3>6, <3>7, <3>8, <3>9, <3>10 DEF HomeTypeOK
  <2>2. DatabaseIsHeld'
    BY <1>3 DEF Clear
  <2>3. EarlierPlaces'
    BY <1>3 DEF Clear
  <2>4. DirectoryIsHeld'
    BY <1>3 DEF Clear
  <2>5. OneSigns'
    BY <1>3 DEF Clear
  <2>6. RecoversOrphans'
    BY <1>3 DEF Clear
  <2>7. PreparedIsOwn'
    BY <1>3 DEF Clear
  <2>8. AnnouncedIsComplete'
    BY <1>3 DEF Clear
  <2>9. ImportsRespectCommands'
    BY <1>3 DEF Clear
  <2> QED BY <2>1, <2>2, <2>3, <2>4, <2>5, <2>6, <2>7, <2>8, <2>9
<1>4. CASE Copy(c)
  <2>1. HomeTypeOK'
    <3>1. (database \in Client \cup {None})'
      BY <1>4 DEF Copy
    <3>2. (folder \in Folders)'
      BY <1>4 DEF Copy
    <3>3. (place \in [Process -> Places])'
      BY <1>4 DEF Copy
    <3>4. (settings \in [of : Client \cup {None}, market : BOOLEAN, plugin : BOOLEAN])'
      BY <1>4 DEF Copy
    <3>5. (staged \in Plugins)'
      <4>1. \/ staged' = staged
            \/ \E v \in {0} \cup {Plugin[i] : i \in Client}, w, a \in BOOLEAN :
                 staged' = Copied(v, w, a)
        <5>1. Plugin[c] \in {0} \cup {Plugin[i] : i \in Client}
          OBVIOUS
        <5> HIDE DEF Copied
        <5>2. staged' = Copied(Plugin[c], FALSE, FALSE) \/ staged' = Copied(Plugin[c], TRUE, FALSE)
          BY <1>4 DEF Copy
        <5> QED BY ONLY <5>1, <5>2
      <4> QED BY ONLY <4>1, StagedTyped, HomeTypeOK
    <3>6. (installed \in Plugins)'
      BY <1>4 DEF Copy
    <3>7. (auth \in {"none", "ambient", "login"})'
      BY <1>4 DEF Copy
    <3>8. (command \in {"none", "login", "logout"} /\ commands \in 0 .. MaxCommands)'
      BY <1>4 DEF Copy
    <3>9. (marker \in BOOLEAN /\ cut \in BOOLEAN /\ raced \in BOOLEAN /\ returned \in BOOLEAN /\
             signedIn \in BOOLEAN)'
      BY <1>4 DEF Copy
    <3>10. SessionsOK'
      BY <1>4 DEF Copy
    <3> QED BY ONLY <3>1, <3>2, <3>3, <3>4, <3>5, <3>6, <3>7, <3>8, <3>9, <3>10 DEF HomeTypeOK
  <2>2. DatabaseIsHeld'
    BY <1>4 DEF Copy
  <2>3. EarlierPlaces'
    BY <1>4 DEF Copy
  <2>4. DirectoryIsHeld'
    BY <1>4 DEF Copy
  <2>5. OneSigns'
    BY <1>4 DEF Copy
  <2>6. RecoversOrphans'
    BY <1>4 DEF Copy
  <2>7. PreparedIsOwn'
    BY <1>4 DEF Copy
  <2>8. AnnouncedIsComplete'
    BY <1>4 DEF Copy
  <2>9. ImportsRespectCommands'
    BY <1>4 DEF Copy
  <2> QED BY <2>1, <2>2, <2>3, <2>4, <2>5, <2>6, <2>7, <2>8, <2>9
<1>5. CASE Announce(c)
  <2>1. HomeTypeOK'
    <3>1. (database \in Client \cup {None})'
      BY <1>5 DEF Announce
    <3>2. (folder \in Folders)'
      BY <1>5 DEF Announce
    <3>3. (place \in [Process -> Places])'
      BY <1>5 DEF Announce
    <3>4. (settings \in [of : Client \cup {None}, market : BOOLEAN, plugin : BOOLEAN])'
      BY <1>5 DEF Announce
    <3>5. (staged \in Plugins)'
      BY <1>5 DEF Announce
    <3>6. (installed \in Plugins)'
      BY <1>5 DEF Announce
    <3>7. (auth \in {"none", "ambient", "login"})'
      BY <1>5 DEF Announce
    <3>8. (command \in {"none", "login", "logout"} /\ commands \in 0 .. MaxCommands)'
      BY <1>5 DEF Announce
    <3>9. (marker \in BOOLEAN /\ cut \in BOOLEAN /\ raced \in BOOLEAN /\ returned \in BOOLEAN /\
             signedIn \in BOOLEAN)'
      BY <1>5 DEF Announce
    <3>10. SessionsOK'
      BY <1>5 DEF Announce
    <3> QED BY ONLY <3>1, <3>2, <3>3, <3>4, <3>5, <3>6, <3>7, <3>8, <3>9, <3>10 DEF HomeTypeOK
  <2>2. DatabaseIsHeld'
    BY <1>5 DEF Announce
  <2>3. EarlierPlaces'
    BY <1>5 DEF Announce
  <2>4. DirectoryIsHeld'
    BY <1>5 DEF Announce
  <2>5. OneSigns'
    BY <1>5 DEF Announce
  <2>6. RecoversOrphans'
    BY <1>5 DEF Announce
  <2>7. PreparedIsOwn'
    BY <1>5 DEF Announce
  <2>8. AnnouncedIsComplete'
    BY <1>5 DEF Announce
  <2>9. ImportsRespectCommands'
    BY <1>5 DEF Announce
  <2> QED BY <2>1, <2>2, <2>3, <2>4, <2>5, <2>6, <2>7, <2>8, <2>9
<1>6. CASE Register(c)
  <2>1. HomeTypeOK'
    <3>1. (database \in Client \cup {None})'
      BY <1>6 DEF Register
    <3>2. (folder \in Folders)'
      BY <1>6 DEF Register
    <3>3. (place \in [Process -> Places])'
      BY <1>6 DEF Register
    <3>4. (settings \in [of : Client \cup {None}, market : BOOLEAN, plugin : BOOLEAN])'
      <4>1. [settings EXCEPT !.market = TRUE] \in
              [of : Client \cup {None}, market : BOOLEAN, plugin : BOOLEAN]
        OBVIOUS
      <4>2. [settings EXCEPT !.plugin = TRUE] \in
              [of : Client \cup {None}, market : BOOLEAN, plugin : BOOLEAN]
        OBVIOUS
      <4> QED BY <1>6, <4>1, <4>2 DEF Register
    <3>5. (staged \in Plugins)'
      BY <1>6 DEF Register
    <3>6. (installed \in Plugins)'
      BY <1>6 DEF Register
    <3>7. (auth \in {"none", "ambient", "login"})'
      BY <1>6 DEF Register
    <3>8. (command \in {"none", "login", "logout"} /\ commands \in 0 .. MaxCommands)'
      BY <1>6 DEF Register
    <3>9. (marker \in BOOLEAN /\ cut \in BOOLEAN /\ raced \in BOOLEAN /\ returned \in BOOLEAN /\
             signedIn \in BOOLEAN)'
      BY <1>6 DEF Register
    <3>10. SessionsOK'
      BY <1>6 DEF Register
    <3> QED BY ONLY <3>1, <3>2, <3>3, <3>4, <3>5, <3>6, <3>7, <3>8, <3>9, <3>10 DEF HomeTypeOK
  <2>2. DatabaseIsHeld'
    BY <1>6 DEF Register
  <2>3. EarlierPlaces'
    BY <1>6 DEF Register
  <2>4. DirectoryIsHeld'
    BY <1>6 DEF Register
  <2>5. OneSigns'
    BY <1>6 DEF Register
  <2>6. RecoversOrphans'
    BY <1>6 DEF Register
  <2>7. PreparedIsOwn'
    BY <1>6 DEF Register
  <2>8. AnnouncedIsComplete'
    BY <1>6 DEF Register
  <2>9. ImportsRespectCommands'
    BY <1>6 DEF Register
  <2> QED BY <2>1, <2>2, <2>3, <2>4, <2>5, <2>6, <2>7, <2>8, <2>9
<1>7. CASE Install(c)
  <2>1. HomeTypeOK'
    <3>1. (database \in Client \cup {None})'
      BY <1>7 DEF Install
    <3>2. (folder \in Folders)'
      BY <1>7 DEF Install
    <3>3. (place \in [Process -> Places])'
      <4>1. place' = place \/ \E there \in Places : place' = [place EXCEPT ![c] = there]
        BY <1>7 DEF Install
      <4>2. c \in Process
        OBVIOUS
      <4> QED BY ONLY <4>1, <4>2, PlaceTyped, HomeTypeOK
    <3>4. (settings \in [of : Client \cup {None}, market : BOOLEAN, plugin : BOOLEAN])'
      <4>1. [settings EXCEPT !.market = TRUE] \in
              [of : Client \cup {None}, market : BOOLEAN, plugin : BOOLEAN]
        OBVIOUS
      <4>2. [settings EXCEPT !.plugin = TRUE] \in
              [of : Client \cup {None}, market : BOOLEAN, plugin : BOOLEAN]
        OBVIOUS
      <4> QED BY <1>7, <4>1, <4>2 DEF Install
    <3>5. (staged \in Plugins)'
      BY <1>7 DEF Install
    <3>6. (installed \in Plugins)'
      BY <1>7 DEF Install
    <3>7. (auth \in {"none", "ambient", "login"})'
      BY <1>7 DEF Install
    <3>8. (command \in {"none", "login", "logout"} /\ commands \in 0 .. MaxCommands)'
      BY <1>7 DEF Install
    <3>9. (marker \in BOOLEAN /\ cut \in BOOLEAN /\ raced \in BOOLEAN /\ returned \in BOOLEAN /\
             signedIn \in BOOLEAN)'
      BY <1>7 DEF Install
    <3>10. SessionsOK'
      BY <1>7 DEF Install
    <3> QED BY ONLY <3>1, <3>2, <3>3, <3>4, <3>5, <3>6, <3>7, <3>8, <3>9, <3>10 DEF HomeTypeOK
  <2>2. DatabaseIsHeld'
    BY <1>7 DEF Install
  <2>3. EarlierPlaces'
    BY <1>7 DEF Install
  <2>4. DirectoryIsHeld'
    BY <1>7 DEF Install
  <2>5. OneSigns'
    BY <1>7 DEF Install
  <2>6. RecoversOrphans'
    BY <1>7 DEF Install
  <2>7. PreparedIsOwn'
    BY <1>7 DEF Install
  <2>8. AnnouncedIsComplete'
    BY <1>7 DEF Install
  <2>9. ImportsRespectCommands'
    BY <1>7 DEF Install
  <2> QED BY <2>1, <2>2, <2>3, <2>4, <2>5, <2>6, <2>7, <2>8, <2>9
<1>8. CASE CheckMarker(c)
  <2>1. HomeTypeOK'
    <3>1. (database \in Client \cup {None})'
      BY <1>8 DEF CheckMarker, Prepared
    <3>2. (folder \in Folders)'
      BY <1>8 DEF CheckMarker, Prepared
    <3>3. (place \in [Process -> Places])'
      <4>1. \E there \in Places : place' = [place EXCEPT ![c] = there]
        BY <1>8 DEF CheckMarker, Prepared
      <4>2. c \in Process
        OBVIOUS
      <4> QED BY ONLY <4>1, <4>2, PlaceTyped, HomeTypeOK
    <3>4. (settings \in [of : Client \cup {None}, market : BOOLEAN, plugin : BOOLEAN])'
      BY <1>8 DEF CheckMarker, Prepared
    <3>5. (staged \in Plugins)'
      BY <1>8 DEF CheckMarker, Prepared
    <3>6. (installed \in Plugins)'
      BY <1>8 DEF CheckMarker, Prepared
    <3>7. (auth \in {"none", "ambient", "login"})'
      BY <1>8 DEF CheckMarker, Prepared
    <3>8. (command \in {"none", "login", "logout"} /\ commands \in 0 .. MaxCommands)'
      BY <1>8 DEF CheckMarker, Prepared
    <3>9. (marker \in BOOLEAN /\ cut \in BOOLEAN /\ raced \in BOOLEAN /\ returned \in BOOLEAN /\
             signedIn \in BOOLEAN)'
      BY <1>8 DEF CheckMarker, Prepared
    <3>10. SessionsOK'
      <4>1. session' = session \/ Prepared(c)
        BY <1>8 DEF CheckMarker
      <4> QED BY ONLY <4>1, PreparedTyped, HomeTypeOK, HomeConstants
    <3> QED BY ONLY <3>1, <3>2, <3>3, <3>4, <3>5, <3>6, <3>7, <3>8, <3>9, <3>10 DEF HomeTypeOK
  <2>2. DatabaseIsHeld'
    BY <1>8 DEF CheckMarker, Prepared
  <2>3. EarlierPlaces'
    BY <1>8 DEF CheckMarker, Prepared
  <2>4. DirectoryIsHeld'
    BY <1>8 DEF CheckMarker, Prepared
  <2>5. OneSigns'
    BY <1>8 DEF CheckMarker, Prepared
  <2>6. RecoversOrphans'
    BY <1>8 DEF CheckMarker, Prepared
  <2>7. PreparedIsOwn'
    BY <1>8 DEF CheckMarker, Prepared
  <2>8. AnnouncedIsComplete'
    BY <1>8 DEF CheckMarker, Prepared
  <2>9. ImportsRespectCommands'
    BY <1>8 DEF CheckMarker, Prepared
  <2> QED BY <2>1, <2>2, <2>3, <2>4, <2>5, <2>6, <2>7, <2>8, <2>9
<1>9. CASE CheckStored(c)
  <2>1. HomeTypeOK'
    <3>1. (database \in Client \cup {None})'
      BY <1>9 DEF CheckStored, Prepared
    <3>2. (folder \in Folders)'
      BY <1>9 DEF CheckStored, Prepared
    <3>3. (place \in [Process -> Places])'
      <4>1. \E there \in Places : place' = [place EXCEPT ![c] = there]
        BY <1>9 DEF CheckStored, Prepared
      <4>2. c \in Process
        OBVIOUS
      <4> QED BY ONLY <4>1, <4>2, PlaceTyped, HomeTypeOK
    <3>4. (settings \in [of : Client \cup {None}, market : BOOLEAN, plugin : BOOLEAN])'
      BY <1>9 DEF CheckStored, Prepared
    <3>5. (staged \in Plugins)'
      BY <1>9 DEF CheckStored, Prepared
    <3>6. (installed \in Plugins)'
      BY <1>9 DEF CheckStored, Prepared
    <3>7. (auth \in {"none", "ambient", "login"})'
      BY <1>9 DEF CheckStored, Prepared
    <3>8. (command \in {"none", "login", "logout"} /\ commands \in 0 .. MaxCommands)'
      BY <1>9 DEF CheckStored, Prepared
    <3>9. (marker \in BOOLEAN /\ cut \in BOOLEAN /\ raced \in BOOLEAN /\ returned \in BOOLEAN /\
             signedIn \in BOOLEAN)'
      BY <1>9 DEF CheckStored, Prepared
    <3>10. SessionsOK'
      <4>1. session' = session \/ Prepared(c)
        BY <1>9 DEF CheckStored
      <4> QED BY ONLY <4>1, PreparedTyped, HomeTypeOK, HomeConstants
    <3> QED BY ONLY <3>1, <3>2, <3>3, <3>4, <3>5, <3>6, <3>7, <3>8, <3>9, <3>10 DEF HomeTypeOK
  <2>2. DatabaseIsHeld'
    BY <1>9 DEF CheckStored, Prepared
  <2>3. EarlierPlaces'
    BY <1>9 DEF CheckStored, Prepared
  <2>4. DirectoryIsHeld'
    BY <1>9 DEF CheckStored, Prepared
  <2>5. OneSigns'
    BY <1>9 DEF CheckStored, Prepared
  <2>6. RecoversOrphans'
    BY <1>9 DEF CheckStored, Prepared
  <2>7. PreparedIsOwn'
    BY <1>9 DEF CheckStored, Prepared
  <2>8. AnnouncedIsComplete'
    BY <1>9 DEF CheckStored, Prepared
  <2>9. ImportsRespectCommands'
    BY <1>9 DEF CheckStored, Prepared
  <2> QED BY <2>1, <2>2, <2>3, <2>4, <2>5, <2>6, <2>7, <2>8, <2>9
<1>10. CASE Link(c)
  <2>1. HomeTypeOK'
    <3>1. (database \in Client \cup {None})'
      BY <1>10 DEF Link, Prepared, Import
    <3>2. (folder \in Folders)'
      BY <1>10 DEF Link, Prepared, Import
    <3>3. (place \in [Process -> Places])'
      <4>1. \E there \in Places : place' = [place EXCEPT ![c] = there]
        BY <1>10 DEF Link, Prepared, Import
      <4>2. c \in Process
        OBVIOUS
      <4> QED BY ONLY <4>1, <4>2, PlaceTyped, HomeTypeOK
    <3>4. (settings \in [of : Client \cup {None}, market : BOOLEAN, plugin : BOOLEAN])'
      BY <1>10 DEF Link, Prepared, Import
    <3>5. (staged \in Plugins)'
      BY <1>10 DEF Link, Prepared, Import
    <3>6. (installed \in Plugins)'
      BY <1>10 DEF Link, Prepared, Import
    <3>7. (auth \in {"none", "ambient", "login"})'
      BY <1>10 DEF Link, Prepared, Import
    <3>8. (command \in {"none", "login", "logout"} /\ commands \in 0 .. MaxCommands)'
      BY <1>10 DEF Link, Prepared, Import
    <3>9. (marker \in BOOLEAN /\ cut \in BOOLEAN /\ raced \in BOOLEAN /\ returned \in BOOLEAN /\
             signedIn \in BOOLEAN)'
      BY <1>10 DEF Link, Prepared, Import
    <3>10. SessionsOK'
      <4>1. session' = session \/ Prepared(c)
        BY <1>10 DEF Link
      <4> QED BY ONLY <4>1, PreparedTyped, HomeTypeOK, HomeConstants
    <3> QED BY ONLY <3>1, <3>2, <3>3, <3>4, <3>5, <3>6, <3>7, <3>8, <3>9, <3>10 DEF HomeTypeOK
  <2>2. DatabaseIsHeld'
    BY <1>10 DEF Link, Prepared, Import
  <2>3. EarlierPlaces'
    BY <1>10 DEF Link, Prepared, Import
  <2>4. DirectoryIsHeld'
    BY <1>10 DEF Link, Prepared, Import
  <2>5. OneSigns'
    BY <1>10 DEF Link, Prepared, Import
  <2>6. RecoversOrphans'
    BY <1>10 DEF Link, Prepared, Import
  <2>7. PreparedIsOwn'
    BY <1>10 DEF Link, Prepared, Import
  <2>8. AnnouncedIsComplete'
    BY <1>10 DEF Link, Prepared, Import
  <2>9. ImportsRespectCommands'
    BY <1>10 DEF Link, Prepared, Import
  <2> QED BY <2>1, <2>2, <2>3, <2>4, <2>5, <2>6, <2>7, <2>8, <2>9
<1>11. CASE Done(c)
  <2>1. HomeTypeOK'
    <3>1. (database \in Client \cup {None})'
      BY <1>11 DEF Done
    <3>2. (folder \in Folders)'
      BY <1>11 DEF Done
    <3>3. (place \in [Process -> Places])'
      <4>1. \E there \in Places : place' = [place EXCEPT ![c] = there]
        BY <1>11 DEF Done
      <4>2. c \in Process
        OBVIOUS
      <4> QED BY ONLY <4>1, <4>2, PlaceTyped, HomeTypeOK
    <3>4. (settings \in [of : Client \cup {None}, market : BOOLEAN, plugin : BOOLEAN])'
      BY <1>11 DEF Done
    <3>5. (staged \in Plugins)'
      BY <1>11 DEF Done
    <3>6. (installed \in Plugins)'
      BY <1>11 DEF Done
    <3>7. (auth \in {"none", "ambient", "login"})'
      BY <1>11 DEF Done
    <3>8. (command \in {"none", "login", "logout"} /\ commands \in 0 .. MaxCommands)'
      BY <1>11 DEF Done
    <3>9. (marker \in BOOLEAN /\ cut \in BOOLEAN /\ raced \in BOOLEAN /\ returned \in BOOLEAN /\
             signedIn \in BOOLEAN)'
      BY <1>11 DEF Done
    <3>10. SessionsOK'
      <4> DEFINE t == [session[c] EXCEPT !.source =
                        IF session[c].method = "api_key" THEN "api_key" ELSE @]
      <4>1. t \in Sessions /\ t.scans <= MaxScans[c]
        OBVIOUS
      <4>2. session' = session \/ session' = [session EXCEPT ![c] = t]
        BY <1>11 DEF Done
      <4> QED BY ONLY <4>1, <4>2, SessionTyped, HomeTypeOK, HomeConstants DEF HomeConstants
    <3> QED BY ONLY <3>1, <3>2, <3>3, <3>4, <3>5, <3>6, <3>7, <3>8, <3>9, <3>10 DEF HomeTypeOK
  <2>2. DatabaseIsHeld'
    BY <1>11 DEF Done
  <2>3. EarlierPlaces'
    BY <1>11 DEF Done
  <2>4. DirectoryIsHeld'
    BY <1>11 DEF Done
  <2>5. OneSigns'
    BY <1>11 DEF Done
  <2>6. RecoversOrphans'
    BY <1>11 DEF Done
  <2>7. PreparedIsOwn'
    BY <1>11 DEF Done
  <2>8. AnnouncedIsComplete'
    BY <1>11 DEF Done
  <2>9. ImportsRespectCommands'
    BY <1>11 DEF Done
  <2> QED BY <2>1, <2>2, <2>3, <2>4, <2>5, <2>6, <2>7, <2>8, <2>9
<1>12. CASE Abort(c)
  <2>1. HomeTypeOK'
    <3>1. (database \in Client \cup {None})'
      BY <1>12 DEF Abort
    <3>2. (folder \in Folders)'
      BY <1>12 DEF Abort
    <3>3. (place \in [Process -> Places])'
      BY <1>12 DEF Abort
    <3>4. (settings \in [of : Client \cup {None}, market : BOOLEAN, plugin : BOOLEAN])'
      BY <1>12 DEF Abort
    <3>5. (staged \in Plugins)'
      <4>1. \/ staged' = staged
            \/ \E v \in {0} \cup {Plugin[i] : i \in Client}, w, a \in BOOLEAN :
                 staged' = Copied(v, w, a)
        BY <1>12 DEF Abort
      <4> QED BY ONLY <4>1, StagedTyped, HomeTypeOK
    <3>6. (installed \in Plugins)'
      BY <1>12 DEF Abort
    <3>7. (auth \in {"none", "ambient", "login"})'
      BY <1>12 DEF Abort
    <3>8. (command \in {"none", "login", "logout"} /\ commands \in 0 .. MaxCommands)'
      BY <1>12 DEF Abort
    <3>9. (marker \in BOOLEAN /\ cut \in BOOLEAN /\ raced \in BOOLEAN /\ returned \in BOOLEAN /\
             signedIn \in BOOLEAN)'
      BY <1>12 DEF Abort
    <3>10. SessionsOK'
      BY <1>12 DEF Abort
    <3> QED BY ONLY <3>1, <3>2, <3>3, <3>4, <3>5, <3>6, <3>7, <3>8, <3>9, <3>10 DEF HomeTypeOK
  <2>2. DatabaseIsHeld'
    BY <1>12 DEF Abort
  <2>3. EarlierPlaces'
    BY <1>12 DEF Abort
  <2>4. DirectoryIsHeld'
    BY <1>12 DEF Abort
  <2>5. OneSigns'
    BY <1>12 DEF Abort
  <2>6. RecoversOrphans'
    BY <1>12 DEF Abort
  <2>7. PreparedIsOwn'
    BY <1>12 DEF Abort
  <2>8. AnnouncedIsComplete'
    BY <1>12 DEF Abort
  <2>9. ImportsRespectCommands'
    BY <1>12 DEF Abort
  <2> QED BY <2>1, <2>2, <2>3, <2>4, <2>5, <2>6, <2>7, <2>8, <2>9
<1>13. CASE Session(c)
  <2>1. HomeTypeOK'
    BY <1>13 DEF Session, GoesBack
  <2>2. DatabaseIsHeld'
    BY <1>13 DEF Session, GoesBack
  <2>3. EarlierPlaces'
    BY <1>13 DEF Session, GoesBack
  <2>4. DirectoryIsHeld'
    BY <1>13 DEF Session, GoesBack
  <2>5. OneSigns'
    BY <1>13 DEF Session, GoesBack
  <2>6. RecoversOrphans'
    BY <1>13 DEF Session, GoesBack
  <2>7. PreparedIsOwn'
    BY <1>13 DEF Session, GoesBack
  <2>8. AnnouncedIsComplete'
    BY <1>13 DEF Session, GoesBack
  <2>9. ImportsRespectCommands'
    BY <1>13 DEF Session, GoesBack
  <2> QED BY <2>1, <2>2, <2>3, <2>4, <2>5, <2>6, <2>7, <2>8, <2>9
<1>14. CASE Reimport(c)
  <2>1. HomeTypeOK'
    BY <1>14 DEF Reimport, Import
  <2>2. DatabaseIsHeld'
    BY <1>14 DEF Reimport, Import
  <2>3. EarlierPlaces'
    BY <1>14 DEF Reimport, Import
  <2>4. DirectoryIsHeld'
    BY <1>14 DEF Reimport, Import
  <2>5. OneSigns'
    BY <1>14 DEF Reimport, Import
  <2>6. RecoversOrphans'
    BY <1>14 DEF Reimport, Import
  <2>7. PreparedIsOwn'
    BY <1>14 DEF Reimport, Import
  <2>8. AnnouncedIsComplete'
    BY <1>14 DEF Reimport, Import
  <2>9. ImportsRespectCommands'
    BY <1>14 DEF Reimport, Import
  <2> QED BY <2>1, <2>2, <2>3, <2>4, <2>5, <2>6, <2>7, <2>8, <2>9
<1>15. CASE Ask(c)
  <2>1. HomeTypeOK'
    BY <1>15 DEF Ask
  <2>2. DatabaseIsHeld'
    BY <1>15 DEF Ask
  <2>3. EarlierPlaces'
    BY <1>15 DEF Ask
  <2>4. DirectoryIsHeld'
    BY <1>15 DEF Ask
  <2>5. OneSigns'
    BY <1>15 DEF Ask
  <2>6. RecoversOrphans'
    BY <1>15 DEF Ask
  <2>7. PreparedIsOwn'
    BY <1>15 DEF Ask
  <2>8. AnnouncedIsComplete'
    BY <1>15 DEF Ask
  <2>9. ImportsRespectCommands'
    BY <1>15 DEF Ask
  <2> QED BY <2>1, <2>2, <2>3, <2>4, <2>5, <2>6, <2>7, <2>8, <2>9
<1>16. CASE Answer(c)
  <2>1. HomeTypeOK'
    BY <1>16 DEF Answer, Import
  <2>2. DatabaseIsHeld'
    BY <1>16 DEF Answer, Import
  <2>3. EarlierPlaces'
    BY <1>16 DEF Answer, Import
  <2>4. DirectoryIsHeld'
    BY <1>16 DEF Answer, Import
  <2>5. OneSigns'
    BY <1>16 DEF Answer, Import
  <2>6. RecoversOrphans'
    BY <1>16 DEF Answer, Import
  <2>7. PreparedIsOwn'
    BY <1>16 DEF Answer, Import
  <2>8. AnnouncedIsComplete'
    BY <1>16 DEF Answer, Import
  <2>9. ImportsRespectCommands'
    BY <1>16 DEF Answer, Import
  <2> QED BY <2>1, <2>2, <2>3, <2>4, <2>5, <2>6, <2>7, <2>8, <2>9
<1> QED BY <1>1, <1>2, <1>3, <1>4, <1>5, <1>6, <1>7, <1>8, <1>9, <1>10, <1>11, <1>12, <1>13,
          <1>14, <1>15, <1>16

\* A client of an earlier release.
LEMMA OthersKeep ==
  ASSUME HomeConstants, HomeInv, NEW r \in Released,
         ReleasedStep(r)
  PROVE  HomeInv'
<1> USE DEF HomeConstants, HomeInv, HomeTypeOK, LockHolds, DatabaseIsHeld, EarlierPlaces,
            DirectoryIsHeld, OneSigns, RecoversOrphans, PreparedIsOwn, AnnouncedIsComplete,
            ImportsRespectCommands, Goto, Alive, Orphaned, MakeLock, lockVars, pluginVars,
            authVars, userVars, Waiting, Staging, Credentials, Working, Releasing, Over,
            NoLock, Nothing, SamePlace, Half, Importing, Process, Plugins, Folders, Places,
            Made, Copied, Sessions, Method, SessionsOK
<1>1. CASE ReleasedStep(r)
  <2>1. HomeTypeOK'
    <3>1. (database \in Client \cup {None})'
      BY <1>1 DEF ReleasedStep
    <3>2. (folder \in Folders)'
      <4>1. \/ folder' = folder \/ folder' = NoLock
            \/ \E p \in Process \cup {None} : folder' = Made(p)
        BY <1>1 DEF ReleasedStep
      <4> QED BY ONLY <4>1, FolderTyped, HomeTypeOK
    <3>3. (place \in [Process -> Places])'
      BY <1>1 DEF ReleasedStep
    <3>4. (settings \in [of : Client \cup {None}, market : BOOLEAN, plugin : BOOLEAN])'
      BY <1>1 DEF ReleasedStep
    <3>5. (staged \in Plugins)'
      BY <1>1 DEF ReleasedStep
    <3>6. (installed \in Plugins)'
      BY <1>1 DEF ReleasedStep
    <3>7. (auth \in {"none", "ambient", "login"})'
      BY <1>1 DEF ReleasedStep
    <3>8. (command \in {"none", "login", "logout"} /\ commands \in 0 .. MaxCommands)'
      BY <1>1 DEF ReleasedStep
    <3>9. (marker \in BOOLEAN /\ cut \in BOOLEAN /\ raced \in BOOLEAN /\ returned \in BOOLEAN /\
             signedIn \in BOOLEAN)'
      BY <1>1 DEF ReleasedStep
    <3>10. SessionsOK'
      BY <1>1 DEF ReleasedStep
    <3> QED BY ONLY <3>1, <3>2, <3>3, <3>4, <3>5, <3>6, <3>7, <3>8, <3>9, <3>10 DEF HomeTypeOK
  <2>2. DatabaseIsHeld'
    BY <1>1 DEF ReleasedStep
  <2>3. EarlierPlaces'
    BY <1>1 DEF ReleasedStep
  <2>4. DirectoryIsHeld'
    <3>1. CASE place[r] = "idle"
      BY <1>1, <3>1 DEF ReleasedStep
    <3>2. CASE place[r] = "sign"
      BY <1>1, <3>2 DEF ReleasedStep
    <3>3. CASE place[r] = "ready"
      BY <1>1, <3>3 DEF ReleasedStep
    <3>4. CASE place[r] = "rmdir"
      BY <1>1, <3>4 DEF ReleasedStep
    <3> QED BY <1>1, <3>1, <3>2, <3>3, <3>4 DEF ReleasedStep
  <2>5. OneSigns'
    BY <1>1 DEF ReleasedStep
  <2>6. RecoversOrphans'
    BY <1>1 DEF ReleasedStep
  <2>7. PreparedIsOwn'
    BY <1>1 DEF ReleasedStep
  <2>8. AnnouncedIsComplete'
    BY <1>1 DEF ReleasedStep
  <2>9. ImportsRespectCommands'
    BY <1>1 DEF ReleasedStep
  <2> QED BY <2>1, <2>2, <2>3, <2>4, <2>5, <2>6, <2>7, <2>8, <2>9
<1> QED BY <1>1

\* A process that dies wherever it is.
LEMMA DeathKeeps ==
  ASSUME HomeConstants, HomeInv, NEW p \in Process,
         Die(p)
  PROVE  HomeInv'
<1> USE DEF HomeConstants, HomeInv, HomeTypeOK, LockHolds, DatabaseIsHeld, EarlierPlaces,
            DirectoryIsHeld, OneSigns, RecoversOrphans, PreparedIsOwn, AnnouncedIsComplete,
            ImportsRespectCommands, Goto, Alive, Orphaned, MakeLock, lockVars, pluginVars,
            authVars, userVars, Waiting, Staging, Credentials, Working, Releasing, Over,
            NoLock, Nothing, SamePlace, Half, Importing, Process, Plugins, Folders, Places,
            Made, Copied, Sessions, Method, SessionsOK
<1>1. CASE Die(p)
  <2>1. HomeTypeOK'
    BY <1>1 DEF Die
  <2>2. DatabaseIsHeld'
    BY <1>1 DEF Die
  <2>3. EarlierPlaces'
    BY <1>1 DEF Die
  <2>4. DirectoryIsHeld'
    BY <1>1 DEF Die
  <2>5. OneSigns'
    BY <1>1 DEF Die
  <2>6. RecoversOrphans'
    BY <1>1 DEF Die
  <2>7. PreparedIsOwn'
    BY <1>1 DEF Die
  <2>8. AnnouncedIsComplete'
    BY <1>1 DEF Die
  <2>9. ImportsRespectCommands'
    BY <1>1 DEF Die
  <2> QED BY <2>1, <2>2, <2>3, <2>4, <2>5, <2>6, <2>7, <2>8, <2>9
<1> QED BY <1>1

\* Time, and the commands that sign in and out beside the scans.
LEMMA CommandsKeep ==
  ASSUME HomeConstants, HomeInv,
         TimePasses \/ RunCodex \/ RecordCommand \/ CommandDies
  PROVE  HomeInv'
<1> USE DEF HomeConstants, HomeInv, HomeTypeOK, LockHolds, DatabaseIsHeld, EarlierPlaces,
            DirectoryIsHeld, OneSigns, RecoversOrphans, PreparedIsOwn, AnnouncedIsComplete,
            ImportsRespectCommands, Goto, Alive, Orphaned, MakeLock, lockVars, pluginVars,
            authVars, userVars, Waiting, Staging, Credentials, Working, Releasing, Over,
            NoLock, Nothing, SamePlace, Half, Importing, Process, Plugins, Folders, Places,
            Made, Copied, Sessions, Method, SessionsOK
<1>1. CASE TimePasses
  <2>1. HomeTypeOK'
    <3>1. (database \in Client \cup {None})'
      BY <1>1 DEF TimePasses
    <3>2. (folder \in Folders)'
      BY <1>1 DEF TimePasses
    <3>3. (place \in [Process -> Places])'
      BY <1>1 DEF TimePasses
    <3>4. (settings \in [of : Client \cup {None}, market : BOOLEAN, plugin : BOOLEAN])'
      BY <1>1 DEF TimePasses
    <3>5. (staged \in Plugins)'
      BY <1>1 DEF TimePasses
    <3>6. (installed \in Plugins)'
      BY <1>1 DEF TimePasses
    <3>7. (auth \in {"none", "ambient", "login"})'
      BY <1>1 DEF TimePasses
    <3>8. (command \in {"none", "login", "logout"} /\ commands \in 0 .. MaxCommands)'
      BY <1>1 DEF TimePasses
    <3>9. (marker \in BOOLEAN /\ cut \in BOOLEAN /\ raced \in BOOLEAN /\ returned \in BOOLEAN /\
             signedIn \in BOOLEAN)'
      BY <1>1 DEF TimePasses
    <3>10. SessionsOK'
      BY <1>1 DEF TimePasses
    <3> QED BY ONLY <3>1, <3>2, <3>3, <3>4, <3>5, <3>6, <3>7, <3>8, <3>9, <3>10 DEF HomeTypeOK
  <2>2. DatabaseIsHeld'
    BY <1>1 DEF TimePasses
  <2>3. EarlierPlaces'
    BY <1>1 DEF TimePasses
  <2>4. DirectoryIsHeld'
    BY <1>1 DEF TimePasses
  <2>5. OneSigns'
    BY <1>1 DEF TimePasses
  <2>6. RecoversOrphans'
    BY <1>1 DEF TimePasses
  <2>7. PreparedIsOwn'
    BY <1>1 DEF TimePasses
  <2>8. AnnouncedIsComplete'
    BY <1>1 DEF TimePasses
  <2>9. ImportsRespectCommands'
    BY <1>1 DEF TimePasses
  <2> QED BY <2>1, <2>2, <2>3, <2>4, <2>5, <2>6, <2>7, <2>8, <2>9
<1>2. CASE RunCodex
  <2>1. HomeTypeOK'
    <3>1. (database \in Client \cup {None})'
      BY <1>2 DEF RunCodex
    <3>2. (folder \in Folders)'
      BY <1>2 DEF RunCodex
    <3>3. (place \in [Process -> Places])'
      BY <1>2 DEF RunCodex
    <3>4. (settings \in [of : Client \cup {None}, market : BOOLEAN, plugin : BOOLEAN])'
      BY <1>2 DEF RunCodex
    <3>5. (staged \in Plugins)'
      BY <1>2 DEF RunCodex
    <3>6. (installed \in Plugins)'
      BY <1>2 DEF RunCodex
    <3>7. (auth \in {"none", "ambient", "login"})'
      BY <1>2 DEF RunCodex
    <3>8. (command \in {"none", "login", "logout"} /\ commands \in 0 .. MaxCommands)'
      BY <1>2 DEF RunCodex
    <3>9. (marker \in BOOLEAN /\ cut \in BOOLEAN /\ raced \in BOOLEAN /\ returned \in BOOLEAN /\
             signedIn \in BOOLEAN)'
      BY <1>2 DEF RunCodex
    <3>10. SessionsOK'
      BY <1>2 DEF RunCodex
    <3> QED BY ONLY <3>1, <3>2, <3>3, <3>4, <3>5, <3>6, <3>7, <3>8, <3>9, <3>10 DEF HomeTypeOK
  <2>2. DatabaseIsHeld'
    BY <1>2 DEF RunCodex
  <2>3. EarlierPlaces'
    BY <1>2 DEF RunCodex
  <2>4. DirectoryIsHeld'
    BY <1>2 DEF RunCodex
  <2>5. OneSigns'
    BY <1>2 DEF RunCodex
  <2>6. RecoversOrphans'
    BY <1>2 DEF RunCodex
  <2>7. PreparedIsOwn'
    BY <1>2 DEF RunCodex
  <2>8. AnnouncedIsComplete'
    BY <1>2 DEF RunCodex
  <2>9. ImportsRespectCommands'
    BY <1>2 DEF RunCodex
  <2> QED BY <2>1, <2>2, <2>3, <2>4, <2>5, <2>6, <2>7, <2>8, <2>9
<1>3. CASE RecordCommand
  <2>1. HomeTypeOK'
    <3>1. (database \in Client \cup {None})'
      BY <1>3 DEF RecordCommand
    <3>2. (folder \in Folders)'
      BY <1>3 DEF RecordCommand
    <3>3. (place \in [Process -> Places])'
      BY <1>3 DEF RecordCommand
    <3>4. (settings \in [of : Client \cup {None}, market : BOOLEAN, plugin : BOOLEAN])'
      BY <1>3 DEF RecordCommand
    <3>5. (staged \in Plugins)'
      BY <1>3 DEF RecordCommand
    <3>6. (installed \in Plugins)'
      BY <1>3 DEF RecordCommand
    <3>7. (auth \in {"none", "ambient", "login"})'
      BY <1>3 DEF RecordCommand
    <3>8. (command \in {"none", "login", "logout"} /\ commands \in 0 .. MaxCommands)'
      BY <1>3 DEF RecordCommand
    <3>9. (marker \in BOOLEAN /\ cut \in BOOLEAN /\ raced \in BOOLEAN /\ returned \in BOOLEAN /\
             signedIn \in BOOLEAN)'
      BY <1>3 DEF RecordCommand
    <3>10. SessionsOK'
      BY <1>3 DEF RecordCommand
    <3> QED BY ONLY <3>1, <3>2, <3>3, <3>4, <3>5, <3>6, <3>7, <3>8, <3>9, <3>10 DEF HomeTypeOK
  <2>2. DatabaseIsHeld'
    BY <1>3 DEF RecordCommand
  <2>3. EarlierPlaces'
    BY <1>3 DEF RecordCommand
  <2>4. DirectoryIsHeld'
    BY <1>3 DEF RecordCommand
  <2>5. OneSigns'
    BY <1>3 DEF RecordCommand
  <2>6. RecoversOrphans'
    BY <1>3 DEF RecordCommand
  <2>7. PreparedIsOwn'
    BY <1>3 DEF RecordCommand
  <2>8. AnnouncedIsComplete'
    BY <1>3 DEF RecordCommand
  <2>9. ImportsRespectCommands'
    BY <1>3 DEF RecordCommand
  <2> QED BY <2>1, <2>2, <2>3, <2>4, <2>5, <2>6, <2>7, <2>8, <2>9
<1>4. CASE CommandDies
  <2>1. HomeTypeOK'
    BY <1>4 DEF CommandDies
  <2>2. DatabaseIsHeld'
    BY <1>4 DEF CommandDies
  <2>3. EarlierPlaces'
    BY <1>4 DEF CommandDies
  <2>4. DirectoryIsHeld'
    BY <1>4 DEF CommandDies
  <2>5. OneSigns'
    BY <1>4 DEF CommandDies
  <2>6. RecoversOrphans'
    BY <1>4 DEF CommandDies
  <2>7. PreparedIsOwn'
    BY <1>4 DEF CommandDies
  <2>8. AnnouncedIsComplete'
    BY <1>4 DEF CommandDies
  <2>9. ImportsRespectCommands'
    BY <1>4 DEF CommandDies
  <2> QED BY <2>1, <2>2, <2>3, <2>4, <2>5, <2>6, <2>7, <2>8, <2>9
<1> QED BY <1>1, <1>2, <1>3, <1>4

\* A home that nobody has used.
LEMMA HomeStarts == HomeConstants /\ HomeInit => HomeInv
<1> SUFFICES ASSUME HomeConstants, HomeInit PROVE HomeInv
  OBVIOUS
<1> USE DEF HomeConstants, HomeInit, Process, Working, Releasing, Staging, Credentials, Waiting,
            Over, Importing, Copied, Nothing, NoLock
<1>1. HomeTypeOK
  <2>1. place \in [Process -> Places]
    BY DEF Places
  <2>2. folder \in Folders /\ staged \in Plugins /\ installed \in Plugins
    BY DEF Folders, Plugins
  <2>3. settings \in [of : Client \cup {None}, market : BOOLEAN, plugin : BOOLEAN]
    OBVIOUS
  <2>4. /\ marker \in BOOLEAN /\ cut \in BOOLEAN /\ raced \in BOOLEAN /\ returned \in BOOLEAN
        /\ signedIn \in BOOLEAN
    OBVIOUS
  <2>5. SessionsOK
    BY DEF SessionsOK, Sessions, NewSession, Method
  <2> QED BY <2>1, <2>2, <2>3, <2>4, <2>5 DEF HomeTypeOK
<1>2. LockHolds
  BY DEF LockHolds, DatabaseIsHeld, EarlierPlaces, DirectoryIsHeld, OneSigns, RecoversOrphans
<1>3. PreparedIsOwn /\ AnnouncedIsComplete
  BY DEF PreparedIsOwn, AnnouncedIsComplete
<1>4. ImportsRespectCommands
  BY DEF ImportsRespectCommands
<1> QED BY <1>1, <1>2, <1>3, <1>4 DEF HomeInv

LEMMA HomeStutters ==
  ASSUME HomeInv, UNCHANGED homeVars
  PROVE  HomeInv'
BY DEF homeVars, lockVars, pluginVars, authVars, userVars, HomeInv, HomeTypeOK, SessionsOK, Plugins, Folders,
   LockHolds, DatabaseIsHeld, EarlierPlaces, DirectoryIsHeld, OneSigns, RecoversOrphans, Orphaned,
   Alive, PreparedIsOwn, AnnouncedIsComplete, ImportsRespectCommands, Importing

\* However many scans, releases and commands share the home, and wherever they die: the lock
\* has one holder, what was prepared so far is whose it should be, and after a logout nobody
\* imports or is about to, unless an import was under way or a client went back from its API
\* key to stored credentials.
THEOREM HomeInvariant ==
  ASSUME HomeConstants
  PROVE  HomeSpec => []HomeInv
<1>1. HomeInit => HomeInv
  BY HomeStarts
<1>2. ASSUME HomeInv, [HomeNext]_homeVars
      PROVE  HomeInv'
  <2>1. ASSUME NEW c \in Client, Start(c) \/ ClientStep(c) \/ Ask(c) \/ Answer(c) \/ Abort(c)
        PROVE  HomeInv'
    BY <1>2, <2>1, LockStepsKeep, PreparingKeeps DEF ClientStep, Prepare
  <2>2. ASSUME NEW r \in Released, ReleasedStep(r)
        PROVE  HomeInv'
    BY <1>2, <2>2, OthersKeep
  <2>3. ASSUME NEW p \in Process, Die(p)
        PROVE  HomeInv'
    BY <1>2, <2>3, DeathKeeps
  <2>4. CASE TimePasses \/ RunCodex \/ RecordCommand \/ CommandDies
    BY <1>2, <2>4, CommandsKeep
  <2>5. CASE UNCHANGED homeVars
    BY <1>2, <2>5, HomeStutters
  <2> QED BY <1>2, <2>1, <2>2, <2>3, <2>4, <2>5 DEF HomeNext
<1> QED BY <1>1, <1>2, PTL DEF HomeSpec

\* The lock, the places, the plugin and the credentials keep to the values they declare.
THEOREM HomeTypeCorrect ==
  ASSUME HomeConstants
  PROVE  HomeSpec => []HomeTypeOK
<1>1. HomeInv => HomeTypeOK
  BY DEF HomeInv
<1> QED BY <1>1, HomeInvariant, PTL

\* The processes that work in the home are one at most: each has its record in the directory.
LEMMA OneWorks ==
  ASSUME HomeInv
  PROVE  HolderIsAlone
<1> DEFINE W == {p \in Process : place[p] \in Working}
<1>1. \A p, q \in W : p = q
  BY DEF HomeInv, LockHolds, DirectoryIsHeld
<1>2. Cardinality(W) <= 1
  <2>1. CASE W = {}
    BY <2>1, FS_EmptySet
  <2>2. CASE W # {}
    <3>1. PICK p \in W : W = {p}
      BY <1>1, <2>2
    <3> HIDE DEF W
    <3>2. Cardinality(W) = 1
      BY <3>1, FS_Singleton
    <3> QED BY <3>2
  <2> QED BY <2>1, <2>2
<1>3. \A c \in Client : place[c] \in Working => database = c /\ folder.owner = c
  BY DEF HomeInv, LockHolds, DatabaseIsHeld, DirectoryIsHeld, Process
<1> QED BY <1>2, <1>3 DEF HolderIsAlone

\* One process works in the home at a time, a scan that starts finds its own configuration and
\* plugin, a login is replaced by no import, and a logout is followed by none, except for one
\* that was under way and that of a client which goes back from its API key to stored
\* credentials: for any number of clients, of their scans, of earlier releases and of commands.
THEOREM HomesAreShared ==
  ASSUME HomeConstants
  PROVE  HomeSpec => []HomeIsSound
<1>1. HomeInv => HolderIsAlone
  BY OneWorks
<1>2. ASSUME HomeInv PROVE ReadyIsOwn
  <2>1. ASSUME NEW c \in Client, place[c] = "ready"
        PROVE  /\ settings.of = c /\ settings.market /\ settings.plugin
               /\ installed.version = Plugin[c] /\ (cut \/ installed.complete)
    BY <1>2, <2>1 DEF HomeInv, PreparedIsOwn
  <2>2. settings \in [of : Client \cup {None}, market : BOOLEAN, plugin : BOOLEAN]
    BY <1>2 DEF HomeInv, HomeTypeOK
  <2>3. settings = [of |-> settings.of, market |-> settings.market, plugin |-> settings.plugin]
    BY <2>2
  <2>4. ASSUME NEW c \in Client, place[c] = "ready"
        PROVE  settings = [of |-> c, market |-> TRUE, plugin |-> TRUE]
    BY <2>1, <2>2, <2>3, <2>4
  <2> QED BY <2>1, <2>4 DEF ReadyIsOwn
<1>3. HomeInv => CredentialsAreKept
  BY DEF HomeInv, ImportsRespectCommands, CredentialsAreKept
<1>4. HomeInv => HomeIsSound
  BY <1>1, <1>2, <1>3 DEF HomeIsSound
<1> QED BY <1>4, HomeInvariant, PTL
=============================================================================
