------------------------- MODULE DeepScanServerProofs -------------------------
(***************************************************************************)
(* Several servers and one run, for every number of processes and of calls:   *)
(* the lease of a generation belongs to one process, one coordinator of the   *)
(* current generation works, and what a call is told has a cause.             *)
(*                                                                           *)
(* The argument is about tokens.  A process keeps a token of a generation as  *)
(* its lease, as the argument of a claim that it has queued, and as the       *)
(* generation of a coordinator it has started.  All tokens of a generation    *)
(* are in one process, because only a claim that moves the run to a new       *)
(* generation makes one of another kind than there was.  Every other step is  *)
(* quiet: it copies tokens within a process, or drops them.                   *)
(***************************************************************************)
EXTENDS DeepScanServer, SequenceTheorems, TLAPS

\* What the constants are: the bounds are numbers, and an observer is not a call.
ServerConstants ==
    /\ MaxGeneration \in Nat \ {0} /\ MaxCoordinators \in Nat
    /\ Caller \cap Slot = {}

Waiter == Caller \cup Slot

Token(s, g) ==
    \/ leases[s] = g
    \/ \E w \in Waiter : waits[w].server = s /\ waits[w].lease = g
    \/ \E k \in Started : coordinators[k].server = s /\ coordinators[k].generation = g

Granted == Generation \ {0}

\* The tokens of a generation are in one process, and none is of a generation to come.
TokensAreExclusive ==
    /\ run.generation # 0
    /\ \A s, t \in Server, g \in Granted : Token(s, g) /\ Token(t, g) => s = t
    /\ \A s \in Server, g \in Granted : Token(s, g) => g <= run.generation

\* A process holds no lease that is older than its coordinators.
LeasesAreLater ==
    \A k \in Started :
        /\ leases[coordinators[k].server] # 0 =>
              coordinators[k].generation <= leases[coordinators[k].server]
        /\ coordinators[k].lease # 0 =>
              /\ coordinators[k].generation <= coordinators[k].lease
              /\ coordinators[k].lease <= run.generation

\* The registry knows the coordinator of the current generation.
CurrentIsRegistered ==
    /\ \A s \in Server : registry[s] <= Len(coordinators)
    /\ \A k \in Started :
          coordinators[k].pc # "ended" /\ coordinators[k].generation = run.generation
              => registry[coordinators[k].server] = k

\* A claim that is queued has a lease or none, and who waits waits for a coordinator; a
\* coordinator that was not replaced has no observer.
WaitsAreInOrder ==
    /\ \A w \in Waiter :
          /\ waits[w].lease # 0 => waits[w].pc \in {"claiming", "adopting"}
          /\ waits[w].pc \in {"waiting", "canceling", "confirming"} =>
                waits[w].at # 0 /\ waits[w].at <= Len(coordinators)
    /\ \A k \in Slot : waits[k].pc # "idle" => k \in Started /\ coordinators[k].external

\* A cancellation has a cause: the run was stopped, or a coordinator was asked to stop it.
Stopped == run.status \in {"canceled", "failed"}
Asked == \E k \in Started : coordinators[k].canceled

\* What is told, or will be, is an outcome the run had or one that was asked for.
OutcomesHaveCause ==
    /\ run.status = "succeeded" => succeeded
    /\ \A k \in Started :
          /\ coordinators[k].state = "succeeded" => succeeded
          /\ coordinators[k].state = "canceled" => Stopped \/ Asked
    /\ \A w \in Waiter :
          /\ waits[w].answer = "succeeded" => succeeded
          /\ waits[w].answer = "canceled" => Stopped \/ Asked
          /\ waits[w].pc = "confirming" => Stopped

Inv ==
    /\ ServerTypeOK /\ TokensAreExclusive /\ LeasesAreLater /\ CurrentIsRegistered
    /\ WaitsAreInOrder /\ OutcomesHaveCause

\* No call is told of a success that never was, or of a cancellation that nobody asked for.
AnswersHaveCause ==
    \A c \in Caller : waits[c].pc = "answered" =>
        /\ waits[c].answer = "succeeded" => succeeded
        /\ waits[c].answer = "canceled" => Stopped \/ Asked

-----------------------------------------------------------------------------
(* A quiet step, which gives nobody a lease, part by part.                    *)

RunKeeps ==
    /\ run' \in [status : Status, generation : Generation, fresh : BOOLEAN]
    /\ up' \in [Server -> BOOLEAN] /\ succeeded' \in BOOLEAN /\ decidedBy' \in 0 .. MaxCoordinators
    /\ run'.generation = run.generation
    /\ succeeded => succeeded'
    /\ run'.status = "succeeded" => succeeded'
    /\ Stopped => Stopped'

LeasesKeep ==
    /\ leases' \in [Server -> Generation]
    /\ \A s \in Server : leases'[s] \in {leases[s], 0}

RegistryKeeps ==
    /\ registry' \in [Server -> 0 .. MaxCoordinators]
    /\ \A s \in Server : registry'[s] \in {registry[s], 0}

\* Coordinator k goes on as r.
RecordKeeps(k, r) ==
    /\ r \in Coordinator
    /\ r.server = coordinators[k].server /\ r.generation = coordinators[k].generation
    /\ r.lease \in {coordinators[k].lease, leases[coordinators[k].server], 0}
    /\ coordinators[k].pc = "ended" => r.pc = "ended"
    /\ coordinators[k].external => r.external
    /\ coordinators[k].canceled => r.canceled
    /\ r.state = "succeeded" => succeeded'
    /\ r.state = "canceled" => Stopped' \/ Asked \/ r.canceled

CoordinatorsKeep ==
    /\ coordinators' \in Seq(Coordinator) /\ Len(coordinators') = Len(coordinators)
    /\ \A k \in Started : RecordKeeps(k, coordinators'[k])

CurrentStays ==
    \A k \in Started :
        /\ coordinators'[k].pc # "ended" /\ coordinators[k].generation = run.generation
        /\ registry[coordinators[k].server] = k
        => registry'[coordinators[k].server] = k

\* Who waits goes on as r.
WaitKeeps(w, r) ==
    /\ r \in Wait
    /\ r.lease # 0 =>
          /\ r.server = waits[w].server /\ r.lease \in {waits[w].lease, leases[waits[w].server]}
          /\ r.pc \in {"claiming", "adopting"}
    /\ r.pc \in {"waiting", "canceling", "confirming"} => r.at # 0 /\ r.at <= Len(coordinators)
    /\ r.answer = "succeeded" => succeeded'
    /\ r.answer = "canceled" => Stopped' \/ Asked
    /\ r.pc = "confirming" => Stopped'
    /\ r.pc # "idle" /\ waits[w].pc = "idle" /\ w \in Slot =>
          w \in Started /\ coordinators'[w].external

WaitsKeep == waits' \in [Waiter -> Wait] /\ \A w \in Waiter : WaitKeeps(w, waits'[w])

Quiet ==
    /\ RunKeeps /\ LeasesKeep /\ RegistryKeeps /\ CoordinatorsKeep /\ CurrentStays /\ WaitsKeep

-----------------------------------------------------------------------------
LEMMA Moved ==
  ASSUME NEW c \in Seq(Coordinator), NEW k \in DOMAIN c, NEW r \in Coordinator
  PROVE  /\ [c EXCEPT ![k] = r] \in Seq(Coordinator)
         /\ Len([c EXCEPT ![k] = r]) = Len(c)
         /\ \A j \in DOMAIN c : [c EXCEPT ![k] = r][j] = IF j = k THEN r ELSE c[j]
OBVIOUS

LEMMA SystemTypes ==
  ASSUME ServerConstants, Inv
  PROVE  /\ coordinators \in Seq(Coordinator) /\ Started = 1 .. Len(coordinators)
         /\ Len(coordinators) \in Nat /\ Len(coordinators) <= MaxCoordinators
         /\ waits \in [Waiter -> Wait] /\ DOMAIN waits = Waiter
         /\ leases \in [Server -> Generation] /\ registry \in [Server -> 0 .. MaxCoordinators]
         /\ run.generation \in Nat /\ run.status \in Status
BY DEF Inv, ServerTypeOK, Waiter, Started, ServerConstants, Generation

LEMMA RecordTypes ==
  ASSUME ServerConstants, Inv, NEW k \in Started
  PROVE  /\ coordinators[k] \in Coordinator
         /\ coordinators[k].server \in Server /\ coordinators[k].state \in Status \cup {"error"}
         /\ coordinators[k].generation \in Generation /\ coordinators[k].lease \in Generation
<1>1. coordinators[k] \in Coordinator
  BY SystemTypes
<1> QED BY <1>1 DEF Coordinator

LEMMA WaitTypes ==
  ASSUME ServerConstants, Inv, NEW w \in Waiter
  PROVE  /\ waits[w] \in Wait
         /\ waits[w].server \in Server /\ waits[w].at \in 0 .. MaxCoordinators
         /\ waits[w].lease \in Generation /\ waits[w].answer \in Status \cup {"error"}
<1>1. waits[w] \in Wait
  BY SystemTypes
<1> QED BY <1>1 DEF Wait

LEMMA QuietTokens ==
  ASSUME ServerConstants, Inv, Quiet
  PROVE  TokensAreExclusive' /\ LeasesAreLater'
<1> USE SystemTypes
<1>1. Started' = Started
  BY DEF Quiet, CoordinatorsKeep, Started
<1>2. \A s \in Server, g \in Granted : Token(s, g)' => Token(s, g)
  <2> SUFFICES ASSUME NEW s \in Server, NEW g \in Granted, Token(s, g)'
               PROVE  Token(s, g)
    OBVIOUS
  <2>1. CASE leases'[s] = g
    BY <2>1 DEF Token, Quiet, LeasesKeep, Granted
  <2>2. ASSUME NEW w \in Waiter, waits'[w].server = s, waits'[w].lease = g
        PROVE  Token(s, g)
    <3>1. waits[w].server = s /\ g \in {waits[w].lease, leases[s]}
      BY <2>2 DEF Quiet, WaitsKeep, WaitKeeps, Granted
    <3> QED BY <3>1 DEF Token
  <2>3. ASSUME NEW k \in Started, coordinators'[k].server = s, coordinators'[k].generation = g
        PROVE  Token(s, g)
    <3>1. coordinators[k].server = s /\ coordinators[k].generation = g
      BY <2>3 DEF Quiet, CoordinatorsKeep, RecordKeeps
    <3> QED BY <3>1 DEF Token
  <2> QED BY <1>1, <2>1, <2>2, <2>3 DEF Token
<1>3. TokensAreExclusive'
  BY <1>2 DEF Inv, TokensAreExclusive, Quiet, RunKeeps
<1>4. LeasesAreLater'
  <2> SUFFICES ASSUME NEW k \in Started
               PROVE  /\ leases'[coordinators'[k].server] # 0 =>
                            coordinators'[k].generation <= leases'[coordinators'[k].server]
                      /\ coordinators'[k].lease # 0 =>
                            /\ coordinators'[k].generation <= coordinators'[k].lease
                            /\ coordinators'[k].lease <= run'.generation
    BY <1>1 DEF LeasesAreLater
  <2> DEFINE s == coordinators[k].server
  <2>1. s \in Server /\ coordinators[k].generation \in Nat /\ coordinators[k].lease \in Nat
        /\ leases[s] \in Generation
    BY RecordTypes DEF Generation
  <2>2. /\ coordinators'[k].server = s /\ coordinators'[k].generation = coordinators[k].generation
        /\ coordinators'[k].lease \in {coordinators[k].lease, leases[s], 0}
    BY DEF Quiet, CoordinatorsKeep, RecordKeeps
  <2>3. leases'[s] \in {leases[s], 0} /\ run'.generation = run.generation
    BY <2>1 DEF Quiet, LeasesKeep, RunKeeps
  <2>4. leases[s] # 0 => leases[s] <= run.generation
    BY <2>1 DEF Inv, TokensAreExclusive, Token, Granted
  <2>5. /\ leases[s] # 0 => coordinators[k].generation <= leases[s]
        /\ coordinators[k].lease # 0 =>
              /\ coordinators[k].generation <= coordinators[k].lease
              /\ coordinators[k].lease <= run.generation
    BY DEF Inv, LeasesAreLater
  <2> HIDE DEF s
  <2> QED BY <2>1, <2>2, <2>3, <2>4, <2>5
<1> QED BY <1>3, <1>4

LEMMA QuietKeeps ==
  ASSUME ServerConstants, Inv, Quiet
  PROVE  Inv'
<1> USE SystemTypes
<1>1. Started' = Started
  BY DEF Quiet, CoordinatorsKeep, Started
<1>2. ServerTypeOK'
  BY DEF ServerTypeOK, Quiet, RunKeeps, LeasesKeep, RegistryKeeps, CoordinatorsKeep, WaitsKeep,
         Waiter
<1>3. CurrentIsRegistered'
  <2>1. ASSUME NEW s \in Server
        PROVE  registry'[s] <= Len(coordinators')
    BY DEF Inv, CurrentIsRegistered, Quiet, RegistryKeeps, CoordinatorsKeep
  <2>2. ASSUME NEW k \in Started, coordinators'[k].pc # "ended",
               coordinators'[k].generation = run'.generation
        PROVE  registry'[coordinators'[k].server] = k
    <3>1. /\ coordinators[k].pc # "ended" /\ coordinators[k].generation = run.generation
          /\ coordinators'[k].server = coordinators[k].server
      BY <2>2 DEF Quiet, CoordinatorsKeep, RecordKeeps, RunKeeps
    <3>2. registry[coordinators[k].server] = k
      BY <3>1 DEF Inv, CurrentIsRegistered
    <3> QED BY <2>2, <3>1, <3>2 DEF Quiet, CurrentStays
  <2> QED BY <1>1, <2>1, <2>2 DEF CurrentIsRegistered
<1>4. WaitsAreInOrder'
  <2>1. ASSUME NEW w \in Waiter
        PROVE  /\ waits'[w].lease # 0 => waits'[w].pc \in {"claiming", "adopting"}
               /\ waits'[w].pc \in {"waiting", "canceling", "confirming"} =>
                     waits'[w].at # 0 /\ waits'[w].at <= Len(coordinators')
    BY DEF Quiet, WaitsKeep, WaitKeeps, CoordinatorsKeep
  <2>2. ASSUME NEW k \in Slot, waits'[k].pc # "idle"
        PROVE  k \in Started /\ coordinators'[k].external
    <3>1. k \in Waiter
      BY DEF Waiter
    <3>2. CASE waits[k].pc = "idle"
      BY <2>2, <3>1, <3>2 DEF Quiet, WaitsKeep, WaitKeeps
    <3>3. CASE waits[k].pc # "idle"
      <4>1. k \in Started /\ coordinators[k].external
        BY <3>3 DEF Inv, WaitsAreInOrder
      <4> QED BY <4>1 DEF Quiet, CoordinatorsKeep, RecordKeeps
    <3> QED BY <3>2, <3>3
  <2> QED BY <1>1, <2>1, <2>2 DEF WaitsAreInOrder
<1>5. OutcomesHaveCause'
  <2>1. Asked => Asked'
    BY <1>1 DEF Asked, Quiet, CoordinatorsKeep, RecordKeeps
  <2>2. \A k \in Started : /\ coordinators'[k].state = "succeeded" => succeeded'
                           /\ coordinators'[k].state = "canceled" => Stopped' \/ Asked'
    BY <1>1, <2>1 DEF Quiet, CoordinatorsKeep, RecordKeeps, Asked
  <2>3. \A w \in Waiter :
          /\ waits'[w].answer = "succeeded" => succeeded'
          /\ waits'[w].answer = "canceled" => Stopped' \/ Asked'
          /\ waits'[w].pc = "confirming" => Stopped'
    BY <2>1 DEF Quiet, WaitsKeep, WaitKeeps
  <2>4. run'.status = "succeeded" => succeeded'
    BY DEF Quiet, RunKeeps
  <2> QED BY <1>1, <2>2, <2>3, <2>4 DEF OutcomesHaveCause
<1> QED BY <1>2, <1>3, <1>4, <1>5, QuietTokens DEF Inv

-----------------------------------------------------------------------------
(* What is left alone, and the changes that many steps share.                 *)

LEMMA RecordsAsTheyWere ==
  ASSUME ServerConstants, Inv, RunKeeps, NEW k \in Started
  PROVE  RecordKeeps(k, coordinators[k])
<1>1. coordinators[k] \in Coordinator
  BY SystemTypes
<1>2. /\ coordinators[k].state = "succeeded" => succeeded
      /\ coordinators[k].state = "canceled" => Stopped \/ Asked
  BY DEF Inv, OutcomesHaveCause
<1> QED BY <1>1, <1>2 DEF RecordKeeps, RunKeeps

LEMMA WaitsAsTheyWere ==
  ASSUME ServerConstants, Inv, RunKeeps, NEW w \in Waiter
  PROVE  WaitKeeps(w, waits[w])
<1>1. waits[w] \in Wait
  BY SystemTypes
<1>2. /\ waits[w].answer = "succeeded" => succeeded
      /\ waits[w].answer = "canceled" => Stopped \/ Asked
      /\ waits[w].pc = "confirming" => Stopped
  BY DEF Inv, OutcomesHaveCause
<1>3. /\ waits[w].lease # 0 => waits[w].pc \in {"claiming", "adopting"}
      /\ waits[w].pc \in {"waiting", "canceling", "confirming"} =>
            waits[w].at # 0 /\ waits[w].at <= Len(coordinators)
  BY DEF Inv, WaitsAreInOrder
<1> QED BY <1>1, <1>2, <1>3 DEF WaitKeeps, RunKeeps

LEMMA SameCoordinators ==
  ASSUME ServerConstants, Inv, RunKeeps, coordinators' = coordinators
  PROVE  CoordinatorsKeep
BY SystemTypes, RecordsAsTheyWere DEF CoordinatorsKeep

LEMMA OneCoordinatorMoves ==
  ASSUME ServerConstants, Inv, RunKeeps, NEW k \in Started, NEW r, RecordKeeps(k, r),
         coordinators' = [coordinators EXCEPT ![k] = r]
  PROVE  CoordinatorsKeep /\ coordinators'[k] = r
<1>1. r \in Coordinator
  BY DEF RecordKeeps
<1>2. /\ coordinators' \in Seq(Coordinator) /\ Len(coordinators') = Len(coordinators)
      /\ \A j \in Started : coordinators'[j] = IF j = k THEN r ELSE coordinators[j]
  BY <1>1, SystemTypes, Moved DEF Started
<1>3. \A j \in Started : RecordKeeps(j, coordinators'[j])
  BY <1>2, RecordsAsTheyWere
<1> QED BY <1>2, <1>3 DEF CoordinatorsKeep

LEMMA SameWaits ==
  ASSUME ServerConstants, Inv, RunKeeps, waits' = waits
  PROVE  WaitsKeep
BY SystemTypes, WaitsAsTheyWere DEF WaitsKeep

LEMMA OneWaitMoves ==
  ASSUME ServerConstants, Inv, RunKeeps, NEW w \in Waiter, NEW r, WaitKeeps(w, r),
         waits' = [waits EXCEPT ![w] = r]
  PROVE  WaitsKeep
<1>1. r \in Wait
  BY DEF WaitKeeps
<1>2. /\ waits' \in [Waiter -> Wait]
      /\ \A v \in Waiter : waits'[v] = IF v = w THEN r ELSE waits[v]
  BY <1>1, SystemTypes
<1>3. \A v \in Waiter : WaitKeeps(v, waits'[v])
  BY <1>2, WaitsAsTheyWere
<1> QED BY <1>2, <1>3 DEF WaitsKeep

LEMMA SameRun ==
  ASSUME ServerConstants, Inv, run' = run, UNCHANGED <<up, succeeded, decidedBy>>
  PROVE  RunKeeps
BY DEF Inv, ServerTypeOK, OutcomesHaveCause, RunKeeps, Stopped

LEMMA SameLeases ==
  ASSUME ServerConstants, Inv, leases' = leases
  PROVE  LeasesKeep
BY SystemTypes DEF LeasesKeep

LEMMA SomeLeaseDropped ==
  ASSUME ServerConstants, Inv, NEW s \in Server, NEW g \in {leases[s], 0},
         leases' = [leases EXCEPT ![s] = g]
  PROVE  LeasesKeep
<1>1. 0 \in Generation
  BY DEF Generation, ServerConstants
<1> QED BY <1>1, SystemTypes DEF LeasesKeep

LEMMA LeaseRead ==
  ASSUME ServerConstants, Inv, NEW s \in Server, Get(s)
  PROVE  LeasesKeep
<1>1. AfterGet(s) \in {leases[s], 0}
  BY DEF AfterGet
<1> QED BY <1>1, SomeLeaseDropped DEF Get

LEMMA SameRegistry ==
  ASSUME ServerConstants, Inv, registry' = registry
  PROVE  RegistryKeeps /\ CurrentStays
BY SystemTypes DEF RegistryKeeps, CurrentStays, Coordinator

\* The registry forgets a coordinator that has ended or was replaced.
LEMMA Forgotten ==
  ASSUME ServerConstants, Inv, NEW k \in Started, registry' = Forget(k),
         coordinators'[k].pc = "ended" \/ coordinators[k].generation # run.generation
  PROVE  RegistryKeeps /\ CurrentStays
<1>1. coordinators[k].server \in Server /\ 0 \in 0 .. MaxCoordinators
  BY RecordTypes DEF ServerConstants
<1>2. RegistryKeeps
  BY <1>1, SystemTypes DEF RegistryKeeps, Forget, Mine
<1>3. CurrentStays
  <2> SUFFICES ASSUME NEW j \in Started, coordinators'[j].pc # "ended",
                      coordinators[j].generation = run.generation,
                      registry[coordinators[j].server] = j
               PROVE  registry'[coordinators[j].server] = j
    BY DEF CurrentStays
  <2>1. j # k
    OBVIOUS
  <2>2. coordinators[j].server \in Server
    BY RecordTypes
  <2> QED BY <2>1, <2>2, SystemTypes DEF Forget, Mine
<1> QED BY <1>2, <1>3

\* Who waits is answered, or waits for a coordinator.
LEMMA Answers ==
  ASSUME ServerConstants, Inv, RunKeeps, NEW w \in Waiter, w \in Slot => waits[w].pc # "idle",
         NEW a \in Status \cup {"error"}, Answer(w, a),
         a = "succeeded" => succeeded', a = "canceled" => Stopped' \/ Asked
  PROVE  WaitsKeep
<1> DEFINE b == IF a = "running" THEN "error" ELSE a
           r == [waits[w] EXCEPT !.pc = "answered", !.at = 0, !.lease = 0, !.answer = b]
<1>1. /\ b \in Status \cup {"error"}
      /\ b = "succeeded" => succeeded'
      /\ b = "canceled" => Stopped' \/ Asked
  OBVIOUS
<1>2. waits' = [waits EXCEPT ![w] = r]
  BY SystemTypes DEF Answer
<1> HIDE DEF b
<1>3. /\ r \in Wait /\ r.pc = "answered" /\ r.lease = 0 /\ r.answer = b
  <2>1. waits[w] \in Wait /\ 0 \in 0 .. MaxCoordinators /\ 0 \in Generation
    BY WaitTypes DEF ServerConstants, Generation
  <2> QED BY <1>1, <2>1 DEF Wait
<1> HIDE DEF r
<1>4. WaitKeeps(w, r)
  BY <1>1, <1>3 DEF WaitKeeps
<1> QED BY <1>2, <1>4, OneWaitMoves

LEMMA Waits ==
  ASSUME ServerConstants, Inv, RunKeeps, NEW w \in Waiter, w \in Slot => waits[w].pc # "idle",
         NEW k \in Started, WaitFor(w, k)
  PROVE  WaitsKeep
<1> DEFINE r == [waits[w] EXCEPT !.pc = "waiting", !.at = k, !.lease = 0]
<1>1. waits' = [waits EXCEPT ![w] = r]
  BY SystemTypes DEF WaitFor
<1>2. r \in Wait /\ r.pc = "waiting" /\ r.lease = 0 /\ r.at = k /\ r.answer = waits[w].answer
  <2>1. waits[w] \in Wait /\ k \in 0 .. MaxCoordinators /\ 0 \in Generation
    BY WaitTypes, SystemTypes DEF ServerConstants, Generation
  <2> QED BY <2>1 DEF Wait
<1> HIDE DEF r
<1>3. WaitKeeps(w, waits[w])
  BY WaitsAsTheyWere
<1>4. k # 0 /\ k <= Len(coordinators)
  BY SystemTypes
<1>5. WaitKeeps(w, r)
  BY <1>2, <1>3, <1>4 DEF WaitKeeps
<1> QED BY <1>1, <1>5, OneWaitMoves

\* Who waits takes a step, and nothing else of it changes.
LEMMA WaitGoesOn ==
  ASSUME ServerConstants, Inv, RunKeeps, NEW w \in Waiter, w \in Slot => waits[w].pc # "idle",
         NEW pc \in {"begun", "claiming", "observing", "adopting"},
         NEW g \in {waits[w].lease, leases[waits[w].server], 0},
         g # 0 => pc \in {"claiming", "adopting"},
         waits' = [waits EXCEPT ![w] = [waits[w] EXCEPT !.pc = pc, !.lease = g]]
  PROVE  WaitsKeep
<1> DEFINE r == [waits[w] EXCEPT !.pc = pc, !.lease = g]
<1>1. /\ r \in Wait /\ r.pc = pc /\ r.lease = g /\ r.answer = waits[w].answer
      /\ r.server = waits[w].server
  <2>1. waits[w] \in Wait /\ g \in Generation
    BY WaitTypes, SystemTypes DEF ServerConstants, Generation
  <2> QED BY <2>1 DEF Wait
<1> HIDE DEF r
<1>2. WaitKeeps(w, waits[w])
  BY WaitsAsTheyWere
<1>3. WaitKeeps(w, r)
  BY <1>1, <1>2 DEF WaitKeeps
<1>4. waits' = [waits EXCEPT ![w] = r]
  BY DEF r
<1> QED BY <1>3, <1>4, OneWaitMoves

\* A coordinator ends.
LEMMA EndedRecord ==
  ASSUME ServerConstants, Inv, NEW k \in Started, NEW a \in Status \cup {"error"},
         a = "succeeded" => succeeded', a = "canceled" => Stopped' \/ Asked
  PROVE  RecordKeeps(k, Ended(k, a)) /\ Ended(k, a).pc = "ended"
<1>1. coordinators[k] \in Coordinator /\ 0 \in Generation
  BY RecordTypes DEF ServerConstants, Generation
<1> DEFINE r == Ended(k, a)
<1>2. /\ r \in Coordinator /\ r.pc = "ended" /\ r.state = a /\ r.lease = 0
      /\ r.server = coordinators[k].server /\ r.generation = coordinators[k].generation
  BY <1>1 DEF Ended, Coordinator
<1>3. r.external = coordinators[k].external /\ r.canceled = coordinators[k].canceled
  BY <1>1 DEF Ended, Coordinator
<1> HIDE DEF r
<1>4. RecordKeeps(k, r)
  BY <1>2, <1>3 DEF RecordKeeps
<1> QED BY <1>2, <1>4 DEF r

LEMMA Ends ==
  ASSUME ServerConstants, Inv, RunKeeps, NEW k \in Started, NEW a \in Status \cup {"error"},
         a = "succeeded" => succeeded', a = "canceled" => Stopped' \/ Asked, End(k, a)
  PROVE  CoordinatorsKeep /\ RegistryKeeps /\ CurrentStays
<1>1. RecordKeeps(k, Ended(k, a)) /\ Ended(k, a).pc = "ended"
  BY EndedRecord
<1> DEFINE r == Ended(k, a)
<1> HIDE DEF r
<1>2. coordinators' = [coordinators EXCEPT ![k] = r] /\ registry' = Forget(k)
  BY DEF End, r
<1>3. RecordKeeps(k, r) /\ r.pc = "ended"
  BY <1>1 DEF r
<1>4. CoordinatorsKeep /\ coordinators'[k] = r
  BY <1>2, <1>3, OneCoordinatorMoves
<1>5. coordinators'[k].pc = "ended"
  BY <1>3, <1>4
<1> QED BY <1>2, <1>4, <1>5, Forgotten

\* A coordinator takes a step, and what it was asked stays.
LEMMA RecordGoesOn ==
  ASSUME ServerConstants, Inv, RunKeeps, NEW k \in Started, coordinators[k].pc # "ended",
         NEW pc \in {"working", "finishing", "failing", "awaiting", "settling", "ready",
                     "publishing"},
         NEW a \in Status \cup {"error"}, a = "succeeded" => succeeded',
         a = "canceled" => Stopped' \/ Asked,
         NEW g \in {coordinators[k].lease, leases[coordinators[k].server], 0},
         NEW r, r = [coordinators[k] EXCEPT !.pc = pc, !.state = a, !.lease = g],
         coordinators' = [coordinators EXCEPT ![k] = r]
  PROVE  CoordinatorsKeep
<1>1. coordinators[k] \in Coordinator /\ g \in Generation
  BY RecordTypes, SystemTypes DEF ServerConstants, Generation
<1>2. /\ r \in Coordinator /\ r.state = a /\ r.lease = g /\ r.pc = pc
      /\ r.server = coordinators[k].server /\ r.generation = coordinators[k].generation
  BY <1>1 DEF Coordinator
<1>3. r.external = coordinators[k].external /\ r.canceled = coordinators[k].canceled
  BY <1>1 DEF Coordinator
<1>4. RecordKeeps(k, r)
  BY <1>2, <1>3 DEF RecordKeeps
<1> QED BY <1>4, OneCoordinatorMoves

-----------------------------------------------------------------------------
(* The steps of a call.                                                       *)

LEMMA CallersWait ==
  ASSUME ServerConstants, NEW c \in Caller
  PROVE  c \in Waiter /\ c \notin Slot
BY DEF ServerConstants, Waiter

LEMMA BeginStep ==
  ASSUME ServerConstants, Inv, NEW c \in Caller, Begin(c)
  PROVE  Quiet
<1> USE CallersWait
<1>1. RunKeeps
  BY SameRun DEF Begin
<1>2. LeasesKeep /\ RegistryKeeps /\ CurrentStays /\ CoordinatorsKeep
  BY <1>1, SameLeases, SameRegistry, SameCoordinators DEF Begin
<1>3. CASE Running
  <2>1. waits' = [waits EXCEPT ![c] = [waits[c] EXCEPT !.pc = "begun", !.lease = 0]]
    <3>1. waits[c] \in Wait /\ waits[c].lease = 0
      BY SystemTypes DEF Begin, Inv, WaitsAreInOrder
    <3>2. [waits[c] EXCEPT !.pc = "begun", !.lease = 0] = [waits[c] EXCEPT !.pc = "begun"]
      BY <3>1 DEF Wait
    <3> QED BY <1>3, <3>2 DEF Begin
  <2> QED BY <1>1, <2>1, <1>2, WaitGoesOn DEF Quiet
<1>4. CASE ~Running
  <2>1. run.status \in Status /\ (run.status = "succeeded" => succeeded')
        /\ (run.status = "canceled" => Stopped')
    BY SystemTypes DEF Begin, Inv, OutcomesHaveCause, Stopped
  <2>2. WaitsKeep
    BY <1>1, <1>4, <2>1, Answers DEF Begin
  <2> QED BY <1>1, <1>2, <2>2 DEF Quiet
<1> QED BY <1>3, <1>4

\* The coordinator that a process has registered.
LEMMA RegisteredStarted ==
  ASSUME ServerConstants, Inv, NEW s \in Server, registry[s] # 0
  PROVE  registry[s] \in Started
BY SystemTypes DEF Inv, CurrentIsRegistered

LEMMA JoinStep ==
  ASSUME ServerConstants, Inv, NEW c \in Caller, Join(c)
  PROVE  Quiet
<1> USE CallersWait
<1>1. RunKeeps
  BY SameRun DEF Join
<1>2. LeasesKeep /\ RegistryKeeps /\ CurrentStays /\ CoordinatorsKeep
  BY <1>1, SameLeases, SameRegistry, SameCoordinators DEF Join
<1> DEFINE s == waits[c].server
<1>3. s \in Server
  BY WaitTypes
<1>4. CASE registry[s] # 0
  <2>1. registry[s] \in Started /\ WaitFor(c, registry[s])
    BY <1>3, <1>4, RegisteredStarted DEF Join, Home
  <2> QED BY <1>1, <1>2, <2>1, Waits DEF Quiet
<1>5. CASE registry[s] = 0
  <2>1. waits' = [waits EXCEPT ![c] = [waits[c] EXCEPT !.pc = "claiming", !.lease = leases[s]]]
    BY <1>5, SystemTypes DEF Join, Home
  <2>2. WaitsKeep
    BY <1>1, <2>1, WaitGoesOn
  <2> QED BY <1>1, <1>2, <2>2 DEF Quiet
<1> QED BY <1>4, <1>5

LEMMA PollStep ==
  ASSUME ServerConstants, Inv, NEW w \in Waiter, Poll(w)
  PROVE  Quiet
<1>1. RunKeeps
  BY SameRun DEF Poll
<1> DEFINE s == waits[w].server
<1>2. s \in Server
  BY WaitTypes
<1>3. RegistryKeeps /\ CurrentStays /\ CoordinatorsKeep /\ LeasesKeep
  BY <1>1, <1>2, LeaseRead, SameRegistry, SameCoordinators DEF Poll, Home
<1>4. CASE ~Running /\ Answer(w, run.status)
  <2>1. run.status \in Status /\ (run.status = "succeeded" => succeeded')
        /\ (run.status = "canceled" => Stopped') /\ waits[w].pc # "idle"
    BY SystemTypes DEF Poll, Inv, OutcomesHaveCause, Stopped
  <2>2. WaitsKeep
    BY <1>1, <1>4, <2>1, Answers
  <2> QED BY <1>1, <1>3, <2>2 DEF Quiet
<1>5. CASE registry[s] # 0 /\ WaitFor(w, registry[s])
  <2>1. registry[s] \in Started /\ waits[w].pc # "idle"
    BY <1>2, <1>5, RegisteredStarted DEF Poll
  <2> QED BY <1>1, <1>3, <1>5, <2>1, Waits DEF Quiet
<1>6. CASE waits' = [waits EXCEPT ![w].pc = "adopting", ![w].lease = AfterGet(s)]
  <2>1. waits' = [waits EXCEPT ![w] = [waits[w] EXCEPT !.pc = "adopting", !.lease = AfterGet(s)]]
    BY <1>6, SystemTypes
  <2>2. AfterGet(s) \in {leases[s], 0} /\ waits[w].pc # "idle"
    BY DEF AfterGet, Poll
  <2>3. WaitsKeep
    BY <1>1, <2>1, <2>2, WaitGoesOn
  <2> QED BY <1>1, <1>3, <2>3 DEF Quiet
<1>7. CASE waits' = waits
  BY <1>1, <1>3, <1>7, SameWaits DEF Quiet
<1> QED BY <1>4, <1>5, <1>6, <1>7 DEF Poll, Home

LEMMA HearStep ==
  ASSUME ServerConstants, Inv, NEW w \in Waiter, Hear(w)
  PROVE  Quiet
<1>1. RunKeeps
  BY SameRun DEF Hear
<1>2. LeasesKeep /\ RegistryKeeps /\ CurrentStays /\ CoordinatorsKeep
  BY <1>1, SameLeases, SameRegistry, SameCoordinators DEF Hear
<1> DEFINE k == waits[w].at
<1>3. k \in Started
  BY WaitTypes, SystemTypes DEF Hear, Inv, WaitsAreInOrder
<1>4. /\ coordinators[k].state \in Status \cup {"error"}
      /\ coordinators[k].state = "succeeded" => succeeded
      /\ coordinators[k].state = "canceled" => Stopped \/ Asked
  BY <1>3, RecordTypes DEF Inv, OutcomesHaveCause
<1>5. Answer(w, coordinators[k].state) /\ waits[w].pc # "idle"
  BY DEF Hear
<1>6. WaitsKeep
  BY <1>1, <1>4, <1>5, Answers DEF RunKeeps
<1> QED BY <1>1, <1>2, <1>6 DEF Quiet

\* A claim that moves no lease.
Grants(w) ==
    \/ Running /\ waits[w].lease = 0 /\ run.generation < MaxGeneration
       /\ Acquire(w, run.generation + 1)
    \/ Running /\ waits[w].lease = run.generation /\ Acquire(w, waits[w].lease)

LEMMA RefusedStep ==
  ASSUME ServerConstants, Inv, NEW w \in Waiter, Claim(w), ~Grants(w)
  PROVE  Quiet
<1> DEFINE s == waits[w].server
<1>1. s \in Server /\ waits[w].pc # "idle" /\ UNCHANGED <<up, succeeded, decidedBy>>
  BY WaitTypes DEF Claim
<1>2. CASE /\ waits' = [waits EXCEPT ![w].pc = "observing"] /\ ClaimIsLive(w)
           /\ UNCHANGED <<run, leases, registry, coordinators>>
  <2>1. RunKeeps
    BY <1>1, <1>2, SameRun
  <2>2. LeasesKeep /\ RegistryKeeps /\ CurrentStays /\ CoordinatorsKeep
    BY <1>2, <2>1, SameLeases, SameRegistry, SameCoordinators
  <2>3. waits' = [waits EXCEPT ![w] = [waits[w] EXCEPT !.pc = "observing", !.lease = 0]]
    <3>1. waits[w] \in Wait /\ waits[w].lease = 0
      BY <1>2, WaitTypes DEF ClaimIsLive
    <3>2. [waits[w] EXCEPT !.pc = "observing", !.lease = 0] = [waits[w] EXCEPT !.pc = "observing"]
      BY <3>1 DEF Wait
    <3> QED BY <1>2, <3>2
  <2>4. WaitsKeep
    BY <1>1, <2>1, <2>3, WaitGoesOn
  <2> QED BY <2>1, <2>2, <2>4 DEF Quiet
<1>3. CASE /\ leases' = [leases EXCEPT ![s] = 0] /\ Answer(w, "error")
           /\ UNCHANGED <<run, registry, coordinators>>
  <2>1. RunKeeps
    BY <1>1, <1>3, SameRun
  <2>2. LeasesKeep /\ RegistryKeeps /\ CurrentStays /\ CoordinatorsKeep
    BY <1>1, <1>3, <2>1, SomeLeaseDropped, SameRegistry, SameCoordinators
  <2>3. WaitsKeep
    BY <1>1, <1>3, <2>1, Answers
  <2> QED BY <2>1, <2>2, <2>3 DEF Quiet
<1>4. CASE /\ Get(s) /\ Answer(w, IF waits[w].pc = "adopting" THEN run.status ELSE "error")
           /\ UNCHANGED <<run, registry, coordinators>>
  <2>1. RunKeeps
    BY <1>1, <1>4, SameRun
  <2>2. LeasesKeep /\ RegistryKeeps /\ CurrentStays /\ CoordinatorsKeep
    BY <1>1, <1>4, <2>1, LeaseRead, SameRegistry, SameCoordinators
  <2> DEFINE a == IF waits[w].pc = "adopting" THEN run.status ELSE "error"
  <2>3. a \in Status \cup {"error"} /\ (a = "succeeded" => succeeded')
        /\ (a = "canceled" => Stopped')
    BY <1>1, <1>4, SystemTypes DEF Inv, OutcomesHaveCause, Stopped
  <2>4. Answer(w, a)
    BY <1>4
  <2> HIDE DEF a
  <2>5. WaitsKeep
    BY <1>1, <2>1, <2>3, <2>4, Answers
  <2> QED BY <2>1, <2>2, <2>5 DEF Quiet
<1> QED BY <1>2, <1>3, <1>4 DEF Claim, Grants, Home

-----------------------------------------------------------------------------
(* A claim that is granted.                                                   *)

\* Process s may be given generation g: no other process has a token of it, and a
\* coordinator of it that is at work is registered there.
Grantable(s, g) ==
    /\ g \in Granted /\ run.generation <= g
    /\ \A t \in Server : Token(t, g) => t = s
    /\ \A k \in Started : coordinators[k].pc # "ended" /\ coordinators[k].generation = g =>
          coordinators[k].server = s /\ registry[s] = k

LEMMA GrantsAreGrantable ==
  ASSUME ServerConstants, Inv, NEW w \in Waiter, Grants(w)
  PROVE  \E g : Grantable(waits[w].server, g) /\ Acquire(w, g)
<1> DEFINE s == waits[w].server
<1>1. s \in Server /\ waits[w].lease \in Generation /\ run.generation \in Generation
      /\ run.generation # 0
  BY WaitTypes DEF Inv, ServerTypeOK, TokensAreExclusive
<1>2. CASE run.generation < MaxGeneration /\ Acquire(w, run.generation + 1)
  <2> DEFINE g == run.generation + 1
  <2>1. g \in Granted /\ run.generation <= g /\ ~(g <= run.generation)
    BY <1>1, <1>2 DEF Granted, Generation, ServerConstants
  <2>2. \A t \in Server : ~Token(t, g)
    BY <2>1 DEF Inv, TokensAreExclusive
  <2>3. \A k \in Started : coordinators[k].generation # g
    BY <2>2, RecordTypes DEF Token
  <2> QED BY <1>2, <2>1, <2>2, <2>3 DEF Grantable
<1>3. CASE waits[w].lease = run.generation /\ Acquire(w, waits[w].lease)
  <2> DEFINE g == run.generation
  <2>1. g \in Granted /\ Token(s, g) /\ g <= g
    BY <1>1, <1>3 DEF Granted, Token, Generation
  <2>2. \A t \in Server : Token(t, g) => t = s
    BY <1>1, <2>1 DEF Inv, TokensAreExclusive
  <2>3. ASSUME NEW k \in Started, coordinators[k].pc # "ended", coordinators[k].generation = g
        PROVE  coordinators[k].server = s /\ registry[s] = k
    <3>1. coordinators[k].server \in Server /\ Token(coordinators[k].server, g)
      BY <2>3, RecordTypes DEF Token
    <3>2. registry[coordinators[k].server] = k
      BY <2>3 DEF Inv, CurrentIsRegistered
    <3> QED BY <2>2, <3>1, <3>2
  <2> QED BY <1>3, <2>1, <2>2, <2>3 DEF Grantable
<1> QED BY <1>2, <1>3 DEF Grants

\* The records once process s has been given generation g.
Given(s, g) ==
    \/ coordinators' = coordinators /\ registry' = registry /\ registry[s] # 0
    \/ /\ registry[s] = 0 /\ Len(coordinators') = Len(coordinators) + 1
       /\ registry' = [registry EXCEPT ![s] = Len(coordinators')]
       /\ Len(coordinators') <= MaxCoordinators
       /\ \A k \in Started : coordinators'[k] = coordinators[k]
       /\ \E r \in Coordinator :
             /\ coordinators'[Len(coordinators')] = r
             /\ r.server = s /\ r.generation = g /\ r.lease = 0 /\ r.state = "running"

LEMMA GivenRecords ==
  ASSUME ServerConstants, Inv, NEW w \in Waiter, NEW g \in Granted, Acquire(w, g)
  PROVE  coordinators' \in Seq(Coordinator) /\ Given(waits[w].server, g)
<1> DEFINE s == waits[w].server
           r == [server |-> s, generation |-> g, state |-> "running", pc |-> "working",
                 lease |-> 0, canceled |-> FALSE, external |-> FALSE, persistence |-> "none"]
           k == Len(coordinators) + 1
<1>1. CASE registry[s] # 0
  BY <1>1, SystemTypes DEF Acquire, Home, Given
<1>2. CASE registry[s] = 0
  <2>1. /\ coordinators' = Append(coordinators, r) /\ registry' = [registry EXCEPT ![s] = k]
        /\ k <= MaxCoordinators
    BY <1>2 DEF Acquire, Home
  <2>2. s \in Server /\ g \in Generation /\ 0 \in Generation
    BY WaitTypes DEF Granted, Generation, ServerConstants
  <2>3. r \in Coordinator
    BY <2>2 DEF Coordinator, Status
  <2>4. r.server = s /\ r.generation = g /\ r.lease = 0 /\ r.state = "running"
    OBVIOUS
  <2> HIDE DEF r
  <2>5. /\ coordinators' \in Seq(Coordinator) /\ Len(coordinators') = k
        /\ coordinators'[k] = r
        /\ \A j \in Started : coordinators'[j] = coordinators[j]
    BY <2>1, <2>3, SystemTypes
  <2> QED BY <1>2, <2>1, <2>3, <2>4, <2>5 DEF Given
<1> QED BY <1>1, <1>2

\* Who claimed waits for the coordinator of its process.
LEMMA GivenWait ==
  ASSUME ServerConstants, Inv, NEW w \in Waiter, NEW g \in Granted, Acquire(w, g)
  PROVE  \E k \in Nat \ {0} :
           /\ k <= Len(coordinators') /\ k <= MaxCoordinators /\ WaitFor(w, k)
<1> DEFINE s == waits[w].server
<1>1. CASE registry[s] # 0
  <2>1. registry[s] \in Started /\ WaitFor(w, registry[s]) /\ coordinators' = coordinators
    BY <1>1, WaitTypes, RegisteredStarted DEF Acquire, Home
  <2> DEFINE k == registry[s]
  <2>2. k \in Nat \ {0} /\ k <= Len(coordinators') /\ k <= MaxCoordinators
    BY <2>1, SystemTypes DEF ServerConstants
  <2>3. WaitFor(w, k)
    BY <2>1
  <2> HIDE DEF k
  <2> QED BY <2>2, <2>3
<1>2. CASE registry[s] = 0
  <2>1. WaitFor(w, Len(coordinators) + 1) /\ Len(coordinators) + 1 <= MaxCoordinators
    BY <1>2 DEF Acquire, Home
  <2>2. Len(coordinators') = Len(coordinators) + 1
    BY <1>2, GivenRecords DEF Given
  <2> QED BY <2>1, <2>2, SystemTypes
<1> QED BY <1>1, <1>2

LEMMA GrantStep ==
  ASSUME ServerConstants, Inv, NEW w \in Waiter, waits[w].pc # "idle", NEW g,
         Grantable(waits[w].server, g), Acquire(w, g), UNCHANGED <<up, succeeded, decidedBy>>
  PROVE  Inv'
<1> DEFINE s == waits[w].server
<1> USE SystemTypes
<1>1. /\ s \in Server /\ g \in Granted /\ g \in Generation /\ run.generation <= g
      /\ \A t \in Server : Token(t, g) => t = s
      /\ \A k \in Started : coordinators[k].pc # "ended" /\ coordinators[k].generation = g =>
            coordinators[k].server = s /\ registry[s] = k
  BY WaitTypes DEF Grantable, Granted
<1>2. coordinators' \in Seq(Coordinator) /\ Given(s, g)
  BY <1>1, GivenRecords
<1>3. PICK at \in Nat \ {0} :
        at <= Len(coordinators') /\ at <= MaxCoordinators /\ WaitFor(w, at)
  BY <1>1, GivenWait
<1>4. /\ run' = [run EXCEPT !.generation = g, !.fresh = TRUE] /\ run'.generation = g
      /\ run'.status = run.status
      /\ leases' = [leases EXCEPT ![s] = g]
  BY DEF Acquire, Home, Inv, ServerTypeOK
<1> DEFINE r == [waits[w] EXCEPT !.pc = "waiting", !.at = at, !.lease = 0]
<1>5. /\ r \in Wait /\ r.pc = "waiting" /\ r.lease = 0 /\ r.at = at
      /\ r.answer = waits[w].answer /\ r.server = s
  <2>1. waits[w] \in Wait /\ at \in 0 .. MaxCoordinators /\ 0 \in Generation
    BY <1>3, WaitTypes DEF ServerConstants, Generation
  <2> QED BY <2>1 DEF Wait
<1>6. waits' = [waits EXCEPT ![w] = r]
  BY <1>3 DEF WaitFor
<1> HIDE DEF r
<1>7. /\ waits' \in [Waiter -> Wait]
      /\ \A v \in Waiter : waits'[v] = IF v = w THEN r ELSE waits[v]
  BY <1>5, <1>6
<1>8. /\ Started \subseteq Started' /\ Len(coordinators) <= Len(coordinators')
      /\ Len(coordinators') \in Nat /\ Len(coordinators') <= MaxCoordinators
      /\ \A k \in Started : coordinators'[k] = coordinators[k]
      /\ registry' \in [Server -> 0 .. MaxCoordinators]
      /\ \A t \in Server : registry'[t] <= Len(coordinators')
  <2>1. Started' = 1 .. Len(coordinators') /\ Len(coordinators') \in Nat
    BY <1>2 DEF Started
  <2>2. \A t \in Server : registry[t] <= Len(coordinators)
    BY DEF Inv, CurrentIsRegistered
  <2>3. CASE coordinators' = coordinators /\ registry' = registry
    BY <2>1, <2>2, <2>3
  <2>4. CASE ~(coordinators' = coordinators /\ registry' = registry)
    <3>1. /\ Len(coordinators') = Len(coordinators) + 1 /\ Len(coordinators') <= MaxCoordinators
          /\ registry' = [registry EXCEPT ![s] = Len(coordinators')]
          /\ \A k \in Started : coordinators'[k] = coordinators[k]
      BY <1>2, <2>4 DEF Given
    <3> DEFINE n == Len(coordinators')
    <3>2. n \in 0 .. MaxCoordinators /\ Len(coordinators) <= n
      BY <2>1, <3>1 DEF ServerConstants
    <3>3. registry' = [registry EXCEPT ![s] = n]
      BY <3>1
    <3> HIDE DEF n
    <3>4. registry' \in [Server -> 0 .. MaxCoordinators]
          /\ \A t \in Server : registry'[t] = IF t = s THEN n ELSE registry[t]
      BY <1>1, <3>2, <3>3
    <3>5. \A t \in Server : registry[t] \in Nat
      BY DEF ServerConstants
    <3>6. \A t \in Server : registry'[t] <= n
      BY <2>2, <3>1, <3>2, <3>4, <3>5
    <3>7. Started \subseteq Started'
      BY <2>1, <3>1
    <3> QED BY <2>1, <3>1, <3>2, <3>4, <3>6, <3>7 DEF n
  <2> QED BY <2>3, <2>4
<1>9. ASSUME NEW k \in Started'
      PROVE  \/ k \in Started
             \/ /\ registry[s] = 0 /\ registry' = [registry EXCEPT ![s] = k]
                /\ coordinators'[k].server = s /\ coordinators'[k].generation = g
                /\ coordinators'[k].lease = 0 /\ coordinators'[k].state = "running"
  <2>1. Started' = 1 .. Len(coordinators') /\ Len(coordinators') \in Nat
    BY <1>2 DEF Started
  <2> QED BY <1>2, <2>1 DEF Given
<1>10. ServerTypeOK'
  <2>1. run' \in [status : Status, generation : Generation, fresh : BOOLEAN]
    BY <1>1, <1>4 DEF Inv, ServerTypeOK
  <2>2. leases' \in [Server -> Generation]
    BY <1>1, <1>4
  <2> QED BY <1>2, <1>7, <1>8, <2>1, <2>2 DEF Inv, ServerTypeOK, Waiter
<1>11. TokensAreExclusive'
  <2>1. ASSUME NEW t \in Server, NEW h \in Granted, Token(t, h)', ~Token(t, h)
        PROVE  t = s /\ h = g
    <3>1. CASE leases'[t] = h
      BY <1>1, <1>4, <2>1, <3>1 DEF Token
    <3>2. ASSUME NEW v \in Waiter, waits'[v].server = t, waits'[v].lease = h
          PROVE  FALSE
      BY <1>5, <1>7, <2>1, <3>2 DEF Token, Granted
    <3>3. ASSUME NEW k \in Started', coordinators'[k].server = t, coordinators'[k].generation = h
          PROVE  t = s /\ h = g
      BY <1>8, <1>9, <2>1, <3>3 DEF Token
    <3> QED BY <2>1, <3>1, <3>2, <3>3 DEF Token
  <2>2. ASSUME NEW t \in Server, NEW u \in Server, NEW h \in Granted, Token(t, h)', Token(u, h)'
        PROVE  t = u
    <3>1. CASE h = g
      BY <1>1, <2>1, <2>2, <3>1
    <3>2. CASE h # g
      BY <2>1, <2>2, <3>2 DEF Inv, TokensAreExclusive
    <3> QED BY <3>1, <3>2
  <2>3. ASSUME NEW t \in Server, NEW h \in Granted, Token(t, h)'
        PROVE  h <= g
    <3>1. CASE Token(t, h)
      <4>1. h <= run.generation
        BY <3>1 DEF Inv, TokensAreExclusive
      <4>2. h \in Nat /\ g \in Nat /\ run.generation \in Nat
        BY <1>1 DEF Granted, Generation
      <4> QED BY <1>1, <4>1, <4>2
    <3>2. CASE ~Token(t, h)
      BY <1>1, <2>1, <2>3, <3>2 DEF Granted, Generation
    <3> QED BY <3>1, <3>2
  <2>4. g # 0
    BY <1>1 DEF Granted
  <2> QED BY <1>4, <2>2, <2>3, <2>4 DEF TokensAreExclusive
<1>12. LeasesAreLater'
  <2> SUFFICES ASSUME NEW k \in Started'
               PROVE  /\ leases'[coordinators'[k].server] # 0 =>
                            coordinators'[k].generation <= leases'[coordinators'[k].server]
                      /\ coordinators'[k].lease # 0 =>
                            /\ coordinators'[k].generation <= coordinators'[k].lease
                            /\ coordinators'[k].lease <= run'.generation
    BY DEF LeasesAreLater
  <2>1. leases'[s] = g /\ \A t \in Server : t # s => leases'[t] = leases[t]
    BY <1>1, <1>4
  <2>2. g \in Nat /\ run.generation \in Nat
    BY <1>1 DEF Generation
  <2>3. CASE k \in Started
    <3> DEFINE t == coordinators[k].server
               n == coordinators[k].generation
               l == coordinators[k].lease
    <3>1. t \in Server /\ n \in Nat /\ l \in Nat
      BY <2>3, RecordTypes DEF Generation
    <3>2. n # 0 => n <= run.generation
      <4>1. n # 0 => n \in Granted /\ Token(t, n)
        BY <2>3, RecordTypes DEF Granted, Token
      <4> QED BY <3>1, <4>1 DEF Inv, TokensAreExclusive
    <3>3. /\ leases[t] # 0 => n <= leases[t]
          /\ l # 0 => n <= l /\ l <= run.generation
      BY <2>3 DEF Inv, LeasesAreLater
    <3>4. coordinators'[k].server = t /\ coordinators'[k].generation = n
          /\ coordinators'[k].lease = l
      BY <1>8, <2>3
    <3> HIDE DEF t, n, l
    <3>5. leases'[t] # 0 => n <= leases'[t]
      BY <1>1, <2>1, <2>2, <3>1, <3>2, <3>3
    <3>6. l # 0 => n <= l /\ l <= g
      BY <1>1, <2>2, <3>1, <3>3
    <3> QED BY <1>4, <3>4, <3>5, <3>6
  <2>4. CASE k \notin Started
    BY <1>9, <2>1, <2>2, <2>4
  <2> QED BY <2>3, <2>4
<1>13. CurrentIsRegistered'
  <2>1. ASSUME NEW k \in Started', coordinators'[k].pc # "ended",
               coordinators'[k].generation = g
        PROVE  registry'[coordinators'[k].server] = k
    <3>1. CASE k \in Started
      <4>1. coordinators'[k] = coordinators[k] /\ coordinators[k].server = s /\ registry[s] = k
        BY <1>1, <1>8, <2>1, <3>1
      <4>2. k # 0
        BY <3>1
      <4>3. registry' = registry
        BY <1>2, <4>1, <4>2 DEF Given
      <4> QED BY <4>1, <4>3
    <3>2. CASE k \notin Started
      BY <1>1, <1>9, <3>2
    <3> QED BY <3>1, <3>2
  <2> QED BY <1>4, <1>8, <2>1 DEF CurrentIsRegistered
<1>14. WaitsAreInOrder'
  <2>1. ASSUME NEW v \in Waiter
        PROVE  /\ waits'[v].lease # 0 => waits'[v].pc \in {"claiming", "adopting"}
               /\ waits'[v].pc \in {"waiting", "canceling", "confirming"} =>
                     waits'[v].at # 0 /\ waits'[v].at <= Len(coordinators')
    <3>1. CASE v = w
      BY <1>3, <1>5, <1>7, <3>1
    <3>2. CASE v # w
      <4>1. waits'[v] = waits[v] /\ waits[v].at \in Nat
        BY <1>7, <3>2, WaitTypes DEF ServerConstants
      <4>2. /\ waits[v].lease # 0 => waits[v].pc \in {"claiming", "adopting"}
            /\ waits[v].pc \in {"waiting", "canceling", "confirming"} =>
                  waits[v].at # 0 /\ waits[v].at <= Len(coordinators)
        BY DEF Inv, WaitsAreInOrder
      <4> QED BY <1>8, <4>1, <4>2
    <3> QED BY <3>1, <3>2
  <2>2. ASSUME NEW k \in Slot, waits'[k].pc # "idle"
        PROVE  k \in Started' /\ coordinators'[k].external
    <3>1. k \in Waiter
      BY DEF Waiter
    <3>2. waits[k].pc # "idle"
      BY <1>7, <2>2, <3>1
    <3>3. k \in Started /\ coordinators[k].external
      BY <3>2 DEF Inv, WaitsAreInOrder
    <3> QED BY <1>8, <3>3
  <2> QED BY <2>1, <2>2 DEF WaitsAreInOrder
<1>15. OutcomesHaveCause'
  <2>1. (Asked => Asked') /\ (Stopped <=> Stopped') /\ succeeded' = succeeded
    BY <1>4, <1>8 DEF Asked, Stopped
  <2>2. ASSUME NEW k \in Started'
        PROVE  /\ coordinators'[k].state = "succeeded" => succeeded'
               /\ coordinators'[k].state = "canceled" => Stopped' \/ Asked'
    <3>1. CASE k \in Started
      <4>1. coordinators'[k] = coordinators[k]
        BY <1>8, <3>1
      <4> QED BY <2>1, <3>1, <4>1 DEF Inv, OutcomesHaveCause
    <3>2. CASE k \notin Started
      BY <1>9, <3>2
    <3> QED BY <3>1, <3>2
  <2>3. ASSUME NEW v \in Waiter
        PROVE  /\ waits'[v].answer = "succeeded" => succeeded'
               /\ waits'[v].answer = "canceled" => Stopped' \/ Asked'
               /\ waits'[v].pc = "confirming" => Stopped'
    BY <1>5, <1>7, <2>1 DEF Inv, OutcomesHaveCause
  <2>4. run'.status = "succeeded" => succeeded'
    BY <1>4, <2>1 DEF Inv, OutcomesHaveCause
  <2> QED BY <2>2, <2>3, <2>4 DEF OutcomesHaveCause
<1> QED BY <1>10, <1>11, <1>12, <1>13, <1>14, <1>15 DEF Inv

LEMMA ClaimStep ==
  ASSUME ServerConstants, Inv, NEW w \in Waiter, Claim(w)
  PROVE  Inv'
<1>1. CASE Grants(w)
  <2>1. PICK g : Grantable(waits[w].server, g) /\ Acquire(w, g)
    BY <1>1, GrantsAreGrantable
  <2>2. waits[w].pc # "idle" /\ UNCHANGED <<up, succeeded, decidedBy>>
    BY DEF Claim
  <2> QED BY <2>1, <2>2, GrantStep
<1>2. CASE ~Grants(w)
  BY <1>2, RefusedStep, QuietKeeps
<1> QED BY <1>1, <1>2

-----------------------------------------------------------------------------
(* The steps of a coordinator.                                                *)

\* A coordinator that was replaced goes on beside its observer.
LEMMA ReplacedStep ==
  ASSUME ServerConstants, Inv, RunKeeps, LeasesKeep, NEW k \in Started,
         coordinators[k].pc # "ended", ~coordinators[k].external,
         coordinators[k].generation # run.generation,
         NEW pc \in {"working", "finishing", "failing", "awaiting", "settling", "ready",
                     "publishing"}, Replaced(k, pc)
  PROVE  Quiet
<1>1. coordinators[k] \in Coordinator /\ 0 \in Generation /\ k \in Slot
      /\ coordinators[k].server \in Server
  BY RecordTypes, SystemTypes DEF ServerConstants, Generation, Slot
<1> DEFINE c == [coordinators[k] EXCEPT !.pc = pc, !.lease = 0]
           r == [c EXCEPT !.external = TRUE]
<1>2. c \in Coordinator
  BY <1>1 DEF Coordinator
<1>3. /\ c.lease = 0 /\ c.state = coordinators[k].state /\ c.server = coordinators[k].server
      /\ c.generation = coordinators[k].generation
      /\ c.canceled = coordinators[k].canceled
  BY <1>1 DEF Coordinator
<1>4. coordinators' = [coordinators EXCEPT ![k] = r]
  <2>1. r = [coordinators[k] EXCEPT !.external = TRUE, !.pc = pc, !.lease = 0]
    BY <1>1 DEF Coordinator
  <2> HIDE DEF r
  <2> QED BY <2>1, SystemTypes DEF Replaced
<1> HIDE DEF c
<1>5. r \in Coordinator /\ r.external = TRUE
  BY <1>2 DEF Coordinator
<1>6. /\ r.lease = 0 /\ r.state = coordinators[k].state /\ r.server = coordinators[k].server
      /\ r.generation = coordinators[k].generation
      /\ r.canceled = coordinators[k].canceled
  BY <1>2, <1>3 DEF Coordinator
<1> HIDE DEF r
<1>7. RecordKeeps(k, coordinators[k])
  BY RecordsAsTheyWere
<1>8. RecordKeeps(k, r)
  BY <1>5, <1>6, <1>7 DEF RecordKeeps
<1>9. CoordinatorsKeep /\ coordinators'[k] = r
  BY <1>4, <1>8, OneCoordinatorMoves
<1>10. RegistryKeeps /\ CurrentStays
  BY Forgotten DEF Replaced
<1>11. WaitsKeep
  <2> DEFINE x == [waits[k] EXCEPT !.pc = "observing", !.server = coordinators[k].server]
  <2>1. k \in Waiter /\ waits[k] \in Wait
    BY <1>1, WaitTypes DEF Waiter
  <2>2. waits[k].lease = 0 /\ waits[k].pc = "idle"
    BY <1>1, <2>1 DEF Inv, WaitsAreInOrder
  <2>3. /\ x \in Wait /\ x.pc = "observing" /\ x.lease = waits[k].lease
        /\ x.answer = waits[k].answer
    BY <1>1, <2>1 DEF Wait
  <2>4. waits' = [waits EXCEPT ![k] = x]
    BY <2>1, SystemTypes DEF Replaced, Mine
  <2> HIDE DEF x
  <2>5. WaitKeeps(k, waits[k])
    BY <2>1, WaitsAsTheyWere
  <2>6. WaitKeeps(k, x)
    BY <1>5, <1>9, <2>2, <2>3, <2>5 DEF WaitKeeps
  <2> QED BY <2>1, <2>4, <2>6, OneWaitMoves
<1> QED BY <1>9, <1>10, <1>11 DEF Quiet

LEMMA OutdatedIsOld ==
  ASSUME ServerConstants, Inv, NEW k \in Started, Outdated(k)
  PROVE  coordinators[k].generation # run.generation
<1>1. coordinators[k].generation \in Nat /\ run.generation \in Nat
  BY RecordTypes, SystemTypes DEF Generation
<1> QED BY <1>1 DEF Outdated

\* A run that is over can be reported.
LEMMA RunIsOver ==
  ASSUME ServerConstants, Inv, UNCHANGED <<run, succeeded>>
  PROVE  /\ run.status \in Status \cup {"error"}
         /\ run.status = "succeeded" => succeeded'
         /\ run.status = "canceled" => Stopped' \/ Asked
BY SystemTypes DEF Inv, OutcomesHaveCause, Stopped

LEMMA HeartbeatStep ==
  ASSUME ServerConstants, Inv, NEW k \in Started, Heartbeat(k)
  PROVE  Quiet
<1> DEFINE s == coordinators[k].server
<1>1. /\ run'.status = run.status /\ run'.generation = run.generation
      /\ run' \in [status : Status, generation : Generation, fresh : BOOLEAN]
  <2>1. run \in [status : Status, generation : Generation, fresh : BOOLEAN]
    BY DEF Inv, ServerTypeOK
  <2> DEFINE f == run.fresh \/ (Running /\ leases[Mine(k)] = run.generation)
  <2>2. f \in BOOLEAN
    BY <2>1
  <2>3. run' = [run EXCEPT !.fresh = f]
    BY DEF Heartbeat
  <2> HIDE DEF f
  <2> QED BY <2>1, <2>2, <2>3
<1>2. RunKeeps
  BY <1>1 DEF Heartbeat, Inv, ServerTypeOK, OutcomesHaveCause, RunKeeps, Stopped
<1>3. s \in Server /\ coordinators[k].pc # "ended"
  BY RecordTypes DEF Heartbeat
<1>4. CASE UNCHANGED <<leases, registry, coordinators, waits>>
  BY <1>2, <1>4, SameLeases, SameRegistry, SameCoordinators, SameWaits DEF Quiet
<1>5. CASE Get(s) /\ ~coordinators[k].external /\ Outdated(k) /\ Replaced(k, coordinators[k].pc)
  <2>1. coordinators[k].pc \in {"working", "finishing", "failing", "awaiting", "settling",
                                "ready", "publishing"}
    BY <1>3, RecordTypes DEF Coordinator
  <2>2. LeasesKeep
    BY <1>3, <1>5, LeaseRead
  <2> QED BY <1>2, <1>3, <1>5, <2>1, <2>2, OutdatedIsOld, ReplacedStep
<1>6. CASE Get(s) /\ End(k, run.status) /\ UNCHANGED waits
  <2>1. /\ run.status \in Status \cup {"error"}
        /\ run.status = "succeeded" => succeeded'
        /\ run.status = "canceled" => Stopped' \/ Asked
    BY <1>1, SystemTypes DEF Heartbeat, Inv, OutcomesHaveCause, Stopped
  <2>2. CoordinatorsKeep /\ RegistryKeeps /\ CurrentStays
    BY <1>2, <1>6, <2>1, Ends
  <2>3. LeasesKeep /\ WaitsKeep
    BY <1>2, <1>3, <1>6, LeaseRead, SameWaits
  <2> QED BY <1>2, <2>2, <2>3 DEF Quiet
<1>7. CASE Get(s) /\ UNCHANGED <<registry, coordinators, waits>>
  <2>1. LeasesKeep
    BY <1>3, <1>7, LeaseRead
  <2> QED BY <1>2, <1>7, <2>1, SameRegistry, SameCoordinators, SameWaits DEF Quiet
<1> QED BY <1>4, <1>5, <1>6, <1>7 DEF Heartbeat, Mine

\* A step of one coordinator that changes no other part.
LEMMA OnlyTheRecord ==
  ASSUME ServerConstants, Inv, RunKeeps, CoordinatorsKeep, LeasesKeep,
         UNCHANGED <<registry, waits>>
  PROVE  Quiet
BY SameRegistry, SameWaits DEF Quiet

LEMMA FinishStep ==
  ASSUME ServerConstants, Inv, NEW k \in Started, Finish(k)
  PROVE  Quiet
<1>1. RunKeeps
  BY SameRun DEF Finish
<1> DEFINE g == leases[coordinators[k].server]
           a == coordinators[k].state
           r == [coordinators[k] EXCEPT !.pc = "finishing", !.state = a, !.lease = g]
<1>2. /\ a \in Status \cup {"error"} /\ (a = "succeeded" => succeeded')
      /\ (a = "canceled" => Stopped' \/ Asked) /\ coordinators[k].pc # "ended"
  BY RecordTypes DEF Inv, OutcomesHaveCause, Finish, Stopped
<1>3. coordinators' = [coordinators EXCEPT ![k] = r]
  <2>1. r = [coordinators[k] EXCEPT !.pc = "finishing", !.lease = g]
    BY RecordTypes DEF Coordinator
  <2> HIDE DEF r
  <2> QED BY <2>1, SystemTypes DEF Finish, Mine
<1> HIDE DEF a
<1>4. CoordinatorsKeep
  BY <1>1, <1>2, <1>3, RecordGoesOn
<1> QED BY <1>1, <1>4, SameLeases, OnlyTheRecord DEF Finish

\* What a coordinator does that failed, whatever it made of that.
LEMMA FailStep ==
  ASSUME ServerConstants, Inv, NEW k \in Started, ~Stopping(k), coordinators[k].pc # "ended",
         UNCHANGED <<run, up, succeeded, decidedBy>>, Get(Mine(k)),
         \/ coordinators[k].generation # run.generation /\ Replaced(k, "awaiting")
         \/ End(k, run.status) /\ UNCHANGED waits
         \/ /\ coordinators' = [coordinators EXCEPT ![k].pc = "failing", ![k].lease = 0]
            /\ UNCHANGED <<registry, waits>>
  PROVE  Quiet
<1>1. RunKeeps
  BY SameRun
<1>2. LeasesKeep
  BY RecordTypes, LeaseRead DEF Mine
<1>3. CASE coordinators[k].generation # run.generation /\ Replaced(k, "awaiting")
  <2>1. ~coordinators[k].external
    BY DEF Stopping
  <2> QED BY <1>1, <1>2, <1>3, <2>1, ReplacedStep
<1>4. CASE End(k, run.status) /\ UNCHANGED waits
  <2>1. CoordinatorsKeep /\ RegistryKeeps /\ CurrentStays
    BY <1>1, <1>4, RunIsOver, Ends
  <2> QED BY <1>1, <1>2, <1>4, <2>1, SameWaits DEF Quiet
<1>5. CASE /\ coordinators' = [coordinators EXCEPT ![k].pc = "failing", ![k].lease = 0]
           /\ UNCHANGED <<registry, waits>>
  <2> DEFINE a == coordinators[k].state
             r == [coordinators[k] EXCEPT !.pc = "failing", !.state = a, !.lease = 0]
  <2>1. /\ a \in Status \cup {"error"} /\ (a = "succeeded" => succeeded')
        /\ (a = "canceled" => Stopped' \/ Asked)
    BY RecordTypes DEF Inv, OutcomesHaveCause, Stopped
  <2>2. coordinators' = [coordinators EXCEPT ![k] = r]
    <3>1. r = [coordinators[k] EXCEPT !.pc = "failing", !.lease = 0]
      BY RecordTypes DEF Coordinator
    <3> HIDE DEF r
    <3> QED BY <1>5, <3>1, SystemTypes
  <2> HIDE DEF a
  <2>3. CoordinatorsKeep
    BY <1>1, <2>1, <2>2, RecordGoesOn
  <2> QED BY <1>1, <1>2, <1>5, <2>3, OnlyTheRecord
<1> QED BY <1>3, <1>4, <1>5

LEMMA WorkFailsStep ==
  ASSUME ServerConstants, Inv, NEW k \in Started, WorkFails(k)
  PROVE  Quiet
<1>1. /\ ~Stopping(k) /\ coordinators[k].pc # "ended" /\ Get(Mine(k))
      /\ UNCHANGED <<run, up, succeeded, decidedBy>>
  BY DEF WorkFails, Fail
<1>2. \/ Outdated(k) /\ Replaced(k, "awaiting")
      \/ End(k, run.status) /\ UNCHANGED waits
      \/ /\ coordinators' = [coordinators EXCEPT ![k].pc = "failing", ![k].lease = 0]
         /\ UNCHANGED <<registry, waits>>
  BY DEF WorkFails, Fail
<1>3. Outdated(k) => coordinators[k].generation # run.generation
  BY OutdatedIsOld
<1> QED BY <1>1, <1>2, <1>3, FailStep

\* A coordinator whose request was refused for its lease is of an older generation.
LEMMA StaleIsOld ==
  ASSUME ServerConstants, Inv, NEW k \in Started,
         coordinators[k].lease \notin {0, run.generation}
  PROVE  coordinators[k].generation # run.generation
<1>1. /\ coordinators[k].generation \in Nat /\ run.generation \in Nat
      /\ coordinators[k].lease \in Nat
  BY RecordTypes, SystemTypes DEF Generation
<1>2. coordinators[k].generation <= coordinators[k].lease
      /\ coordinators[k].lease <= run.generation
  BY DEF Inv, LeasesAreLater
<1> QED BY <1>1, <1>2

\* The run comes to an end as "status".
LEMMA RunEnds ==
  ASSUME ServerConstants, Inv, NEW status \in {"succeeded", "failed", "canceled"},
         run' = [run EXCEPT !.status = status], up' = up, succeeded' \in BOOLEAN,
         decidedBy' \in 0 .. MaxCoordinators, succeeded => succeeded',
         status = "succeeded" => succeeded' /\ ~Stopped
  PROVE  RunKeeps
<1>1. /\ run \in [status : Status, generation : Generation, fresh : BOOLEAN]
      /\ up \in [Server -> BOOLEAN]
  BY DEF Inv, ServerTypeOK
<1>2. run' \in [status : Status, generation : Generation, fresh : BOOLEAN]
      /\ run'.status = status /\ run'.generation = run.generation
  BY <1>1 DEF Status
<1> QED BY <1>1, <1>2 DEF RunKeeps, Stopped

LEMMA FinishedStep ==
  ASSUME ServerConstants, Inv, NEW k \in Started, Finished(k)
  PROVE  Quiet
<1> DEFINE lease == coordinators[k].lease
           stale == Running /\ lease \notin {0, run.generation}
           s == coordinators[k].server
<1>1. /\ coordinators[k].pc = "finishing" /\ up' = up /\ s \in Server
      /\ k \in 0 .. MaxCoordinators
  BY RecordTypes, SystemTypes DEF Finished, ServerConstants
<1>2. CASE /\ Holds(lease) /\ run' = [run EXCEPT !.status = "succeeded"]
           /\ succeeded' = TRUE /\ decidedBy' = k /\ UNCHANGED <<leases, waits>>
           /\ \/ /\ coordinators' = [coordinators EXCEPT ![k].pc = "settling", ![k].lease = 0,
                                                         ![k].state = "succeeded"]
                 /\ UNCHANGED registry
              \/ End(k, "succeeded")
  <2>1. RunKeeps
    <3>1. ~Stopped
      BY <1>2 DEF Holds, Running, Stopped
    <3>2. succeeded' \in BOOLEAN /\ (succeeded => succeeded') /\ decidedBy' \in 0 .. MaxCoordinators
      BY <1>1, <1>2
    <3> QED BY <1>1, <1>2, <3>1, <3>2, RunEnds
  <2>2. LeasesKeep /\ WaitsKeep
    BY <1>2, <2>1, SameLeases, SameWaits
  <2> DEFINE a == "succeeded"
             r == [coordinators[k] EXCEPT !.pc = "settling", !.state = a, !.lease = 0]
  <2>3. a \in Status \cup {"error"} /\ (a = "succeeded" => succeeded')
        /\ (a = "canceled" => Stopped' \/ Asked)
    BY <1>2 DEF Status
  <2>4. CASE /\ coordinators' = [coordinators EXCEPT ![k].pc = "settling", ![k].lease = 0,
                                                     ![k].state = "succeeded"]
             /\ UNCHANGED registry
    <3>1. r = [coordinators[k] EXCEPT !.pc = "settling", !.lease = 0, !.state = "succeeded"]
      BY RecordTypes DEF Coordinator
    <3> HIDE DEF r
    <3>2. coordinators' = [coordinators EXCEPT ![k] = r]
      BY <2>4, <3>1, SystemTypes
    <3>3. CoordinatorsKeep
      BY <1>1, <2>1, <2>3, <3>2, RecordGoesOn DEF r
    <3> QED BY <2>1, <2>2, <2>4, <3>3, SameRegistry DEF Quiet
  <2>5. CASE End(k, "succeeded")
    <3>1. CoordinatorsKeep /\ RegistryKeeps /\ CurrentStays
      BY <2>1, <2>3, <2>5, Ends
    <3> QED BY <2>1, <2>2, <3>1 DEF Quiet
  <2> QED BY <1>2, <2>4, <2>5
<1>3. CASE /\ leases' = [leases EXCEPT ![s] = IF stale THEN 0 ELSE @]
           /\ coordinators' = [coordinators EXCEPT ![k].pc = "settling", ![k].lease = 0]
           /\ UNCHANGED <<run, registry, waits, succeeded, decidedBy>>
  <2>1. RunKeeps
    BY <1>1, <1>3, SameRun
  <2>2. LeasesKeep
    <3> DEFINE g == IF stale THEN 0 ELSE leases[s]
    <3>1. g \in {leases[s], 0}
      OBVIOUS
    <3>2. leases' = [leases EXCEPT ![s] = g]
      BY <1>3
    <3> HIDE DEF g
    <3> QED BY <1>1, <3>1, <3>2, SomeLeaseDropped
  <2> DEFINE a == coordinators[k].state
             r == [coordinators[k] EXCEPT !.pc = "settling", !.state = a, !.lease = 0]
  <2>3. /\ a \in Status \cup {"error"} /\ (a = "succeeded" => succeeded')
        /\ (a = "canceled" => Stopped' \/ Asked)
    BY <1>3, RecordTypes DEF Inv, OutcomesHaveCause, Stopped
  <2>4. coordinators' = [coordinators EXCEPT ![k] = r]
    <3>1. r = [coordinators[k] EXCEPT !.pc = "settling", !.lease = 0]
      BY RecordTypes DEF Coordinator
    <3> HIDE DEF r
    <3> QED BY <1>3, <3>1, SystemTypes
  <2> HIDE DEF a
  <2>5. CoordinatorsKeep
    BY <1>1, <2>1, <2>3, <2>4, RecordGoesOn
  <2> QED BY <1>3, <2>1, <2>2, <2>5, OnlyTheRecord
<1>4. CASE ~Stopping(k) /\ Fail(k, stale) /\ UNCHANGED <<run, succeeded, decidedBy>>
  <2>1. \/ (stale \/ Outdated(k)) /\ Replaced(k, "awaiting")
        \/ End(k, run.status) /\ UNCHANGED waits
        \/ /\ coordinators' = [coordinators EXCEPT ![k].pc = "failing", ![k].lease = 0]
           /\ UNCHANGED <<registry, waits>>
    BY <1>4 DEF Fail
  <2>2. stale \/ Outdated(k) => coordinators[k].generation # run.generation
    BY OutdatedIsOld, StaleIsOld
  <2>3. Get(Mine(k)) /\ UNCHANGED <<run, up, succeeded, decidedBy>> /\ coordinators[k].pc # "ended"
    BY <1>1, <1>4 DEF Fail
  <2> HIDE DEF stale
  <2> QED BY <1>4, <2>1, <2>2, <2>3, FailStep
<1> QED BY <1>2, <1>3, <1>4 DEF Finished, Mine

\* A coordinator takes a step in which its state and its lease stay what they are.
LEMMA RecordOnlyMoves ==
  ASSUME ServerConstants, Inv, RunKeeps, NEW k \in Started, coordinators[k].pc # "ended",
         NEW pc \in {"working", "finishing", "failing", "awaiting", "settling", "ready",
                     "publishing"},
         coordinators' = [coordinators EXCEPT ![k].pc = pc]
  PROVE  CoordinatorsKeep
<1> DEFINE r == [coordinators[k] EXCEPT !.pc = pc]
<1>1. coordinators[k] \in Coordinator
  BY RecordTypes
<1>2. /\ r \in Coordinator /\ r.state = coordinators[k].state /\ r.pc = pc
      /\ r.lease = coordinators[k].lease /\ r.server = coordinators[k].server
      /\ r.generation = coordinators[k].generation
  BY <1>1 DEF Coordinator
<1>3. r.external = coordinators[k].external /\ r.canceled = coordinators[k].canceled
  BY <1>1 DEF Coordinator
<1>4. coordinators' = [coordinators EXCEPT ![k] = r]
  BY SystemTypes
<1> HIDE DEF r
<1>5. RecordKeeps(k, coordinators[k])
  BY RecordsAsTheyWere
<1>6. RecordKeeps(k, r)
  BY <1>2, <1>3, <1>5 DEF RecordKeeps
<1> QED BY <1>4, <1>6, OneCoordinatorMoves

LEMMA StoreFailureStep ==
  ASSUME ServerConstants, Inv, NEW k \in Started, StoreFailure(k)
  PROVE  Quiet
<1> DEFINE s == coordinators[k].server
           r == [coordinators[k] EXCEPT !.pc = "settling", !.state = "failed",
                                        !.lease = coordinators[k].lease]
<1>1. /\ coordinators[k].pc = "failing" /\ UNCHANGED <<registry, waits, up, succeeded>>
      /\ s \in Server /\ k \in 0 .. MaxCoordinators
  BY RecordTypes, SystemTypes DEF StoreFailure, ServerConstants
<1>2. RunKeeps /\ LeasesKeep
  <2>1. CASE run' = [run EXCEPT !.status = "failed"] /\ decidedBy' = k /\ UNCHANGED leases
    <3>1. succeeded' \in BOOLEAN /\ decidedBy' \in 0 .. MaxCoordinators /\ (succeeded => succeeded')
      BY <1>1, <2>1 DEF Inv, ServerTypeOK
    <3> QED BY <1>1, <2>1, <3>1, RunEnds, SameLeases
  <2>2. CASE /\ leases' = [leases EXCEPT ![s] = IF Running THEN 0 ELSE @]
             /\ UNCHANGED <<run, decidedBy>>
    <3> DEFINE g == IF Running THEN 0 ELSE leases[s]
    <3>1. g \in {leases[s], 0} /\ leases' = [leases EXCEPT ![s] = g]
      BY <2>2
    <3> HIDE DEF g
    <3> QED BY <1>1, <2>2, <3>1, SomeLeaseDropped, SameRun
  <2> QED BY <2>1, <2>2 DEF StoreFailure, Mine
<1>3. coordinators' = [coordinators EXCEPT ![k] = r]
  <2>1. r = [coordinators[k] EXCEPT !.pc = "settling", !.state = "failed"]
    BY RecordTypes DEF Coordinator
  <2> HIDE DEF r
  <2> QED BY <2>1, SystemTypes DEF StoreFailure
<1>4. "failed" \in Status \cup {"error"}
  BY DEF Status
<1>5. CoordinatorsKeep
  BY <1>1, <1>2, <1>3, <1>4, RecordGoesOn
<1> QED BY <1>1, <1>2, <1>5, OnlyTheRecord

LEMMA SettleStep ==
  ASSUME ServerConstants, Inv, NEW k \in Started, Settle(k)
  PROVE  Quiet
<1>1. RunKeeps
  BY SameRun DEF Settle
<1>2. CoordinatorsKeep
  BY <1>1, RecordOnlyMoves DEF Settle
<1> QED BY <1>1, <1>2, SameLeases, OnlyTheRecord DEF Settle

LEMMA PublishStep ==
  ASSUME ServerConstants, Inv, NEW k \in Started, Publish(k)
  PROVE  Quiet
<1>1. RunKeeps
  BY SameRun DEF Publish
<1>2. CASE End(k, "error") /\ UNCHANGED leases
  <2>1. CoordinatorsKeep /\ RegistryKeeps /\ CurrentStays
    BY <1>1, <1>2, Ends
  <2> QED BY <1>1, <1>2, <2>1, SameLeases, SameWaits DEF Quiet, Publish
<1>3. CASE /\ coordinators' = [coordinators EXCEPT ![k].pc = "publishing"]
           /\ Get(Mine(k)) /\ UNCHANGED registry
  <2>1. coordinators[k].pc # "ended" /\ UNCHANGED waits
    BY DEF Publish
  <2>2. CoordinatorsKeep
    BY <1>1, <1>3, <2>1, RecordOnlyMoves
  <2>3. LeasesKeep
    BY <1>3, RecordTypes, LeaseRead DEF Mine
  <2> QED BY <1>1, <1>3, <2>1, <2>2, <2>3, OnlyTheRecord
<1> QED BY <1>2, <1>3 DEF Publish

LEMMA CloseStep ==
  ASSUME ServerConstants, Inv, NEW k \in Started, Close(k)
  PROVE  Quiet
<1> DEFINE a == IF coordinators[k].canceled THEN "canceled" ELSE coordinators[k].state
<1>1. RunKeeps
  BY SameRun DEF Close
<1>2. /\ a \in Status \cup {"error"} /\ (a = "succeeded" => succeeded')
      /\ (a = "canceled" => Stopped' \/ Asked)
  <2>1. coordinators[k].state \in Status \cup {"error"} /\ "canceled" \in Status
    BY RecordTypes DEF Status
  <2>2. /\ coordinators[k].state = "succeeded" => succeeded
        /\ coordinators[k].state = "canceled" => Stopped \/ Asked
    BY DEF Inv, OutcomesHaveCause
  <2>3. coordinators[k].canceled => Asked
    BY DEF Asked
  <2>4. succeeded' = succeeded /\ (Stopped' <=> Stopped)
    BY DEF Close, Stopped
  <2> QED BY <2>1, <2>2, <2>3, <2>4
<1>3. End(k, a)
  BY DEF Close
<1> HIDE DEF a
<1>4. CoordinatorsKeep /\ RegistryKeeps /\ CurrentStays
  BY <1>1, <1>2, <1>3, Ends
<1> QED BY <1>1, <1>4, SameLeases, SameWaits DEF Quiet, Close

LEMMA RelayStep ==
  ASSUME ServerConstants, Inv, NEW k \in Started, Relay(k)
  PROVE  Quiet
<1> DEFINE a == IF waits[k].answer = "error" THEN "failed" ELSE waits[k].answer
<1>1. RunKeeps
  BY SameRun DEF Relay
<1>2. k \in Waiter
  BY SystemTypes DEF Waiter, Slot, ServerConstants
<1>3. /\ a \in Status \cup {"error"} /\ (a = "succeeded" => succeeded')
      /\ (a = "canceled" => Stopped' \/ Asked)
  BY <1>2, WaitTypes DEF Relay, Status, Inv, OutcomesHaveCause, Stopped
<1>4. End(k, a)
  BY DEF Relay
<1> HIDE DEF a
<1>5. CoordinatorsKeep /\ RegistryKeeps /\ CurrentStays
  BY <1>1, <1>3, <1>4, Ends
<1> QED BY <1>1, <1>5, SameLeases, SameWaits DEF Quiet, Relay

LEMMA CoordinatorSteps ==
  ASSUME ServerConstants, Inv, NEW k \in Started,
         CoordinatorStep(k) \/ WorkFails(k) \/ Heartbeat(k)
  PROVE  Quiet
BY FinishStep, FinishedStep, StoreFailureStep, SettleStep, PublishStep, CloseStep, RelayStep,
   WorkFailsStep, HeartbeatStep DEF CoordinatorStep

-----------------------------------------------------------------------------
(* Stopping a run by hand, and what befalls a process.                        *)

LEMMA CancelStep ==
  ASSUME ServerConstants, Inv, NEW c \in Caller, Cancel(c)
  PROVE  Quiet
<1> USE CallersWait
<1> DEFINE s == waits[c].server
           k == registry[s]
<1>1. /\ s \in Server /\ waits[c].pc = "idle" /\ registry' = registry
      /\ UNCHANGED <<up, succeeded, decidedBy>>
  BY WaitTypes DEF Cancel
<1>2. CASE k # 0
  <2>1. k \in Started /\ k # 0 /\ k \in 0 .. MaxCoordinators /\ k <= Len(coordinators)
    BY <1>1, <1>2, RegisteredStarted, SystemTypes
  <2> DEFINE old == coordinators[k]
             a == IF old.canceled THEN old.state ELSE "canceled"
             p == IF old.persistence = "none" THEN "pending" ELSE old.persistence
             d == [old EXCEPT !.state = a, !.persistence = p]
             r == [d EXCEPT !.canceled = TRUE]
  <2>2. run' = run /\ Get(s)
        /\ waits' = [waits EXCEPT ![c].pc = "canceling", ![c].at = k]
        /\ coordinators' = [coordinators EXCEPT ![k].canceled = TRUE, ![k].state = a,
                                                ![k].persistence = p]
    BY <1>2 DEF Cancel, Home
  <2>3. RunKeeps /\ LeasesKeep
    BY <1>1, <2>2, SameRun, LeaseRead
  <2>4. old \in Coordinator /\ a \in Status \cup {"error"}
        /\ p \in {"none", "pending", "done", "failed"}
    <3>1. old \in Coordinator
      BY <2>1, RecordTypes
    <3> QED BY <3>1 DEF Coordinator, Status
  <2>5. (a = "succeeded" => old.state = "succeeded")
    OBVIOUS
  <2> HIDE DEF old, a, p
  <2>6. /\ d \in Coordinator /\ d.state = a /\ d.pc = old.pc /\ d.lease = old.lease
        /\ d.server = old.server /\ d.generation = old.generation
    BY <2>4 DEF Coordinator
  <2>7. d.external = old.external
    BY <2>4 DEF Coordinator
  <2>8. r = [old EXCEPT !.canceled = TRUE, !.state = a, !.persistence = p]
    BY <2>4 DEF Coordinator
  <2>9. coordinators' = [coordinators EXCEPT ![k] = r]
    <3> HIDE DEF r
    <3> QED BY <2>1, <2>2, <2>8, SystemTypes DEF old
  <2> HIDE DEF d
  <2>10. /\ r \in Coordinator /\ r.state = a /\ r.pc = old.pc /\ r.lease = old.lease
         /\ r.server = old.server /\ r.generation = old.generation
    BY <2>6 DEF Coordinator
  <2>11. r.external = old.external /\ r.canceled
    BY <2>6, <2>7 DEF Coordinator
  <2> HIDE DEF r
  <2>12. old.state = "succeeded" => succeeded'
    BY <1>1, <2>1 DEF old, Inv, OutcomesHaveCause
  <2>13. RecordKeeps(k, r)
    BY <2>5, <2>10, <2>11, <2>12 DEF RecordKeeps, old
  <2>14. CoordinatorsKeep
    BY <2>1, <2>3, <2>9, <2>13, OneCoordinatorMoves
  <2> DEFINE x == [waits[c] EXCEPT !.pc = "canceling", !.at = k]
  <2>15. waits' = [waits EXCEPT ![c] = x]
    BY <2>2, SystemTypes
  <2>16. /\ x \in Wait /\ x.pc = "canceling" /\ x.at = k /\ x.lease = waits[c].lease
         /\ x.answer = waits[c].answer
    <3>1. waits[c] \in Wait
      BY WaitTypes
    <3> QED BY <2>1, <3>1 DEF Wait
  <2>17. waits[c].lease = 0
    BY <1>1 DEF Inv, WaitsAreInOrder
  <2> HIDE DEF x
  <2>18. WaitKeeps(c, waits[c])
    BY <2>3, WaitsAsTheyWere
  <2>19. WaitKeeps(c, x)
    BY <2>1, <2>16, <2>17, <2>18 DEF WaitKeeps
  <2>20. WaitsKeep
    BY <2>3, <2>15, <2>19, OneWaitMoves
  <2> QED BY <1>1, <2>3, <2>14, <2>20, SameRegistry DEF Quiet
<1>3. CASE /\ CanCancel /\ StoreCancellation /\ Answer(c, "canceled")
           /\ UNCHANGED <<leases, coordinators>>
  <2>1. succeeded' \in BOOLEAN /\ decidedBy' \in 0 .. MaxCoordinators /\ (succeeded => succeeded')
    BY <1>1 DEF Inv, ServerTypeOK
  <2>2. RunKeeps
    BY <1>1, <1>3, <2>1, RunEnds DEF StoreCancellation
  <2>3. Stopped' /\ "canceled" \in Status \cup {"error"}
    BY <1>3 DEF StoreCancellation, Stopped, Status, Inv, ServerTypeOK
  <2>4. WaitsKeep
    BY <1>3, <2>2, <2>3, Answers
  <2> QED BY <1>1, <1>3, <2>2, <2>4, SameLeases, SameRegistry, SameCoordinators DEF Quiet
<1>4. CASE Answer(c, "error") /\ UNCHANGED <<run, leases, coordinators>>
  <2>1. RunKeeps
    BY <1>1, <1>4, SameRun
  <2>2. WaitsKeep
    BY <1>4, <2>1, Answers
  <2> QED BY <1>1, <1>4, <2>1, <2>2, SameLeases, SameRegistry, SameCoordinators DEF Quiet
<1> QED BY <1>2, <1>3, <1>4 DEF Cancel, Home

LEMMA PersistCancellationStep ==
  ASSUME ServerConstants, Inv, NEW c \in Caller, PersistCancellation(c)
  PROVE  Quiet
<1> USE CallersWait
<1> DEFINE k == waits[c].at
           old == coordinators[k]
           p == IF old.persistence # "pending" THEN old.persistence
                ELSE IF CanCancel THEN "done" ELSE "failed"
           r == [old EXCEPT !.persistence = p]
<1>1. /\ k \in Started /\ waits[c].pc = "canceling"
      /\ UNCHANGED <<leases, registry, up, succeeded, decidedBy>>
  BY WaitTypes, SystemTypes DEF PersistCancellation, Inv, WaitsAreInOrder
<1>2. \/ CanCancel /\ StoreCancellation /\ waits' = [waits EXCEPT ![c].pc = "confirming"]
      \/ Answer(c, "error") /\ UNCHANGED run
  BY DEF PersistCancellation
<1>3. coordinators' = [coordinators EXCEPT ![k].persistence = p]
  BY DEF PersistCancellation
<1>4. old \in Coordinator /\ p \in {"none", "pending", "done", "failed"}
  <2>1. old \in Coordinator
    BY <1>1, RecordTypes
  <2> QED BY <2>1 DEF Coordinator
<1> HIDE DEF old, p
<1>5. /\ r \in Coordinator /\ r.state = old.state /\ r.pc = old.pc /\ r.lease = old.lease
      /\ r.server = old.server /\ r.generation = old.generation
  BY <1>4 DEF Coordinator
<1>6. r.external = old.external /\ r.canceled = old.canceled
  BY <1>4 DEF Coordinator
<1>7. coordinators' = [coordinators EXCEPT ![k] = r]
  BY <1>1, <1>3, SystemTypes DEF old
<1> HIDE DEF r
<1>8. RunKeeps /\ (Stopped => Stopped')
  <2>1. CASE StoreCancellation
    <3>1. succeeded' \in BOOLEAN /\ decidedBy' \in 0 .. MaxCoordinators /\ (succeeded => succeeded')
      BY <1>1 DEF Inv, ServerTypeOK
    <3>2. RunKeeps
      BY <1>1, <2>1, <3>1, RunEnds DEF StoreCancellation
    <3> QED BY <3>2 DEF RunKeeps
  <2>2. CASE UNCHANGED run
    <3>1. RunKeeps
      BY <1>1, <2>2, SameRun
    <3> QED BY <3>1 DEF RunKeeps
  <2> QED BY <1>2, <2>1, <2>2
<1>9. RecordKeeps(k, old)
  BY <1>1, <1>8, RecordsAsTheyWere DEF old
<1>10. RecordKeeps(k, r)
  BY <1>5, <1>6, <1>9 DEF RecordKeeps, old
<1>11. CoordinatorsKeep
  BY <1>1, <1>7, <1>8, <1>10, OneCoordinatorMoves
<1>12. WaitsKeep
  <2>1. CASE StoreCancellation /\ waits' = [waits EXCEPT ![c].pc = "confirming"]
    <3> DEFINE x == [waits[c] EXCEPT !.pc = "confirming"]
    <3>1. waits[c] \in Wait /\ waits' = [waits EXCEPT ![c] = x]
      BY <2>1, WaitTypes, SystemTypes
    <3>2. /\ x \in Wait /\ x.pc = "confirming" /\ x.at = waits[c].at /\ x.lease = waits[c].lease
          /\ x.answer = waits[c].answer
      BY <3>1 DEF Wait
    <3>3. waits[c].lease = 0
      BY <1>1 DEF Inv, WaitsAreInOrder
    <3>4. Stopped'
      BY <2>1 DEF StoreCancellation, Stopped, Inv, ServerTypeOK
    <3> HIDE DEF x
    <3>5. WaitKeeps(c, waits[c])
      BY <1>8, WaitsAsTheyWere
    <3>6. WaitKeeps(c, x)
      BY <1>1, <3>2, <3>3, <3>4, <3>5 DEF WaitKeeps
    <3> QED BY <1>8, <3>1, <3>6, OneWaitMoves
  <2>2. CASE Answer(c, "error")
    BY <1>8, <2>2, Answers
  <2> QED BY <1>2, <2>1, <2>2
<1> QED BY <1>1, <1>8, <1>11, <1>12, SameLeases, SameRegistry DEF Quiet

LEMMA ConfirmStep ==
  ASSUME ServerConstants, Inv, NEW c \in Caller, Confirm(c)
  PROVE  Quiet
<1> USE CallersWait
<1>1. RunKeeps
  BY SameRun DEF Confirm
<1>2. Stopped' /\ "canceled" \in Status \cup {"error"}
  <2>1. Stopped
    BY DEF Confirm, Inv, OutcomesHaveCause
  <2> QED BY <1>1, <2>1 DEF RunKeeps, Status
<1>3. Answer(c, "canceled")
  BY DEF Confirm
<1>4. WaitsKeep
  BY <1>1, <1>2, <1>3, Answers
<1> QED BY <1>1, <1>4, SameLeases, SameRegistry, SameCoordinators DEF Quiet, Confirm

LEMMA FailByHandStep ==
  ASSUME ServerConstants, Inv, NEW c \in Caller, FailByHand(c)
  PROVE  Quiet
<1> USE CallersWait
<1> DEFINE s == waits[c].server
           k == registry[s]
<1>1. /\ s \in Server /\ UNCHANGED <<leases, registry, up, succeeded, decidedBy>>
  BY WaitTypes DEF FailByHand
<1>2. CASE Answer(c, "error") /\ UNCHANGED <<run, coordinators>>
  <2>1. RunKeeps
    BY <1>1, <1>2, SameRun
  <2>2. WaitsKeep
    BY <1>2, <2>1, Answers
  <2> QED BY <1>1, <1>2, <2>1, <2>2, SameLeases, SameRegistry, SameCoordinators DEF Quiet
<1>3. CASE Running
  <2>1. /\ run' = [run EXCEPT !.status = "failed"] /\ Answer(c, "failed")
        /\ \/ coordinators' = coordinators
           \/ /\ k # 0
              /\ coordinators' = [coordinators EXCEPT ![k].external = TRUE,
                                                      ![k].state = "failed"]
    BY <1>3 DEF FailByHand, Home
  <2>2. RunKeeps
    <3>1. succeeded' \in BOOLEAN /\ decidedBy' \in 0 .. MaxCoordinators /\ (succeeded => succeeded')
      BY <1>1 DEF Inv, ServerTypeOK
    <3> QED BY <1>1, <2>1, <3>1, RunEnds
  <2>3. WaitsKeep
    BY <2>1, <2>2, Answers DEF Status
  <2>4. CoordinatorsKeep
    <3>1. CASE coordinators' = coordinators
      BY <2>2, <3>1, SameCoordinators
    <3>2. CASE /\ k # 0
               /\ coordinators' = [coordinators EXCEPT ![k].external = TRUE,
                                                       ![k].state = "failed"]
      <4>1. k \in Started
        BY <1>1, <3>2, RegisteredStarted
      <4> DEFINE old == coordinators[k]
                 d == [old EXCEPT !.state = "failed"]
                 r == [d EXCEPT !.external = TRUE]
      <4>2. old \in Coordinator
        BY <4>1, RecordTypes
      <4> HIDE DEF old
      <4>3. /\ d \in Coordinator /\ d.state = "failed" /\ d.pc = old.pc /\ d.lease = old.lease
            /\ d.server = old.server /\ d.generation = old.generation
        BY <4>2 DEF Coordinator, Status
      <4>4. d.canceled = old.canceled
        BY <4>2 DEF Coordinator
      <4>5. r = [old EXCEPT !.external = TRUE, !.state = "failed"]
        BY <4>2 DEF Coordinator
      <4>6. coordinators' = [coordinators EXCEPT ![k] = r]
        <5> HIDE DEF r
        <5> QED BY <3>2, <4>1, <4>5, SystemTypes DEF old
      <4> HIDE DEF d
      <4>7. /\ r \in Coordinator /\ r.state = "failed" /\ r.pc = old.pc /\ r.lease = old.lease
            /\ r.server = old.server /\ r.generation = old.generation
        BY <4>3 DEF Coordinator
      <4>8. r.external /\ r.canceled = old.canceled
        BY <4>3, <4>4 DEF Coordinator
      <4> HIDE DEF r
      <4>9. RecordKeeps(k, r)
        BY <4>7, <4>8 DEF RecordKeeps, old
      <4> QED BY <2>2, <4>1, <4>6, <4>9, OneCoordinatorMoves
    <3> QED BY <2>1, <3>1, <3>2
  <2> QED BY <1>1, <2>2, <2>3, <2>4, SameLeases, SameRegistry DEF Quiet
<1> QED BY <1>2, <1>3 DEF FailByHand

LEMMA ExpireStep ==
  ASSUME ServerConstants, Inv, Expire
  PROVE  Quiet
<1>1. RunKeeps
  BY DEF Expire, Inv, ServerTypeOK, OutcomesHaveCause, RunKeeps, Stopped
<1> QED BY <1>1, SameLeases, SameRegistry, SameCoordinators, SameWaits DEF Quiet, Expire

LEMMA CrashStep ==
  ASSUME ServerConstants, Inv, NEW s \in Server, Crash(s)
  PROVE  Quiet
<1> USE SystemTypes
<1>1. RunKeeps
  <2>1. up' \in [Server -> BOOLEAN]
    BY DEF Crash, Inv, ServerTypeOK
  <2> QED BY <2>1 DEF Crash, Inv, ServerTypeOK, OutcomesHaveCause, RunKeeps, Stopped
<1>2. LeasesKeep
  <2>1. 0 \in {leases[s], 0}
    OBVIOUS
  <2> QED BY <2>1, SomeLeaseDropped DEF Crash
<1>3. CoordinatorsKeep
  <2> DEFINE rec(k) == IF Mine(k) = s /\ coordinators[k].pc # "ended" THEN Ended(k, "error")
                       ELSE coordinators[k]
  <2>1. coordinators' = [k \in Started |-> rec(k)]
    BY DEF Crash
  <2>2. \A k \in Started : RecordKeeps(k, rec(k))
    BY <1>1, EndedRecord, RecordsAsTheyWere
  <2> HIDE DEF rec
  <2>3. \A k \in Started : coordinators'[k] = rec(k) /\ rec(k) \in Coordinator
    BY <2>1, <2>2 DEF RecordKeeps
  <2>4. coordinators' \in Seq(Coordinator) /\ Len(coordinators') = Len(coordinators)
    BY <2>1, <2>3
  <2> QED BY <2>2, <2>3, <2>4 DEF CoordinatorsKeep
<1>4. RegistryKeeps /\ CurrentStays
  <2>1. registry' = [registry EXCEPT ![s] = 0] /\ 0 \in 0 .. MaxCoordinators
    <3>1. registry' = [registry EXCEPT ![s] = 0]
      BY DEF Crash
    <3>2. 0 \in 0 .. MaxCoordinators
      BY DEF ServerConstants
    <3> QED BY <3>1, <3>2
  <2>2. RegistryKeeps
    BY <2>1 DEF RegistryKeeps
  <2>3. ASSUME NEW k \in Started, coordinators'[k].pc # "ended",
               registry[coordinators[k].server] = k
        PROVE  registry'[coordinators[k].server] = k
    <3>1. coordinators[k].server # s
      <4>1. Ended(k, "error").pc = "ended"
        BY EndedRecord
      <4>2. coordinators'[k] = IF coordinators[k].server = s /\ coordinators[k].pc # "ended"
                               THEN Ended(k, "error") ELSE coordinators[k]
        BY DEF Crash, Mine
      <4> QED BY <2>3, <4>1, <4>2
    <3> QED BY <2>1, <2>3, <3>1, RecordTypes
  <2> QED BY <2>2, <2>3 DEF CurrentStays
<1>5. WaitsKeep
  <2> DEFINE wt(w) == IF Home(w) = s /\ waits[w].pc \notin {"idle", "answered"}
                      THEN [waits[w] EXCEPT !.pc = "gone", !.at = 0, !.lease = 0] ELSE waits[w]
  <2>1. waits' = [w \in Waiter |-> wt(w)]
    BY DEF Crash
  <2>2. ASSUME NEW w \in Waiter
        PROVE  WaitKeeps(w, wt(w))
    <3>1. /\ WaitKeeps(w, waits[w]) /\ waits[w] \in Wait
          /\ 0 \in Generation /\ 0 \in 0 .. MaxCoordinators
      BY <1>1, WaitsAsTheyWere, WaitTypes DEF ServerConstants, Generation
    <3>2. CASE Home(w) = s /\ waits[w].pc \notin {"idle", "answered"}
      <4> DEFINE x == [waits[w] EXCEPT !.pc = "gone", !.at = 0, !.lease = 0]
      <4>1. x \in Wait /\ x.pc = "gone" /\ x.lease = 0 /\ x.answer = waits[w].answer
        BY <3>1 DEF Wait
      <4>2. wt(w) = x
        BY <3>2
      <4> HIDE DEF x
      <4>3. WaitKeeps(w, x)
        BY <3>1, <3>2, <4>1 DEF WaitKeeps
      <4> QED BY <4>2, <4>3
    <3> QED BY <3>1, <3>2
  <2> HIDE DEF wt
  <2>3. \A w \in Waiter : wt(w) \in Wait
    BY <2>2 DEF WaitKeeps
  <2> QED BY <2>1, <2>2, <2>3 DEF WaitsKeep
<1> QED BY <1>1, <1>2, <1>3, <1>4, <1>5 DEF Quiet

-----------------------------------------------------------------------------
(* The theorems.                                                              *)

LEMMA InitIsSound ==
  ASSUME ServerConstants, ServerInit
  PROVE  Inv
<1>1. /\ 1 \in Generation /\ 0 \in Generation /\ 0 \in 0 .. MaxCoordinators /\ 1 # 0
      /\ coordinators = <<>>
  BY DEF ServerConstants, Generation, ServerInit
<1>2. Started = {} /\ Len(coordinators) = 0 /\ coordinators \in Seq(Coordinator)
  BY <1>1 DEF Started
<1>3. \A w \in Waiter : \E s \in Server :
        waits[w] = [pc |-> "idle", server |-> s, at |-> 0, lease |-> 0, answer |-> "running"]
  BY DEF ServerInit, Waiter
<1>4. \A w \in Waiter :
         waits[w].pc = "idle" /\ waits[w].lease = 0 /\ waits[w].answer = "running"
  <2> SUFFICES ASSUME NEW w \in Waiter
               PROVE  waits[w].pc = "idle" /\ waits[w].lease = 0 /\ waits[w].answer = "running"
    OBVIOUS
  <2>1. PICK s \in Server :
          waits[w] = [pc |-> "idle", server |-> s, at |-> 0, lease |-> 0, answer |-> "running"]
    BY <1>3
  <2> QED BY <2>1
<1>5. waits \in [Waiter -> Wait]
  <2>1. \A s \in Server :
          [pc |-> "idle", server |-> s, at |-> 0, lease |-> 0, answer |-> "running"] \in Wait
    BY <1>1 DEF Wait, Status
  <2>2. waits \in [Waiter -> {[pc |-> "idle", server |-> s, at |-> 0, lease |-> 0,
                               answer |-> "running"] : s \in Server}]
    BY DEF ServerInit, Waiter
  <2> QED BY <2>1, <2>2
<1>6. /\ run = [status |-> "running", generation |-> 1, fresh |-> FALSE]
      /\ run \in [status : Status, generation : Generation, fresh : BOOLEAN]
  BY <1>1 DEF ServerInit, Status
<1>7. ServerTypeOK
  <2>1. leases \in [Server -> Generation] /\ registry \in [Server -> 0 .. MaxCoordinators]
        /\ up \in [Server -> BOOLEAN] /\ succeeded \in BOOLEAN /\ decidedBy \in 0 .. MaxCoordinators
    BY <1>1 DEF ServerInit
  <2>2. Len(coordinators) <= MaxCoordinators
    BY <1>2 DEF ServerConstants
  <2> QED BY <1>2, <1>5, <1>6, <2>1, <2>2 DEF ServerTypeOK, Waiter
<1>8. TokensAreExclusive
  <2>1. \A s \in Server, g \in Granted : ~Token(s, g)
    BY <1>2, <1>4 DEF Token, Granted, ServerInit
  <2> QED BY <1>6, <2>1 DEF TokensAreExclusive
<1>9. LeasesAreLater /\ CurrentIsRegistered
  BY <1>2 DEF LeasesAreLater, CurrentIsRegistered, ServerInit
<1>10. WaitsAreInOrder
  <2>1. \A w \in Waiter : waits[w].pc = "idle" /\ waits[w].lease = 0
    BY <1>4
  <2>2. \A k \in Slot : waits[k].pc = "idle"
    BY <2>1 DEF Waiter
  <2> QED BY <2>1, <2>2 DEF WaitsAreInOrder
<1>11. OutcomesHaveCause
  <2>1. \A w \in Waiter : waits[w].pc = "idle" /\ waits[w].answer = "running"
    BY <1>4
  <2> QED BY <1>2, <1>6, <2>1 DEF OutcomesHaveCause
<1> QED BY <1>7, <1>8, <1>9, <1>10, <1>11 DEF Inv

LEMMA StutterKeeps ==
  ASSUME Inv, UNCHANGED vars
  PROVE  Inv'
BY DEF vars, Inv, ServerTypeOK, TokensAreExclusive, Token, LeasesAreLater, CurrentIsRegistered,
       WaitsAreInOrder, OutcomesHaveCause, Stopped, Asked, Started, Waiter

LEMMA StepKeeps ==
  ASSUME ServerConstants, Inv, ServerNext
  PROVE  Inv'
<1>1. ASSUME NEW c \in Caller, Begin(c) \/ Cancel(c) \/ FailByHand(c)
      PROVE  Inv'
  BY <1>1, BeginStep, CancelStep, FailByHandStep, QuietKeeps
<1>2. ASSUME NEW w \in Waiter, CallStep(w)
      PROVE  Inv'
  BY <1>2, ClaimStep, PollStep, HearStep, JoinStep, PersistCancellationStep, ConfirmStep,
     QuietKeeps DEF CallStep
<1>3. ASSUME NEW k \in Started, CoordinatorStep(k) \/ WorkFails(k) \/ Heartbeat(k)
      PROVE  Inv'
  BY <1>3, CoordinatorSteps, QuietKeeps
<1>4. CASE Expire
  BY <1>4, ExpireStep, QuietKeeps
<1>5. ASSUME NEW s \in Server, Crash(s)
      PROVE  Inv'
  BY <1>5, CrashStep, QuietKeeps
<1>6. DOMAIN waits = Waiter
  BY SystemTypes
<1> QED BY <1>1, <1>2, <1>3, <1>4, <1>5, <1>6 DEF ServerNext

\* However many processes start, join, observe, adopt, cancel and crash, the tokens of a
\* generation stay in one process, the registry knows the coordinator of the current
\* generation, and what is told has a cause.
THEOREM ServerInvariant ==
  ASSUME ServerConstants
  PROVE  ServerSpec => []Inv
<1>1. ServerInit => Inv
  BY InitIsSound
<1>2. Inv /\ [ServerNext]_vars => Inv'
  BY StepKeeps, StutterKeeps
<1> QED BY <1>1, <1>2, PTL DEF ServerSpec

\* Runs, leases, coordinators and calls keep to the values they declare.
THEOREM ServerTypeCorrect ==
  ASSUME ServerConstants
  PROVE  ServerSpec => []ServerTypeOK
<1>1. Inv => ServerTypeOK
  BY DEF Inv
<1> QED BY <1>1, ServerInvariant, PTL

\* Two processes never hold the lease of the current generation at once, and over all
\* processes at most one coordinator of that generation is at work.
THEOREM OneProcessLeads ==
  ASSUME ServerConstants
  PROVE  ServerSpec => [](LeaseIsExclusive /\ OneCoordinator)
<1>1. ASSUME Inv
      PROVE  LeaseIsExclusive
  <2>1. run.generation \in Granted
    BY <1>1 DEF Inv, ServerTypeOK, TokensAreExclusive, Granted
  <2> QED BY <1>1, <2>1 DEF Inv, TokensAreExclusive, Token, LeaseIsExclusive
<1>2. ASSUME Inv, NEW j \in Started, NEW k \in Started,
             coordinators[j].generation = run.generation, coordinators[j].pc # "ended",
             coordinators[k].generation = run.generation, coordinators[k].pc # "ended"
      PROVE  j = k
  <2>1. run.generation \in Granted
    BY <1>2 DEF Inv, ServerTypeOK, TokensAreExclusive, Granted
  <2>2. registry[coordinators[j].server] = j /\ registry[coordinators[k].server] = k
    BY <1>2 DEF Inv, CurrentIsRegistered
  <2>3. /\ coordinators[j].server \in Server /\ coordinators[k].server \in Server
        /\ Token(coordinators[j].server, run.generation)
        /\ Token(coordinators[k].server, run.generation)
    BY <1>2, RecordTypes DEF Token
  <2>4. coordinators[j].server = coordinators[k].server
    BY <1>2, <2>1, <2>3 DEF Inv, TokensAreExclusive
  <2> QED BY <2>2, <2>4
<1>3. Inv => LeaseIsExclusive /\ OneCoordinator
  BY <1>1, <1>2 DEF OneCoordinator
<1> QED BY <1>3, ServerInvariant, PTL

\* No call is told of a success that never was, or of a cancellation that nobody asked for.
THEOREM AnswersHaveACause ==
  ASSUME ServerConstants
  PROVE  ServerSpec => []AnswersHaveCause
<1>1. Inv => AnswersHaveCause
  BY DEF Inv, OutcomesHaveCause, AnswersHaveCause, Waiter
<1> QED BY <1>1, ServerInvariant, PTL
=============================================================================
