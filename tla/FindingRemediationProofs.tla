----------------------- MODULE FindingRemediationProofs -----------------------
(***************************************************************************)
(* What becomes of findings: what their repair guarantees for any number of  *)
(* attempts, tokens, edits and commands in flight; what the groups of        *)
(* duplicates are, for any number of findings and decisions; what a workflow *)
(* that publishes and groups them does over failures and deaths; and what a  *)
(* validation of the caller's leaves of them.                                *)
(***************************************************************************)
EXTENDS FindingRemediation, Deduplication, FindingsWorkflow, CustomValidation,
        FiniteSetTheorems, SequenceTheorems, TLAPS

(* What holds of one attempt, whatever was done to it.                       *)
Reviewed(a) ==
    /\ a.applied # None => a.applied = WithPatch(a.base, a.request)
    /\ a.state \in {"applied", "verifying", "verified"} => a.applied # None
    /\ a.state \in {"requested", "generated"} => a.applied = None

GoodAttempt(a) ==
    /\ a \in Attempt
    /\ (a.token = None) <=> (a.age = "none")
    /\ a.token # None => a.pending # None
    /\ a.delivered => a.token # None
    /\ Reviewed(a)
    /\ a.pending = "generate" => a.state \in {"requested", "failed"} /\ a.applied = None
    /\ a.pending = "apply" => a.state \in {"generated", "failed"}
    /\ a.pending = "verify" => a.applied # None
    /\ a.state = "superseded" =>
          a.pending = None /\ a.before = (IF a.applied # None THEN "applied" ELSE "generated")

\* Nothing can be done any more to an attempt that others followed.
Settled(a) ==
    a.pending = None /\ a.token = None /\ a.state \in {"superseded", "verified", "failed"}

\* What a command in flight was validated against.
GoodCommand(c) ==
    /\ c \in Command
    /\ c.read.version < MaxVersion
    /\ c.cmd = "action" =>
          /\ c.read.pending = None
          /\ \/ c.to = "apply" /\ c.read.state = "generated"
             \/ c.to = "verify" /\ c.read.state = "applied" /\ c.read.applied # None
    /\ c.cmd = "set" =>
          /\ c.to \in State
          /\ MayMove(c.read.state, c.to) /\ PendingAllows(c.read.pending, c.to)
          /\ c.applied = IF c.to = "applied" THEN WithPatch(c.read.base, c.read.request)
                         ELSE c.read.applied

\* A version stands for the state in which it was read.  A failed attempt can lose its
\* pending operation without a new version.
SameState(a, b) ==
    /\ a.state = b.state /\ a.applied = b.applied
    /\ a.pending = b.pending \/ (a.state = "failed" /\ a.pending = None)

Agrees(a, c) ==
    a.request = c.read.request =>
        /\ a.base = c.read.base /\ a.version >= c.read.version
        /\ a.version = c.read.version => SameState(a, c.read)

\* What a step may make of an attempt.
Evolves(a, b) ==
    /\ b.request = a.request /\ b.base = a.base
    /\ b.version > a.version \/ (b.version = a.version /\ SameState(b, a))

QueueInv ==
    /\ attempts \in Seq(Attempt)
    /\ \A i \in DOMAIN attempts : GoodAttempt(attempts[i])
    /\ \A i \in DOMAIN attempts : i < Len(attempts) => Settled(attempts[i])
    /\ \A i, j \in DOMAIN attempts : attempts[i].request = attempts[j].request => i = j
    /\ \A i \in DOMAIN attempts : attempts[i].request \notin canceledIds
    /\ canceledIds \subseteq Request

FlightInv ==
    /\ IsFiniteSet(inFlight) /\ Cardinality(inFlight) <= MaxInFlight
    /\ \A c \in inFlight :
          /\ GoodCommand(c) /\ c.read.request \in Ids \cup canceledIds
          /\ \A i \in DOMAIN attempts : Agrees(attempts[i], c)

ClosedInv ==
    /\ triage \in {"open", "closed"}
    /\ triage = "closed" =>
          \A i \in DOMAIN attempts : attempts[i].pending # None => attempts[i].state = "failed"

RemediationInv == QueueInv /\ FlightInv /\ ClosedInv /\ checkout \in Content

-----------------------------------------------------------------------------
(* Attempts, one by one.                                                    *)

LEMMA PlaceIsThere ==
  ASSUME NEW r, r \in Ids
  PROVE  Place(r) \in DOMAIN attempts /\ attempts[Place(r)].request = r
BY DEF Ids, Place

LEMMA ClaimedIsGood ==
  ASSUME NEW a, GoodAttempt(a), a.pending # None, NEW k \in ActionToken
  PROVE  /\ GoodAttempt(Claimed(a, k)) /\ Evolves(a, Claimed(a, k))
         /\ Claimed(a, k).token = k
         /\ Claimed(a, k).pending = a.pending /\ Claimed(a, k).state = a.state
<1>1. /\ Claimed(a, k) \in Attempt
      /\ Claimed(a, k).token = k /\ Claimed(a, k).age = "fresh"
      /\ Claimed(a, k).request = a.request /\ Claimed(a, k).state = a.state
      /\ Claimed(a, k).version = a.version /\ Claimed(a, k).base = a.base
      /\ Claimed(a, k).applied = a.applied /\ Claimed(a, k).pending = a.pending
      /\ Claimed(a, k).before = a.before
  BY DEF Claimed, GoodAttempt, Attempt
<1>2. ~Claimed(a, k).delivered
  BY Zenon DEF Claimed, GoodAttempt, Attempt
<1>3. Reviewed(Claimed(a, k))
  BY <1>1 DEF GoodAttempt, Reviewed
<1>. HIDE DEF Claimed
<1>4. GoodAttempt(Claimed(a, k))
  BY <1>1, <1>2, <1>3, RemediationAssumption DEF GoodAttempt
<1>5. Evolves(a, Claimed(a, k))
  BY <1>1 DEF Evolves, SameState
<1>. QED BY <1>1, <1>4, <1>5

LEMMA UnclaimedIsGood ==
  ASSUME NEW a, GoodAttempt(a)
  PROVE  /\ GoodAttempt(Unclaimed(a)) /\ Evolves(a, Unclaimed(a))
         /\ Unclaimed(a).token = None
         /\ Unclaimed(a).pending = a.pending /\ Unclaimed(a).state = a.state
<1>1. /\ Unclaimed(a) \in Attempt
      /\ Unclaimed(a).token = None /\ Unclaimed(a).age = "none"
      /\ Unclaimed(a).request = a.request /\ Unclaimed(a).state = a.state
      /\ Unclaimed(a).version = a.version /\ Unclaimed(a).base = a.base
      /\ Unclaimed(a).applied = a.applied /\ Unclaimed(a).pending = a.pending
      /\ Unclaimed(a).before = a.before
  BY DEF Unclaimed, GoodAttempt, Attempt
<1>2. ~Unclaimed(a).delivered
  BY Zenon DEF Unclaimed, GoodAttempt, Attempt
<1>3. Reviewed(Unclaimed(a))
  BY <1>1 DEF GoodAttempt, Reviewed
<1>4. GoodAttempt(Unclaimed(a))
  BY <1>1, <1>2, <1>3 DEF GoodAttempt
<1>5. Evolves(a, Unclaimed(a))
  BY <1>1 DEF Evolves, SameState
<1>. QED BY <1>1, <1>4, <1>5
LEMMA UnpendedIsGood ==
  ASSUME NEW a, GoodAttempt(a)
  PROVE  /\ GoodAttempt(Unpended(a))
         /\ Unpended(a).token = None /\ Unpended(a).pending = None
         /\ Unpended(a).request = a.request /\ Unpended(a).state = a.state
         /\ Unpended(a).version = a.version /\ Unpended(a).base = a.base
         /\ Unpended(a).applied = a.applied /\ Unpended(a).before = a.before
<1>1. /\ Unpended(a) \in Attempt
      /\ Unpended(a).token = None /\ Unpended(a).age = "none"
      /\ Unpended(a).request = a.request /\ Unpended(a).state = a.state
      /\ Unpended(a).version = a.version /\ Unpended(a).base = a.base
      /\ Unpended(a).applied = a.applied /\ Unpended(a).pending = None
      /\ Unpended(a).before = a.before
  BY DEF Unpended, Unclaimed, GoodAttempt, Attempt
<1>2. ~Unpended(a).delivered
  BY Zenon DEF Unpended, Unclaimed, GoodAttempt, Attempt
<1>3. Reviewed(Unpended(a))
  BY <1>1 DEF GoodAttempt, Reviewed
<1>4. GoodAttempt(Unpended(a))
  BY <1>1, <1>2, <1>3, RemediationAssumption DEF GoodAttempt, Action
<1>. QED BY <1>1, <1>4

LEMMA NewerIsGood ==
  ASSUME NEW a, GoodAttempt(a), a.version < MaxVersion
  PROVE  /\ GoodAttempt(Newer(a))
         /\ Newer(a).token = a.token /\ Newer(a).pending = a.pending
         /\ Newer(a).request = a.request /\ Newer(a).state = a.state
         /\ Newer(a).version = a.version + 1 /\ Newer(a).base = a.base
         /\ Newer(a).applied = a.applied /\ Newer(a).before = a.before
         /\ Newer(a).age = a.age
<1>1. /\ Newer(a) \in Attempt
      /\ Newer(a).token = a.token /\ Newer(a).age = a.age
      /\ Newer(a).request = a.request /\ Newer(a).state = a.state
      /\ Newer(a).version = a.version + 1 /\ Newer(a).base = a.base
      /\ Newer(a).applied = a.applied /\ Newer(a).pending = a.pending
      /\ Newer(a).before = a.before
  BY RemediationAssumption DEF Newer, GoodAttempt, Attempt
<1>2. Newer(a).delivered = a.delivered
  BY Zenon DEF Newer, GoodAttempt, Attempt
<1>3. Reviewed(Newer(a))
  BY <1>1 DEF GoodAttempt, Reviewed
<1>4. GoodAttempt(Newer(a))
  BY <1>1, <1>2, <1>3 DEF GoodAttempt
<1>. QED BY <1>1, <1>4

LEMMA NewVersionsEvolve ==
  ASSUME NEW a, a \in Attempt, NEW b, b.request = a.request, b.base = a.base,
         b.version = a.version + 1
  PROVE  Evolves(a, b)
BY DEF Evolves, Attempt

\* An attempt makes way settled.
LEMMA SupersededIsGood ==
  ASSUME NEW a, GoodAttempt(a), MakesWay(a),
         a.state \in {"generated", "applied"} => a.version < MaxVersion
  PROVE  /\ GoodAttempt(Superseded(a)) /\ Evolves(a, Superseded(a)) /\ Settled(Superseded(a))
         /\ a.state = "superseded" => Superseded(a).state = "superseded"
         /\ Superseded(a).request = a.request
<1>1. CASE a.state \in {"generated", "applied"}
  <2> DEFINE u == Newer(Unpended(a))
             s == [u EXCEPT !.state = "superseded", !.before = a.state]
  <2>1. Superseded(a) = s
    BY <1>1 DEF Superseded
  <2>2. /\ GoodAttempt(u) /\ u.token = None /\ u.pending = None /\ u.state = a.state
        /\ u.request = a.request /\ u.version = a.version + 1 /\ u.base = a.base
        /\ u.applied = a.applied
    BY <1>1, UnpendedIsGood, NewerIsGood
  <2> HIDE DEF u
  <2>3. /\ s \in Attempt
        /\ s.token = u.token /\ s.age = u.age /\ s.request = u.request /\ s.state = "superseded"
        /\ s.version = u.version /\ s.base = u.base /\ s.applied = u.applied
        /\ s.pending = u.pending /\ s.before = a.state
    BY <1>1, <2>2 DEF GoodAttempt, Attempt, State
  <2>4. s.delivered = u.delivered
    BY <2>2, Zenon DEF GoodAttempt, Attempt
  <2> HIDE DEF s
  <2>5. Reviewed(s)
    BY <2>2, <2>3 DEF GoodAttempt, Reviewed
  <2>6. a.before \in State /\ (a.applied # None <=> a.state = "applied")
    BY <1>1 DEF GoodAttempt, Reviewed, Attempt
  <2>7. GoodAttempt(s)
    BY <1>1, <2>2, <2>3, <2>4, <2>5, <2>6, RemediationAssumption DEF GoodAttempt, Action
  <2>8. Evolves(a, s)
    BY <2>2, <2>3, NewVersionsEvolve DEF GoodAttempt
  <2>. QED BY <1>1, <2>1, <2>2, <2>3, <2>7, <2>8 DEF Settled
<1>2. CASE a.state = "failed" /\ a.pending # None
  <2>1. Superseded(a) = Unpended(a)
    BY <1>2 DEF Superseded
  <2>2. Evolves(a, Unpended(a))
    BY <1>2, UnpendedIsGood DEF Evolves, SameState
  <2>. QED BY <1>2, <2>1, <2>2, UnpendedIsGood DEF Settled
<1>3. CASE a.state \notin {"generated", "applied"} /\ ~(a.state = "failed" /\ a.pending # None)
  <2>1. Superseded(a) = a
    BY <1>3 DEF Superseded
  <2>2. a.pending = None /\ a.state \in {"superseded", "verified", "failed"}
    BY <1>3 DEF MakesWay, GoodAttempt, Attempt, State
  <2>3. a.token = None
    BY <2>2 DEF GoodAttempt
  <2>4. Evolves(a, a)
    BY DEF Evolves, SameState
  <2>. QED BY <2>1, <2>2, <2>3, <2>4 DEF Settled
<1>. QED BY <1>1, <1>2, <1>3

LEMMA RestoredIsGood ==
  ASSUME NEW a, GoodAttempt(a), Settled(a), a.version < MaxVersion
  PROVE  /\ GoodAttempt(Restored(a)) /\ Evolves(a, Restored(a))
         /\ Restored(a).pending = None /\ Restored(a).token = None
         /\ Restored(a).request = a.request
         /\ Restored(a).state = IF a.state = "superseded" THEN a.before ELSE a.state
<1>1. CASE a.state = "superseded"
  <2> DEFINE to == IF a.applied # None THEN "applied" ELSE "generated"
             u == Newer(a)
             s == [u EXCEPT !.state = to]
  <2>1. Restored(a) = s
    BY <1>1 DEF Restored
  <2>2. /\ GoodAttempt(u) /\ u.token = None /\ u.pending = None
        /\ u.request = a.request /\ u.version = a.version + 1 /\ u.base = a.base
        /\ u.applied = a.applied /\ u.before = a.before
    BY NewerIsGood DEF Settled
  <2> HIDE DEF u
  <2>3. /\ s \in Attempt
        /\ s.token = u.token /\ s.age = u.age /\ s.request = u.request /\ s.state = to
        /\ s.version = u.version /\ s.base = u.base /\ s.applied = u.applied
        /\ s.pending = u.pending /\ s.before = u.before
    BY <2>2 DEF GoodAttempt, Attempt, State
  <2>4. s.delivered = u.delivered
    BY <2>2, Zenon DEF GoodAttempt, Attempt
  <2> HIDE DEF s
  <2>5. Reviewed(s)
    BY <2>2, <2>3 DEF GoodAttempt, Reviewed
  <2>6. GoodAttempt(s)
    BY <2>2, <2>3, <2>4, <2>5, RemediationAssumption DEF GoodAttempt, Action
  <2>7. Evolves(a, s)
    BY <2>2, <2>3, NewVersionsEvolve DEF GoodAttempt
  <2>8. to = a.before
    BY <1>1 DEF GoodAttempt
  <2>. QED BY <1>1, <2>1, <2>2, <2>3, <2>6, <2>7, <2>8
<1>2. CASE a.state # "superseded"
  BY <1>2 DEF Restored, Settled, Evolves, SameState
<1>. QED BY <1>1, <1>2

LEMMA DeliveredIsGood ==
  ASSUME NEW a, GoodAttempt(a), a.token # None
  PROVE  LET b == [a EXCEPT !.age = "fresh", !.delivered = TRUE] IN
         /\ GoodAttempt(b) /\ Evolves(a, b)
         /\ b.token = a.token /\ b.pending = a.pending /\ b.state = a.state
<1> DEFINE b == [a EXCEPT !.age = "fresh", !.delivered = TRUE]
<1>1. /\ b \in Attempt
      /\ b.token = a.token /\ b.age = "fresh" /\ b.request = a.request /\ b.state = a.state
      /\ b.version = a.version /\ b.base = a.base /\ b.applied = a.applied
      /\ b.pending = a.pending /\ b.before = a.before
  BY DEF GoodAttempt, Attempt
<1> HIDE DEF b
<1>2. Reviewed(b)
  BY <1>1 DEF GoodAttempt, Reviewed
<1>3. GoodAttempt(b)
  BY <1>1, <1>2 DEF GoodAttempt
<1>4. Evolves(a, b)
  BY <1>1 DEF Evolves, SameState
<1>. QED BY <1>1, <1>3, <1>4 DEF b

LEMMA StaleIsGood ==
  ASSUME NEW a, GoodAttempt(a), a.token # None
  PROVE  LET b == [a EXCEPT !.age = "stale"] IN
         /\ GoodAttempt(b) /\ Evolves(a, b)
         /\ b.token = a.token /\ b.pending = a.pending /\ b.state = a.state
<1> DEFINE b == [a EXCEPT !.age = "stale"]
<1>1. /\ b \in Attempt
      /\ b.token = a.token /\ b.age = "stale" /\ b.request = a.request /\ b.state = a.state
      /\ b.version = a.version /\ b.base = a.base /\ b.applied = a.applied
      /\ b.pending = a.pending /\ b.before = a.before
  BY DEF GoodAttempt, Attempt
<1> HIDE DEF b
<1>2. Reviewed(b)
  BY <1>1 DEF GoodAttempt, Reviewed
<1>3. GoodAttempt(b)
  BY <1>1, <1>2 DEF GoodAttempt
<1>4. Evolves(a, b)
  BY <1>1 DEF Evolves, SameState
<1>. QED BY <1>1, <1>3, <1>4 DEF b

\* An operation that begins, on an attempt that was read as the command says.
LEMMA BegunIsGood ==
  ASSUME NEW a, GoodAttempt(a), a.version < MaxVersion, NEW k \in ActionToken,
         NEW to, \/ to = "apply" /\ a.state = "generated"
                 \/ to = "verify" /\ a.state = "applied"
  PROVE  LET b == [Newer(Claimed(a, k)) EXCEPT !.pending = to] IN
         GoodAttempt(b) /\ Evolves(a, b) /\ b.state = a.state
<1> DEFINE u == Newer(Claimed(a, k))
           b == [u EXCEPT !.pending = to]
<1>1. /\ Claimed(a, k) \in Attempt
      /\ Claimed(a, k).token = k /\ Claimed(a, k).age = "fresh"
      /\ Claimed(a, k).request = a.request /\ Claimed(a, k).state = a.state
      /\ Claimed(a, k).version = a.version /\ Claimed(a, k).base = a.base
      /\ Claimed(a, k).applied = a.applied /\ Claimed(a, k).pending = a.pending
  BY DEF Claimed, GoodAttempt, Attempt
<1>2. /\ u \in Attempt
      /\ u.token = k /\ u.age = "fresh" /\ u.request = a.request /\ u.state = a.state
      /\ u.version = a.version + 1 /\ u.base = a.base /\ u.applied = a.applied
  <2> HIDE DEF Claimed
  <2>. QED BY <1>1, RemediationAssumption DEF Newer, GoodAttempt, Attempt
<1> HIDE DEF u
<1>3. /\ b \in Attempt
      /\ b.token = k /\ b.age = "fresh" /\ b.request = a.request /\ b.state = a.state
      /\ b.version = a.version + 1 /\ b.base = a.base /\ b.applied = a.applied
      /\ b.pending = to
  BY <1>2 DEF Attempt, Action
<1> HIDE DEF b
<1>4. Reviewed(b)
  BY <1>3 DEF GoodAttempt, Reviewed
<1>5. GoodAttempt(b)
  BY <1>3, <1>4, RemediationAssumption DEF GoodAttempt, Reviewed, Action
<1>6. Evolves(a, b)
  BY <1>3, NewVersionsEvolve DEF GoodAttempt
<1>. QED BY <1>3, <1>5, <1>6 DEF b, u

LEMMA PatchedIsContent ==
  ASSUME NEW content \in Content, NEW r \in Request
  PROVE  WithPatch(content, r) \in Content /\ WithPatch(content, r) # None
BY RemediationAssumption DEF WithPatch, Content

\* An outcome that is recorded over the state in which it was validated.
LEMMA RecordedIsGood ==
  ASSUME NEW a, GoodAttempt(a), a.version < MaxVersion, NEW c, GoodCommand(c), c.cmd = "set",
         a.token # None, a.request = c.read.request, a.base = c.read.base,
         a.state = c.read.state, a.applied = c.read.applied, a.pending = c.read.pending
  PROVE  /\ GoodAttempt(Recorded(a, c)) /\ Evolves(a, Recorded(a, c))
         /\ Recorded(a, c).token \in {a.token, None}
<1> DEFINE u == Newer(a)
           b == [u EXCEPT !.state = c.to, !.applied = c.applied]
<1>1. /\ c \in Command /\ c.to \in State /\ a.pending # None
      /\ PendingAllows(a.pending, c.to)
      /\ c.applied = IF c.to = "applied" THEN WithPatch(a.base, a.request) ELSE a.applied
      /\ c.applied \in Content \cup {None}
  BY DEF GoodCommand, GoodAttempt, Command
<1>2. \/ a.pending = "generate" /\ c.to \in {"generated", "failed"} /\ a.applied = None
      \/ a.pending = "apply" /\ c.to \in {"applied", "failed"}
      \/ a.pending = "verify" /\ c.to \in {"verifying", "verified", "failed"} /\ a.applied # None
  BY <1>1 DEF PendingAllows, GoodAttempt, Attempt, Action
<1>3. /\ u \in Attempt
      /\ u.token = a.token /\ u.age = a.age /\ u.request = a.request
      /\ u.version = a.version + 1 /\ u.base = a.base /\ u.pending = a.pending
  BY NewerIsGood DEF GoodAttempt
<1>4. u.delivered => a.token # None
  BY NewerIsGood DEF GoodAttempt
<1> HIDE DEF u
<1>5. /\ b \in Attempt
      /\ b.token = a.token /\ b.age = a.age /\ b.request = a.request /\ b.state = c.to
      /\ b.version = a.version + 1 /\ b.base = a.base /\ b.applied = c.applied
      /\ b.pending = a.pending
  BY <1>1, <1>3 DEF Attempt
<1> HIDE DEF b
<1>6. WithPatch(a.base, a.request) # None
  BY PatchedIsContent DEF GoodAttempt, Attempt
<1>7. Reviewed(b)
  BY <1>1, <1>2, <1>5, <1>6 DEF GoodAttempt, Reviewed
<1>8. Evolves(a, b)
  BY <1>5, NewVersionsEvolve DEF GoodAttempt
<1>9. CASE c.to = "verifying"
  <2>1. Recorded(a, c) = b
    BY <1>9 DEF Recorded, b, u
  <2>2. GoodAttempt(b)
    <3>1. b.pending = "verify" /\ b.applied # None /\ b.state = "verifying"
      BY <1>1, <1>2, <1>5, <1>9
    <3>2. (b.token = None) <=> (b.age = "none")
      BY <1>5 DEF GoodAttempt
    <3>. QED BY <1>1, <1>5, <1>7, <3>1, <3>2 DEF GoodAttempt
  <2>. QED BY <1>5, <1>8, <2>1, <2>2
<1>10. CASE c.to = "failed"
  <2>1. Recorded(a, c) = Unclaimed(b)
    BY <1>10 DEF Recorded, b, u
  <2> DEFINE d == Unclaimed(b)
  <2>2. /\ d \in Attempt
        /\ d.token = None /\ d.age = "none" /\ d.request = b.request /\ d.state = b.state
        /\ d.version = b.version /\ d.base = b.base /\ d.applied = b.applied
        /\ d.pending = b.pending
    BY <1>5 DEF Unclaimed, Attempt
  <2>3. ~d.delivered
    BY <1>5, Zenon DEF Unclaimed, Attempt
  <2> HIDE DEF d
  <2>4. Reviewed(d)
    BY <1>7, <2>2 DEF Reviewed
  <2>5. GoodAttempt(d)
    BY <1>1, <1>2, <1>5, <1>10, <2>2, <2>3, <2>4 DEF GoodAttempt
  <2>6. Evolves(a, d)
    BY <1>5, <2>2, NewVersionsEvolve DEF GoodAttempt
  <2>. QED BY <2>1, <2>2, <2>5, <2>6 DEF d
<1>11. CASE c.to \notin {"verifying", "failed"}
  <2>1. Recorded(a, c) = Unpended(b)
    BY <1>11 DEF Recorded, b, u
  <2> DEFINE d == Unpended(b)
  <2>2. /\ d \in Attempt
        /\ d.token = None /\ d.age = "none" /\ d.request = b.request /\ d.state = b.state
        /\ d.version = b.version /\ d.base = b.base /\ d.applied = b.applied
        /\ d.pending = None
    BY <1>5 DEF Unpended, Unclaimed, Attempt
  <2>3. ~d.delivered
    BY <1>5, Zenon DEF Unpended, Unclaimed, Attempt
  <2> HIDE DEF d
  <2>4. Reviewed(d)
    BY <1>7, <2>2 DEF Reviewed
  <2>5. GoodAttempt(d)
    BY <1>2, <1>5, <1>11, <2>2, <2>3, <2>4, RemediationAssumption DEF GoodAttempt, Action
  <2>6. Evolves(a, d)
    BY <1>5, <2>2, NewVersionsEvolve DEF GoodAttempt
  <2>. QED BY <2>1, <2>2, <2>5, <2>6 DEF d
<1>. QED BY <1>9, <1>10, <1>11

\* What a command agreed with it agrees with still, or the version shows the difference.
LEMMA AgreementLasts ==
  ASSUME NEW a, GoodAttempt(a), NEW b, GoodAttempt(b), NEW c, GoodCommand(c),
         Agrees(a, c), Evolves(a, b)
  PROVE  Agrees(b, c)
<1>1. a.version \in Nat /\ b.version \in Nat /\ c.read.version \in Nat
  BY RemediationAssumption DEF GoodAttempt, GoodCommand, Command, Attempt
<1>. QED BY <1>1 DEF Agrees, Evolves, SameState

-----------------------------------------------------------------------------
(* The shapes of a step: it writes one attempt, it leaves all of them, it      *)
(* adds one, or it takes the last one away.                                    *)

Keeps(a, b) ==
    /\ a.state = "superseded" => b.state \in {"superseded", a.before}
    /\ ClaimIsActive(a) => b.token \in {a.token, None}

PutStep(i, b) ==
    /\ i \in DOMAIN attempts /\ Put(i, b)
    /\ GoodAttempt(b) /\ Evolves(attempts[i], b) /\ Keeps(attempts[i], b)
    /\ i < Len(attempts) => Settled(b)
    /\ triage = "closed" => b.state = attempts[i].state /\ b.pending = attempts[i].pending
    /\ \/ inFlight' = inFlight
       \/ \E c \in inFlight :
             /\ inFlight' = inFlight \ {c}
             /\ attempts[i].state = c.read.state /\ attempts[i].pending = c.read.pending
    /\ UNCHANGED <<triage, canceledIds, checkout>>

\* A command reads an attempt as it is.
Reads(c) ==
    /\ GoodCommand(c) /\ \E i \in DOMAIN attempts : c.read = attempts[i]
    /\ Cardinality(inFlight) < MaxInFlight
    /\ inFlight' = inFlight \cup {c}

QuietStep ==
    /\ UNCHANGED <<attempts, canceledIds>>
    /\ checkout' \in Content
    /\ ClosedInv'
    /\ inFlight' = inFlight \/ (\E c \in inFlight : inFlight' = inFlight \ {c}) \/ (\E c : Reads(c))

AddStep(b) ==
    /\ triage = "open" /\ GoodAttempt(b) /\ b.request \notin Ids \cup canceledIds
    /\ Len(attempts') = Len(attempts) + 1 /\ attempts' \in Seq(Attempt)
    /\ attempts'[Len(attempts) + 1] = b
    /\ \A i \in DOMAIN attempts :
          /\ GoodAttempt(attempts'[i]) /\ Evolves(attempts[i], attempts'[i])
          /\ Keeps(attempts[i], attempts'[i]) /\ Settled(attempts'[i])
    /\ UNCHANGED <<triage, canceledIds, checkout, inFlight>>

TakeStep ==
    /\ triage = "open" /\ attempts # <<>>
    /\ canceledIds' = canceledIds \cup {Latest.request}
    /\ Len(attempts') = Len(attempts) - 1 /\ attempts' \in Seq(Attempt)
    /\ \A i \in DOMAIN attempts' :
          /\ GoodAttempt(attempts'[i]) /\ Evolves(attempts[i], attempts'[i])
          /\ Keeps(attempts[i], attempts'[i])
          /\ i < Len(attempts') => attempts'[i] = attempts[i]
    /\ UNCHANGED <<triage, checkout, inFlight>>

StepShape ==
    \/ QuietStep
    \/ \E i, b : PutStep(i, b)
    \/ \E b : AddStep(b)
    \/ TakeStep

LEMMA QuietKeeps == RemediationInv /\ QuietStep => RemediationInv'
<1> SUFFICES ASSUME RemediationInv, QuietStep PROVE RemediationInv'
  OBVIOUS
<1>1. QueueInv'
  BY DEF RemediationInv, QuietStep, QueueInv
<1>2. Ids' = Ids
  BY DEF QuietStep, Ids
<1>3. FlightInv'
  <2>1. CASE inFlight' = inFlight
    BY <1>2, <2>1 DEF RemediationInv, QuietStep, FlightInv
  <2>2. ASSUME NEW c \in inFlight, inFlight' = inFlight \ {c} PROVE FlightInv'
    <3>1. IsFiniteSet(inFlight') /\ Cardinality(inFlight') <= MaxInFlight
      <4>1. IsFiniteSet(inFlight) /\ Cardinality(inFlight) \in Nat
            /\ Cardinality(inFlight) <= MaxInFlight
        BY FS_CardinalityType DEF RemediationInv, FlightInv
      <4>2. IsFiniteSet(inFlight \ {c}) /\ Cardinality(inFlight \ {c}) <= Cardinality(inFlight)
        <5>1. inFlight \ {c} \subseteq inFlight OBVIOUS
        <5>. QED BY <4>1, <5>1, FS_Subset
      <4>3. Cardinality(inFlight \ {c}) \in Nat
        BY <4>2, FS_CardinalityType
      <4>. QED BY <2>2, <4>1, <4>2, <4>3, RemediationAssumption
    <3>. QED BY <1>2, <2>2, <3>1 DEF RemediationInv, QuietStep, FlightInv
  <2>3. ASSUME NEW c, Reads(c) PROVE FlightInv'
    <3>1. IsFiniteSet(inFlight') /\ Cardinality(inFlight') <= MaxInFlight
      <4>1. IsFiniteSet(inFlight) /\ Cardinality(inFlight) \in Nat
            /\ Cardinality(inFlight) < MaxInFlight
        BY <2>3, FS_CardinalityType DEF RemediationInv, FlightInv, Reads
      <4>2. IsFiniteSet(inFlight \cup {c})
            /\ Cardinality(inFlight \cup {c}) \in {Cardinality(inFlight), Cardinality(inFlight) + 1}
        BY <4>1, FS_AddElement
      <4>. QED BY <2>3, <4>1, <4>2, RemediationAssumption DEF Reads
    <3>2. PICK i \in DOMAIN attempts : c.read = attempts[i]
      BY <2>3 DEF Reads
    <3>3. GoodCommand(c) /\ c.read.request \in Ids
      BY <2>3, <3>2 DEF Reads, Ids
    <3>4. ASSUME NEW j \in DOMAIN attempts PROVE Agrees(attempts[j], c)
      <4>1. CASE attempts[j].request = c.read.request
        <5>1. j = i
          BY <3>2, <4>1 DEF RemediationInv, QueueInv
        <5>2. attempts[i].version \in Nat
          BY RemediationAssumption DEF RemediationInv, QueueInv, GoodAttempt, Attempt
        <5>. QED BY <3>2, <5>1, <5>2 DEF Agrees, SameState
      <4>. QED BY <4>1 DEF Agrees
    <3>. QED BY <1>2, <2>3, <3>1, <3>3, <3>4 DEF RemediationInv, QuietStep, FlightInv, Reads
  <2>. QED BY <2>1, <2>2, <2>3 DEF QuietStep
<1>. QED BY <1>1, <1>3 DEF RemediationInv, QuietStep

LEMMA PutKeeps ==
  ASSUME RemediationInv, NEW i, NEW b, PutStep(i, b)
  PROVE  /\ RemediationInv'
         /\ DOMAIN attempts' = DOMAIN attempts
         /\ Ids' = Ids
         /\ \A j \in DOMAIN attempts : attempts'[j] = IF j = i THEN b ELSE attempts[j]
<1>1. /\ i \in DOMAIN attempts /\ attempts \in Seq(Attempt)
      /\ attempts' = [attempts EXCEPT ![i] = b] /\ b \in Attempt /\ GoodAttempt(b)
  BY DEF RemediationInv, QueueInv, PutStep, Put, GoodAttempt
<1>2. /\ attempts' \in Seq(Attempt) /\ Len(attempts') = Len(attempts)
      /\ DOMAIN attempts' = DOMAIN attempts
      /\ \A j \in DOMAIN attempts : attempts'[j] = IF j = i THEN b ELSE attempts[j]
  BY <1>1
<1>3. b.request = attempts[i].request
  BY DEF PutStep, Evolves
<1>4. Ids' = Ids
  BY <1>1, <1>2, <1>3 DEF Ids
<1>5. QueueInv'
  BY <1>1, <1>2, <1>3 DEF RemediationInv, QueueInv, PutStep
<1>6. inFlight' \subseteq inFlight
  BY DEF PutStep
<1>7. FlightInv'
  <2>1. IsFiniteSet(inFlight') /\ Cardinality(inFlight') <= MaxInFlight
    <3>1. IsFiniteSet(inFlight) /\ Cardinality(inFlight) \in Nat
          /\ Cardinality(inFlight) <= MaxInFlight
      BY FS_CardinalityType DEF RemediationInv, FlightInv
    <3>2. IsFiniteSet(inFlight') /\ Cardinality(inFlight') <= Cardinality(inFlight)
      BY <1>6, <3>1, FS_Subset
    <3>3. Cardinality(inFlight') \in Nat
      BY <3>2, FS_CardinalityType
    <3>. QED BY <3>1, <3>2, <3>3, RemediationAssumption
  <2>2. ASSUME NEW c \in inFlight, NEW j \in DOMAIN attempts PROVE Agrees(attempts'[j], c)
    <3>1. GoodCommand(c) /\ Agrees(attempts[j], c) /\ Agrees(attempts[i], c)
      BY <1>1 DEF RemediationInv, FlightInv
    <3>2. GoodAttempt(attempts[i]) /\ Evolves(attempts[i], b)
      BY <1>1 DEF RemediationInv, QueueInv, PutStep
    <3>3. Agrees(b, c)
      BY <1>1, <3>1, <3>2, AgreementLasts
    <3>. QED BY <1>2, <3>1, <3>3
  <2>. QED BY <1>2, <1>4, <1>6, <2>1, <2>2 DEF RemediationInv, FlightInv, PutStep
<1>8. ClosedInv'
  BY <1>1, <1>2 DEF RemediationInv, ClosedInv, PutStep
<1>. QED BY <1>2, <1>4, <1>5, <1>7, <1>8 DEF RemediationInv, PutStep

LEMMA AddKeeps ==
  ASSUME RemediationInv, NEW b, AddStep(b)
  PROVE  RemediationInv'
<1>1. /\ attempts \in Seq(Attempt) /\ attempts' \in Seq(Attempt)
      /\ Len(attempts) \in Nat /\ Len(attempts') = Len(attempts) + 1
      /\ DOMAIN attempts = 1 .. Len(attempts) /\ DOMAIN attempts' = 1 .. Len(attempts')
      /\ attempts'[Len(attempts) + 1] = b /\ GoodAttempt(b)
  BY DEF RemediationInv, QueueInv, AddStep
<1>2. ASSUME NEW i \in DOMAIN attempts'
      PROVE  \/ i \in DOMAIN attempts /\ i < Len(attempts')
             \/ i = Len(attempts') /\ attempts'[i] = b
  BY <1>1
<1>3. \A i \in DOMAIN attempts : attempts'[i].request = attempts[i].request
  BY DEF AddStep, Evolves
<1>4. \A i \in DOMAIN attempts : attempts[i].request # b.request
  BY DEF AddStep, Ids
<1>5. QueueInv'
  <2>1. \A i \in DOMAIN attempts' : GoodAttempt(attempts'[i])
    BY <1>1, <1>2 DEF AddStep
  <2>2. \A i \in DOMAIN attempts' : i < Len(attempts') => Settled(attempts'[i])
    BY <1>1, <1>2 DEF AddStep
  <2>3. \A i, j \in DOMAIN attempts' : attempts'[i].request = attempts'[j].request => i = j
    BY <1>1, <1>2, <1>3, <1>4 DEF RemediationInv, QueueInv
  <2>4. \A i \in DOMAIN attempts' : attempts'[i].request \notin canceledIds'
    BY <1>1, <1>2, <1>3 DEF RemediationInv, QueueInv, AddStep
  <2>. QED BY <1>1, <2>1, <2>2, <2>3, <2>4 DEF RemediationInv, QueueInv, AddStep
<1>6. Ids \subseteq Ids'
  BY <1>1, <1>3 DEF Ids
<1>7. FlightInv'
  <2>1. ASSUME NEW c \in inFlight, NEW i \in DOMAIN attempts' PROVE Agrees(attempts'[i], c)
    <3>1. GoodCommand(c) /\ c.read.request \in Ids \cup canceledIds
      BY DEF RemediationInv, FlightInv
    <3>2. CASE i \in DOMAIN attempts
      <4>1. /\ GoodAttempt(attempts[i]) /\ GoodAttempt(attempts'[i])
            /\ Evolves(attempts[i], attempts'[i]) /\ Agrees(attempts[i], c)
        BY <3>2 DEF RemediationInv, QueueInv, FlightInv, AddStep
      <4>. QED BY <3>1, <4>1, AgreementLasts
    <3>3. CASE attempts'[i] = b
      BY <3>1, <3>3 DEF AddStep, Agrees
    <3>. QED BY <1>2, <3>2, <3>3
  <2>. QED BY <1>6, <2>1 DEF RemediationInv, FlightInv, AddStep
<1>8. ClosedInv'
  BY DEF RemediationInv, ClosedInv, AddStep
<1>. QED BY <1>5, <1>7, <1>8 DEF RemediationInv, AddStep

LEMMA TakeKeeps == RemediationInv /\ TakeStep => RemediationInv'
<1> SUFFICES ASSUME RemediationInv, TakeStep PROVE RemediationInv'
  OBVIOUS
<1>1. /\ attempts \in Seq(Attempt) /\ attempts' \in Seq(Attempt)
      /\ Len(attempts) \in Nat /\ Len(attempts') \in Nat /\ Len(attempts') = Len(attempts) - 1
      /\ DOMAIN attempts = 1 .. Len(attempts) /\ DOMAIN attempts' = 1 .. Len(attempts')
  BY DEF RemediationInv, QueueInv, TakeStep
<1>2. \A i \in DOMAIN attempts' : i \in DOMAIN attempts /\ i < Len(attempts)
  BY <1>1
<1>3. \A i \in DOMAIN attempts' : attempts'[i].request = attempts[i].request
  BY DEF TakeStep, Evolves
<1>4. Len(attempts) \in DOMAIN attempts
  BY <1>1
<1>5. QueueInv'
  <2>1. \A i \in DOMAIN attempts' : GoodAttempt(attempts'[i])
    BY DEF TakeStep
  <2>2. \A i \in DOMAIN attempts' : i < Len(attempts') => Settled(attempts'[i])
    BY <1>2 DEF TakeStep, RemediationInv, QueueInv
  <2>3. \A i, j \in DOMAIN attempts' : attempts'[i].request = attempts'[j].request => i = j
    BY <1>2, <1>3 DEF RemediationInv, QueueInv
  <2>4. \A i \in DOMAIN attempts' : attempts'[i].request \notin canceledIds'
    <3>1. ASSUME NEW i \in DOMAIN attempts' PROVE attempts[i].request # Latest.request
      BY <1>1, <1>2, <1>4 DEF RemediationInv, QueueInv, Latest
    <3>. QED BY <1>2, <1>3, <3>1 DEF RemediationInv, QueueInv, TakeStep
  <2>5. Latest.request \in Request
    BY <1>4 DEF Latest, RemediationInv, QueueInv, GoodAttempt, Attempt
  <2>. QED BY <1>1, <2>1, <2>2, <2>3, <2>4, <2>5 DEF RemediationInv, QueueInv, TakeStep
<1>6. Ids \cup canceledIds \subseteq (Ids \cup canceledIds)'
  <2>1. ASSUME NEW i \in DOMAIN attempts PROVE attempts[i].request \in (Ids \cup canceledIds)'
    <3>1. CASE i = Len(attempts)
      BY <3>1 DEF TakeStep, Latest
    <3>2. CASE i # Len(attempts)
      <4>1. i \in DOMAIN attempts'
        BY <1>1, <3>2
      <4>. QED BY <1>3, <4>1 DEF Ids
    <3>. QED BY <3>1, <3>2
  <2>. QED BY <2>1 DEF Ids, TakeStep
<1>7. FlightInv'
  <2>1. ASSUME NEW c \in inFlight, NEW i \in DOMAIN attempts' PROVE Agrees(attempts'[i], c)
    <3>1. /\ GoodCommand(c) /\ GoodAttempt(attempts[i]) /\ GoodAttempt(attempts'[i])
          /\ Evolves(attempts[i], attempts'[i]) /\ Agrees(attempts[i], c)
      BY <1>2 DEF RemediationInv, QueueInv, FlightInv, TakeStep
    <3>. QED BY <3>1, AgreementLasts
  <2>. QED BY <1>6, <2>1 DEF RemediationInv, FlightInv, TakeStep
<1>8. ClosedInv'
  BY DEF RemediationInv, ClosedInv, TakeStep
<1>. QED BY <1>5, <1>7, <1>8 DEF RemediationInv, TakeStep

-----------------------------------------------------------------------------
(* Every action has one of the shapes.                                       *)

\* An attempt with something to do, or to lose, is the last one.
LEMMA LiveIsLast ==
  ASSUME RemediationInv, NEW i \in DOMAIN attempts, ~Settled(attempts[i])
  PROVE  i = Len(attempts)
<1>1. attempts \in Seq(Attempt) /\ Len(attempts) \in Nat /\ DOMAIN attempts = 1 .. Len(attempts)
  BY DEF RemediationInv, QueueInv
<1>2. ~(i < Len(attempts))
  BY DEF RemediationInv, QueueInv
<1>. QED BY <1>1, <1>2

LEMMA NotBefore ==
  ASSUME RemediationInv, NEW i \in DOMAIN attempts, i = Len(attempts)
  PROVE  ~(i < Len(attempts))
<1>1. attempts \in Seq(Attempt) /\ Len(attempts) \in Nat
  BY DEF RemediationInv, QueueInv
<1>. QED BY <1>1

LEMMA GoodAt ==
  ASSUME RemediationInv, NEW r, r \in Ids
  PROVE  /\ Place(r) \in DOMAIN attempts /\ attempts[Place(r)].request = r
         /\ GoodAttempt(attempts[Place(r)])
BY PlaceIsThere DEF RemediationInv, QueueInv

LEMMA ClaimsHaveShape ==
  ASSUME RemediationInv, NEW r \in Request, NEW k \in ActionToken,
         ClaimResend(r, k) \/ MarkDelivered(r, k) \/ ReleaseClaim(r, k)
  PROVE  \E i, b : PutStep(i, b)
<1> DEFINE i == Place(r)
           a == attempts[i]
<1>1. /\ i \in DOMAIN attempts /\ GoodAttempt(a) /\ a.pending # None
      /\ UNCHANGED <<triage, canceledIds, checkout, inFlight>>
  BY GoodAt DEF ClaimResend, MarkDelivered, ReleaseClaim
<1> HIDE DEF i
<1>2. ~Settled(a) /\ a.state # "superseded"
  BY <1>1 DEF Settled, GoodAttempt
<1>3. ~(i < Len(attempts))
  BY <1>1, <1>2, LiveIsLast, NotBefore
<1>4. CASE ClaimResend(r, k)
  <2> DEFINE b == Claimed(a, k)
  <2>1. /\ GoodAttempt(b) /\ Evolves(a, b) /\ b.pending = a.pending /\ b.state = a.state
    BY <1>1, ClaimedIsGood
  <2>2. Put(i, b) /\ MayTakeOver(a)
    BY <1>4 DEF ClaimResend, i
  <2> HIDE DEF b
  <2>3. Keeps(a, b)
    BY <1>2, <2>2 DEF Keeps, MayTakeOver, ClaimIsActive
  <2>4. PutStep(i, b)
    BY <1>1, <1>3, <2>1, <2>2, <2>3 DEF PutStep
  <2>. QED BY <2>4
<1>5. CASE MarkDelivered(r, k)
  <2> DEFINE b == [a EXCEPT !.age = "fresh", !.delivered = TRUE]
  <2>1. Put(i, b) /\ a.token = k
    BY <1>5 DEF MarkDelivered, i
  <2>2. a.token # None
    BY <2>1, RemediationAssumption
  <2>3. /\ GoodAttempt(b) /\ Evolves(a, b) /\ b.pending = a.pending /\ b.state = a.state
        /\ b.token = a.token
    BY <1>1, <2>2, DeliveredIsGood
  <2> HIDE DEF b
  <2>4. Keeps(a, b)
    BY <1>2, <2>3 DEF Keeps
  <2>5. PutStep(i, b)
    BY <1>1, <1>3, <2>1, <2>3, <2>4 DEF PutStep
  <2>. QED BY <2>5
<1>6. CASE ReleaseClaim(r, k)
  <2> DEFINE b == Unclaimed(a)
  <2>1. Put(i, b)
    BY <1>6 DEF ReleaseClaim, i
  <2>2. /\ GoodAttempt(b) /\ Evolves(a, b) /\ b.pending = a.pending /\ b.state = a.state
        /\ b.token = None
    BY <1>1, UnclaimedIsGood
  <2> HIDE DEF b
  <2>3. Keeps(a, b)
    BY <1>2, <2>2 DEF Keeps
  <2>4. PutStep(i, b)
    BY <1>1, <1>3, <2>1, <2>2, <2>3 DEF PutStep
  <2>. QED BY <2>4
<1>. QED BY <1>4, <1>5, <1>6

LEMMA LeasesHaveShape ==
  ASSUME RemediationInv, NEW r \in Request, LeaseEnds(r)
  PROVE  \E i, b : PutStep(i, b)
<1> DEFINE i == Place(r)
           a == attempts[i]
           b == [a EXCEPT !.age = "stale"]
<1>1. /\ i \in DOMAIN attempts /\ GoodAttempt(a) /\ a.age = "fresh" /\ Put(i, b)
      /\ UNCHANGED <<triage, canceledIds, checkout, inFlight>>
  BY GoodAt DEF LeaseEnds
<1> HIDE DEF i
<1>2. a.token # None
  BY <1>1 DEF GoodAttempt
<1>3. ~Settled(a) /\ a.state # "superseded"
  BY <1>1, <1>2 DEF Settled, GoodAttempt
<1>4. ~(i < Len(attempts))
  BY <1>1, <1>3, LiveIsLast, NotBefore
<1>5. /\ GoodAttempt(b) /\ Evolves(a, b) /\ b.pending = a.pending /\ b.state = a.state
      /\ b.token = a.token
  BY <1>1, <1>2, StaleIsGood
<1> HIDE DEF b
<1>6. Keeps(a, b)
  BY <1>3, <1>5 DEF Keeps
<1>7. PutStep(i, b)
  BY <1>1, <1>4, <1>5, <1>6 DEF PutStep
<1>. QED BY <1>7

\* A command whose row is as it was read finds what it was validated against.
LEMMA SameRowIsAsRead ==
  ASSUME RemediationInv, NEW c \in inFlight, NEW i \in DOMAIN attempts, SameRow(attempts[i], c)
  PROVE  /\ GoodAttempt(attempts[i]) /\ GoodCommand(c) /\ c.token \in ActionToken
         /\ attempts[i].version < MaxVersion
         /\ attempts[i].request = c.read.request /\ attempts[i].base = c.read.base
         /\ attempts[i].state = c.read.state /\ attempts[i].applied = c.read.applied
         /\ attempts[i].pending = c.read.pending
         /\ c.cmd = "set" => attempts[i].token # None
<1> DEFINE a == attempts[i]
<1>1. GoodAttempt(a) /\ GoodCommand(c) /\ Agrees(a, c)
  BY DEF RemediationInv, QueueInv, FlightInv
<1>2. /\ a.request = c.read.request /\ a.version = c.read.version
      /\ c.cmd = "action" => a.pending = None
      /\ c.cmd = "set" => a.token = c.token
  BY DEF SameRow
<1>3. a.base = c.read.base /\ SameState(a, c.read)
  BY <1>1, <1>2 DEF Agrees
<1>4. c.token \in ActionToken /\ c.cmd \in {"set", "action"} /\ c.read.version < MaxVersion
  BY <1>1 DEF GoodCommand, Command
<1>5. CASE c.cmd = "set"
  <2>1. a.token # None
    BY <1>2, <1>4, <1>5, RemediationAssumption
  <2>2. a.pending # None
    BY <1>1, <2>1 DEF GoodAttempt
  <2>. QED BY <1>1, <1>2, <1>3, <1>4, <2>1, <2>2 DEF SameState
<1>6. CASE c.cmd = "action"
  <2>1. c.read.pending = None
    BY <1>1, <1>6 DEF GoodCommand
  <2>. QED BY <1>1, <1>2, <1>3, <1>4, <1>6, <2>1 DEF SameState
<1>. QED BY <1>4, <1>5, <1>6

LEMMA WritesHaveShape ==
  ASSUME RemediationInv, NEW c \in inFlight, WriteAction(c) \/ WriteSet(c)
  PROVE  \E i, b : PutStep(i, b)
<1>1. CASE WriteAction(c)
  <2>1. PICK i \in DOMAIN attempts :
          /\ SameRow(attempts[i], c)
          /\ Put(i, [Newer(Claimed(attempts[i], c.token)) EXCEPT !.pending = c.to])
    BY <1>1 DEF WriteAction
  <2>2. /\ c.cmd = "action" /\ triage = "open" /\ inFlight' = inFlight \ {c}
        /\ UNCHANGED <<triage, canceledIds, checkout>>
    BY <1>1 DEF WriteAction
  <2> DEFINE a == attempts[i]
             b == [Newer(Claimed(a, c.token)) EXCEPT !.pending = c.to]
  <2>3. /\ GoodAttempt(a) /\ GoodCommand(c) /\ a.version < MaxVersion /\ c.token \in ActionToken
        /\ a.state = c.read.state /\ a.pending = c.read.pending
    BY <2>1, SameRowIsAsRead
  <2>4. \/ c.to = "apply" /\ a.state = "generated"
        \/ c.to = "verify" /\ a.state = "applied"
    BY <2>2, <2>3 DEF GoodCommand
  <2>5. c.read.pending = None
    BY <2>2, <2>3 DEF GoodCommand
  <2>6. GoodAttempt(b) /\ Evolves(a, b) /\ b.state = a.state
    BY <2>3, <2>4, BegunIsGood
  <2>7. Put(i, b)
    BY <2>1
  <2> HIDE DEF b
  <2>8. ~(i < Len(attempts))
    <3>1. ~Settled(a)
      BY <2>4 DEF Settled
    <3>. QED BY <3>1, LiveIsLast, NotBefore
  <2>9. Keeps(a, b)
    <3>1. a.token = None
      BY <2>3, <2>5 DEF GoodAttempt
    <3>. QED BY <2>4, <3>1 DEF Keeps, ClaimIsActive
  <2>10. PutStep(i, b)
    BY <2>2, <2>3, <2>6, <2>7, <2>8, <2>9 DEF PutStep
  <2>. QED BY <2>10
<1>2. CASE WriteSet(c)
  <2>1. PICK i \in DOMAIN attempts :
          SameRow(attempts[i], c) /\ Put(i, Recorded(attempts[i], c))
    BY <1>2 DEF WriteSet
  <2>2. /\ c.cmd = "set" /\ triage = "open" /\ inFlight' = inFlight \ {c}
        /\ UNCHANGED <<triage, canceledIds, checkout>>
    BY <1>2 DEF WriteSet
  <2> DEFINE a == attempts[i]
             b == Recorded(a, c)
  <2>3. /\ GoodAttempt(a) /\ GoodCommand(c) /\ a.version < MaxVersion /\ a.token # None
        /\ a.request = c.read.request /\ a.base = c.read.base /\ a.applied = c.read.applied
        /\ a.state = c.read.state /\ a.pending = c.read.pending
    BY <2>1, <2>2, SameRowIsAsRead
  <2>4. GoodAttempt(b) /\ Evolves(a, b) /\ b.token \in {a.token, None}
    BY <2>2, <2>3, RecordedIsGood
  <2>5. Put(i, b)
    BY <2>1
  <2> HIDE DEF b
  <2>6. ~Settled(a) /\ a.state # "superseded"
    BY <2>3 DEF Settled, GoodAttempt
  <2>7. ~(i < Len(attempts))
    BY <2>6, LiveIsLast, NotBefore
  <2>8. Keeps(a, b)
    BY <2>4, <2>6 DEF Keeps
  <2>9. PutStep(i, b)
    BY <2>2, <2>3, <2>4, <2>5, <2>7, <2>8 DEF PutStep
  <2>. QED BY <2>9
<1>. QED BY <1>1, <1>2

LEMMA QuietHaveShape ==
  ASSUME RemediationInv,
         \/ \E status \in {"open", "closed"} : SetFindingTriage(status)
         \/ \E c \in inFlight : Refused(c)
         \/ \E r \in Request : WorkerApplies(r)
         \/ UserEdits
  PROVE  QuietStep
<1>1. attempts \in Seq(Attempt) /\ checkout \in Content /\ ClosedInv
  BY DEF RemediationInv, QueueInv
<1>2. ASSUME NEW status \in {"open", "closed"}, SetFindingTriage(status) PROVE QuietStep
  <2>1. /\ triage' = status /\ UNCHANGED <<attempts, canceledIds, checkout, inFlight>>
        /\ status = "closed" => MayClose
    BY <1>2 DEF SetFindingTriage
  <2>2. ASSUME status = "closed", NEW i \in DOMAIN attempts, attempts[i].pending # None
        PROVE  attempts[i].state = "failed"
    <3>1. ~Settled(attempts[i])
      BY <2>2 DEF Settled
    <3>2. i = Len(attempts)
      BY <3>1, LiveIsLast
    <3>3. attempts # <<>>
      BY <1>1
    <3>. QED BY <2>1, <2>2, <3>2, <3>3 DEF MayClose, Latest
  <2>3. ClosedInv'
    BY <2>1, <2>2 DEF ClosedInv
  <2>. QED BY <1>1, <2>1, <2>3 DEF QuietStep
<1>3. ASSUME NEW c \in inFlight, Refused(c) PROVE QuietStep
  BY <1>1, <1>3 DEF Refused, QuietStep, ClosedInv
<1>4. ASSUME NEW r \in Request, WorkerApplies(r) PROVE QuietStep
  BY <1>1, <1>4, PatchedIsContent DEF WorkerApplies, QuietStep, ClosedInv
<1>5. CASE UserEdits
  <2>1. checkout' \in Content
    BY <1>1, <1>5, RemediationAssumption DEF UserEdits, Content
  <2>. QED BY <1>1, <1>5, <2>1 DEF UserEdits, QuietStep, ClosedInv
<1>. QED BY <1>2, <1>3, <1>4, <1>5

LEMMA ReadsHaveShape ==
  ASSUME RemediationInv, NEW r \in Request, NEW k \in ActionToken,
         NEW version \in 1 .. MaxVersion,
         \/ \E action \in {"apply", "verify"} : ReadForAction(r, k, version, action)
         \/ \E to \in State : ReadForSet(r, k, version, to)
  PROVE  QuietStep
<1>1. attempts \in Seq(Attempt) /\ checkout \in Content /\ ClosedInv
  BY DEF RemediationInv, QueueInv
<1> DEFINE i == Place(r)
           a == attempts[i]
<1>2. r \in Ids
  BY DEF ReadForAction, ReadForSet
<1>3. i \in DOMAIN attempts /\ a.request = r /\ GoodAttempt(a)
  BY <1>2, GoodAt
<1>4. ASSUME NEW action \in {"apply", "verify"}, ReadForAction(r, k, version, action)
      PROVE  QuietStep
  <2> DEFINE c == [cmd |-> "action", read |-> a, to |-> action, token |-> k, applied |-> None]
  <2>1. /\ a.pending = None /\ a.version < MaxVersion
        /\ \/ action = "apply" /\ a.state = "generated"
           \/ action = "verify" /\ a.state = "applied"
        /\ Cardinality(inFlight) < MaxInFlight /\ inFlight' = inFlight \cup {c}
        /\ UNCHANGED <<triage, attempts, canceledIds, checkout>>
    BY <1>4 DEF ReadForAction, Bounded
  <2> HIDE DEF i
  <2>2. c \in Command
    BY <1>3 DEF Command, GoodAttempt, Action
  <2>3. a.state = "applied" => a.applied # None
    BY <1>3 DEF GoodAttempt, Reviewed
  <2>4. GoodCommand(c)
    BY <2>1, <2>2, <2>3 DEF GoodCommand
  <2>5. Reads(c)
    BY <1>3, <2>1, <2>4 DEF Reads
  <2>. QED BY <1>1, <2>1, <2>5 DEF QuietStep, ClosedInv
<1>5. ASSUME NEW to \in State, ReadForSet(r, k, version, to)
      PROVE  QuietStep
  <2> DEFINE c == [cmd |-> "set", read |-> a, to |-> to, token |-> k,
                   applied |-> IF to = "applied" THEN checkout ELSE a.applied]
  <2>1. /\ a.version < MaxVersion /\ MayMove(a.state, to) /\ PendingAllows(a.pending, to)
        /\ to = "applied" => checkout = WithPatch(a.base, r)
        /\ Cardinality(inFlight) < MaxInFlight /\ inFlight' = inFlight \cup {c}
        /\ UNCHANGED <<triage, attempts, canceledIds, checkout>>
    BY <1>5 DEF ReadForSet, Bounded
  <2> HIDE DEF i
  <2>2. c \in Command
    BY <1>1, <1>3 DEF Command, GoodAttempt, Attempt
  <2>3. GoodCommand(c)
    BY <1>3, <2>1, <2>2 DEF GoodCommand
  <2>4. Reads(c)
    BY <1>3, <2>1, <2>3 DEF Reads
  <2>. QED BY <1>1, <2>1, <2>4 DEF QuietStep, ClosedInv
<1>. QED BY <1>4, <1>5

LEMMA NewIsGood ==
  ASSUME checkout \in Content, NEW r \in Request, NEW k \in ActionToken
  PROVE  GoodAttempt(New(r, k)) /\ New(r, k).request = r
<1> DEFINE b == New(r, k)
<1>1. /\ b \in Attempt /\ b.token = k /\ b.age = "fresh" /\ b.request = r
      /\ b.state = "requested" /\ b.applied = None /\ b.pending = "generate"
  BY RemediationAssumption DEF New, Attempt, State, Action
<1>2. ~b.delivered
  BY Zenon DEF New
<1> HIDE DEF b
<1>3. GoodAttempt(b)
  BY <1>1, <1>2, RemediationAssumption DEF GoodAttempt, Reviewed, Action
<1>. QED BY <1>1, <1>3 DEF b

LEMMA RequestsHaveShape ==
  ASSUME RemediationInv, NEW r \in Request, NEW k \in ActionToken,
         RequestFindingRemediation(r, k)
  PROVE  AddStep(New(r, k))
<1> DEFINE b == New(r, k)
           n == Len(attempts)
<1>1. /\ attempts \in Seq(Attempt) /\ n \in Nat /\ DOMAIN attempts = 1 .. n
      /\ checkout \in Content
  BY DEF RemediationInv, QueueInv
<1>2. GoodAttempt(b) /\ b.request = r /\ b \in Attempt
  BY <1>1, NewIsGood DEF GoodAttempt
<1> HIDE DEF b
<1>3. /\ triage = "open" /\ r \notin Ids \cup canceledIds
      /\ attempts # <<>> => MakesWay(Latest)
      /\ attempts # <<>> /\ Latest.state \in {"generated", "applied"} => Latest.version < MaxVersion
      /\ UNCHANGED <<triage, canceledIds, checkout, inFlight>>
  BY DEF RequestFindingRemediation, Bounded
<1>4. CASE attempts = <<>>
  <2>1. attempts' = Append(<<>>, b)
    BY <1>4 DEF RequestFindingRemediation, b
  <2>2. Len(attempts') = 1 /\ attempts' \in Seq(Attempt) /\ attempts'[1] = b
    BY <1>2, <2>1
  <2>3. n = 0 /\ DOMAIN attempts = {}
    BY <1>1, <1>4
  <2>. QED BY <1>2, <1>3, <2>2, <2>3 DEF AddStep, b
<1>5. CASE attempts # <<>>
  <2> DEFINE s == Superseded(Latest)
             before == [attempts EXCEPT ![n] = s]
  <2>1. n \in DOMAIN attempts /\ Latest = attempts[n]
    BY <1>1, <1>5 DEF Latest
  <2>2. GoodAttempt(Latest)
    BY <2>1 DEF RemediationInv, QueueInv
  <2>3. /\ GoodAttempt(s) /\ Evolves(Latest, s) /\ Settled(s)
        /\ Latest.state = "superseded" => s.state = "superseded"
    BY <1>3, <1>5, <2>2, SupersededIsGood
  <2>4. s \in Attempt
    BY <2>3 DEF GoodAttempt
  <2>5. attempts' = Append(before, b)
    BY <1>5, <2>1 DEF RequestFindingRemediation, b
  <2> HIDE DEF s
  <2>6. /\ before \in Seq(Attempt) /\ Len(before) = n
        /\ \A i \in 1 .. n : before[i] = IF i = n THEN s ELSE attempts[i]
    BY <1>1, <2>1, <2>4
  <2> HIDE DEF before
  <2>7. /\ attempts' \in Seq(Attempt) /\ Len(attempts') = n + 1 /\ attempts'[n + 1] = b
        /\ \A i \in 1 .. n : attempts'[i] = before[i]
    BY <1>2, <2>5, <2>6, AppendProperties
  <2>8. ASSUME NEW i \in DOMAIN attempts
        PROVE  /\ GoodAttempt(attempts'[i]) /\ Evolves(attempts[i], attempts'[i])
               /\ Keeps(attempts[i], attempts'[i]) /\ Settled(attempts'[i])
    <3>1. CASE i = n
      <4>1. attempts'[i] = s /\ attempts[i] = Latest
        BY <1>1, <2>1, <2>6, <2>7, <3>1
      <4>2. s.token = None
        BY <2>3 DEF Settled
      <4>3. Keeps(Latest, s)
        BY <2>3, <4>2 DEF Keeps
      <4>. QED BY <2>3, <4>1, <4>3
    <3>2. CASE i # n
      <4>1. attempts'[i] = before[i] /\ before[i] = attempts[i]
        BY <1>1, <2>6, <2>7, <3>2
      <4>. HIDE DEF n
      <4>2. i < n
        BY <1>1, <3>2
      <4>3. attempts'[i] = attempts[i] /\ i < Len(attempts)
        BY <4>1, <4>2 DEF n
      <4>4. GoodAttempt(attempts[i]) /\ Settled(attempts[i])
        BY <4>3 DEF RemediationInv, QueueInv
      <4>5. Evolves(attempts[i], attempts[i]) /\ Keeps(attempts[i], attempts[i])
        BY <4>4 DEF Evolves, SameState, Keeps
      <4>. QED BY <4>3, <4>4, <4>5
    <3>. QED BY <3>1, <3>2
  <2>. QED BY <1>2, <1>3, <2>7, <2>8 DEF AddStep, b
<1>. QED BY <1>4, <1>5

\* Without its last element a sequence is what it was.
LEMMA LastRemoved ==
  ASSUME NEW S, NEW s \in Seq(S), s # <<>>
  PROVE  /\ RemoveAt(s, Len(s)) \in Seq(S)
         /\ Len(RemoveAt(s, Len(s))) = Len(s) - 1
         /\ \A i \in 1 .. Len(s) - 1 : RemoveAt(s, Len(s))[i] = s[i]
<1> DEFINE n == Len(s)
           front == SubSeq(s, 1, n - 1)
           back == SubSeq(s, n + 1, n)
<1>1. n \in Nat /\ n >= 1
  OBVIOUS
<1>2. front \in Seq(S) /\ Len(front) = n - 1 /\ \A i \in 1 .. n - 1 : front[i] = s[i]
  <2>1. \A i \in 1 .. n - 1 : s[i] \in S
    BY <1>1
  <2>2. /\ front \in Seq(S) /\ Len(front) = IF 1 <= n - 1 THEN n - 1 - 1 + 1 ELSE 0
        /\ \A i \in 1 .. n - 1 - 1 + 1 : front[i] = s[1 + i - 1]
    BY <1>1, <2>1, SubSeqProperties
  <2>. HIDE DEF n, front
  <2>. QED BY <1>1, <2>2
<1>3. back = <<>>
  BY <1>1
<1> HIDE DEF front, back
<1>4. front \o back = front
  BY <1>2, <1>3
<1>5. RemoveAt(s, n) = front \o back
  BY DEF RemoveAt, front, back
<1>. QED BY <1>2, <1>4, <1>5

LEMMA CancelsHaveShape ==
  ASSUME RemediationInv, NEW r \in Request, NEW k \in ActionToken, CancelRequest(r, k)
  PROVE  (\E i, b : PutStep(i, b)) \/ TakeStep
<1> DEFINE i == Place(r)
           a == attempts[i]
           n == Len(attempts)
<1>1. /\ i \in DOMAIN attempts /\ GoodAttempt(a) /\ a.pending # None
      /\ UNCHANGED <<triage, checkout, inFlight>>
  BY GoodAt DEF CancelRequest
<1>2. \/ a.state = "failed" /\ Put(i, Unclaimed(a)) /\ UNCHANGED canceledIds
      \/ /\ a.state # "failed" /\ a.pending = "generate"
         /\ \A j \in DOMAIN attempts : Bounded(attempts[j])
         /\ CancelGeneration(i)
      \/ /\ a.state # "failed" /\ a.pending # "generate" /\ Bounded(a)
         /\ Put(i, Newer(Unpended(a))) /\ UNCHANGED canceledIds
  BY DEF CancelRequest
<1> HIDE DEF i
<1>3. ~Settled(a) /\ a.state # "superseded"
  BY <1>1 DEF Settled, GoodAttempt
<1>4. i = n /\ ~(i < n)
  BY <1>1, <1>3, LiveIsLast, NotBefore
<1>5. CASE a.state = "failed" /\ Put(i, Unclaimed(a)) /\ UNCHANGED canceledIds
  <2> DEFINE b == Unclaimed(a)
  <2>1. /\ GoodAttempt(b) /\ Evolves(a, b) /\ b.pending = a.pending /\ b.state = a.state
        /\ b.token = None
    BY <1>1, UnclaimedIsGood
  <2>2. Put(i, b)
    BY <1>5
  <2> HIDE DEF b
  <2>3. Keeps(a, b)
    BY <1>3, <2>1 DEF Keeps
  <2>4. PutStep(i, b)
    BY <1>1, <1>4, <1>5, <2>1, <2>2, <2>3 DEF PutStep
  <2>. QED BY <2>4
<1>6. CASE /\ a.state # "failed" /\ a.pending # "generate" /\ Bounded(a)
           /\ Put(i, Newer(Unpended(a))) /\ UNCHANGED canceledIds
  <2> DEFINE u == Unpended(a)
             b == Newer(u)
  <2>1. /\ GoodAttempt(u) /\ u.token = None /\ u.request = a.request /\ u.base = a.base
        /\ u.version = a.version /\ u.version < MaxVersion
    BY <1>1, <1>6, UnpendedIsGood DEF Bounded
  <2> HIDE DEF u
  <2>2. /\ GoodAttempt(b) /\ b.token = None /\ b.request = a.request /\ b.base = a.base
        /\ b.version = a.version + 1
    BY <2>1, NewerIsGood
  <2>3. Put(i, b)
    BY <1>6 DEF u
  <2> HIDE DEF b
  <2>4. Evolves(a, b)
    BY <1>1, <2>2, NewVersionsEvolve DEF GoodAttempt
  <2>5. Keeps(a, b)
    BY <1>3, <2>2 DEF Keeps
  <2>6. triage # "closed"
    BY <1>1, <1>6 DEF RemediationInv, ClosedInv
  <2>7. PutStep(i, b)
    BY <1>1, <1>4, <1>6, <2>2, <2>3, <2>4, <2>5, <2>6 DEF PutStep
  <2>. QED BY <2>7
<1>7. CASE /\ a.state # "failed" /\ a.pending = "generate"
           /\ \A j \in DOMAIN attempts : Bounded(attempts[j])
           /\ CancelGeneration(i)
  <2> DEFINE rest == RemoveAt(attempts, i)
  <2>1. attempts \in Seq(Attempt) /\ n \in Nat /\ DOMAIN attempts = 1 .. n /\ attempts # <<>>
    BY <1>1 DEF RemediationInv, QueueInv
  <2>2. /\ rest \in Seq(Attempt) /\ Len(rest) = n - 1
        /\ \A j \in 1 .. n - 1 : rest[j] = attempts[j]
    BY <1>4, <2>1, LastRemoved
  <2>3. /\ attempts' = IF rest = <<>> THEN <<>> ELSE [rest EXCEPT ![Len(rest)] = Restored(@)]
        /\ canceledIds' = canceledIds \cup {Latest.request}
    BY <1>4, <1>7 DEF CancelGeneration, Latest
  <2> HIDE DEF rest
  <2>4. triage = "open"
    BY <1>1, <1>7 DEF RemediationInv, ClosedInv
  <2>5. CASE rest = <<>>
    <3>1. attempts' = <<>> /\ attempts' \in Seq(Attempt) /\ Len(attempts') = n - 1
          /\ DOMAIN attempts' = {}
      BY <2>2, <2>3, <2>5
    <3>. QED BY <1>1, <2>1, <2>3, <2>4, <3>1 DEF TakeStep
  <2>6. CASE rest # <<>>
    <3> DEFINE m == n - 1
               last == attempts[m]
               s == Restored(last)
    <3>1. m \in DOMAIN attempts /\ m < n /\ m \in DOMAIN rest /\ rest[m] = last /\ m \in Nat
      BY <2>1, <2>2, <2>6
    <3>2. GoodAttempt(last) /\ Settled(last) /\ last.version < MaxVersion
      BY <1>7, <3>1 DEF RemediationInv, QueueInv, Bounded
    <3>3. /\ GoodAttempt(s) /\ Evolves(last, s) /\ s.token = None /\ s \in Attempt
          /\ s.state = IF last.state = "superseded" THEN last.before ELSE last.state
      BY <3>2, RestoredIsGood DEF GoodAttempt
    <3>4. attempts' = [rest EXCEPT ![m] = s]
      BY <2>2, <2>3, <2>6, <3>1
    <3> HIDE DEF s
    <3>5. /\ attempts' \in Seq(Attempt) /\ Len(attempts') = m /\ DOMAIN attempts' = 1 .. m
          /\ \A j \in 1 .. m : attempts'[j] = IF j = m THEN s ELSE attempts[j]
      <4>1. m \in 1 .. Len(rest)
        BY <2>2, <3>1
      <4>2. /\ attempts' \in Seq(Attempt) /\ Len(attempts') = Len(rest)
            /\ \A j \in 1 .. Len(rest) : attempts'[j] = IF j = m THEN s ELSE rest[j]
        BY <2>2, <3>3, <3>4, <4>1, ExceptSeq
      <4>. QED BY <2>2, <4>2
    <3>6. ASSUME NEW j \in DOMAIN attempts'
          PROVE  /\ GoodAttempt(attempts'[j]) /\ Evolves(attempts[j], attempts'[j])
                 /\ Keeps(attempts[j], attempts'[j])
                 /\ j < Len(attempts') => attempts'[j] = attempts[j]
      <4>1. CASE j = m
        <5>1. attempts'[j] = s /\ attempts[j] = last /\ ~(j < Len(attempts'))
          BY <3>1, <3>5, <4>1
        <5>2. Keeps(last, s)
          BY <3>3 DEF Keeps
        <5>. QED BY <3>3, <5>1, <5>2
      <4>2. CASE j # m
        <5>1. attempts'[j] = attempts[j]
          BY <3>5, <4>2
        <5>2. j \in DOMAIN attempts
          <6>1. j \in 1 .. m /\ m < n /\ m \in Nat /\ n \in Nat
            BY <2>1, <3>1, <3>5
          <6>. HIDE DEF m, n
          <6>2. j \in 1 .. n
            BY <6>1
          <6>. QED BY <2>1, <6>2
        <5>3. GoodAttempt(attempts[j])
          BY <5>2 DEF RemediationInv, QueueInv
        <5>4. Evolves(attempts[j], attempts[j]) /\ Keeps(attempts[j], attempts[j])
          BY <5>3 DEF Evolves, SameState, Keeps
        <5>. QED BY <5>1, <5>3, <5>4
      <4>. QED BY <4>1, <4>2
    <3>. QED BY <1>1, <2>1, <2>3, <2>4, <3>5, <3>6 DEF TakeStep
  <2>. QED BY <2>5, <2>6
<1>. QED BY <1>2, <1>5, <1>6, <1>7

LEMMA StepsHaveShape == RemediationInv /\ RemediationNext => StepShape
<1> SUFFICES ASSUME RemediationInv, RemediationNext PROVE StepShape
  OBVIOUS
<1>1. CASE \/ \E status \in {"open", "closed"} : SetFindingTriage(status)
           \/ \E c \in inFlight : Refused(c)
           \/ \E r \in Request : WorkerApplies(r)
           \/ UserEdits
  BY <1>1, QuietHaveShape DEF StepShape
<1>2. ASSUME NEW c \in inFlight, WriteAction(c) \/ WriteSet(c) PROVE StepShape
  BY <1>2, WritesHaveShape DEF StepShape
<1>3. ASSUME NEW r \in Request, LeaseEnds(r) PROVE StepShape
  BY <1>3, LeasesHaveShape DEF StepShape
<1>4. ASSUME NEW r \in Request, NEW k \in ActionToken, RequestFindingRemediation(r, k)
      PROVE  StepShape
  BY <1>4, RequestsHaveShape DEF StepShape
<1>5. ASSUME NEW r \in Request, NEW k \in ActionToken,
             ClaimResend(r, k) \/ MarkDelivered(r, k) \/ ReleaseClaim(r, k)
      PROVE  StepShape
  BY <1>5, ClaimsHaveShape DEF StepShape
<1>6. ASSUME NEW r \in Request, NEW k \in ActionToken, CancelRequest(r, k) PROVE StepShape
  BY <1>6, CancelsHaveShape DEF StepShape
<1>7. ASSUME NEW r \in Request, NEW k \in ActionToken, NEW version \in 1 .. MaxVersion,
             \/ \E action \in {"apply", "verify"} : ReadForAction(r, k, version, action)
             \/ \E to \in State : ReadForSet(r, k, version, to)
      PROVE  StepShape
  BY <1>7, ReadsHaveShape DEF StepShape
<1>. QED
  BY <1>1, <1>2, <1>3, <1>4, <1>5, <1>6, <1>7 DEF RemediationNext

LEMMA RemediationStep == RemediationInv /\ [RemediationNext]_vars => RemediationInv'
<1>1. RemediationInv /\ RemediationNext => RemediationInv'
  BY StepsHaveShape, QuietKeeps, PutKeeps, AddKeeps, TakeKeeps DEF StepShape
<1>2. RemediationInv /\ UNCHANGED vars => RemediationInv'
  BY DEF vars, RemediationInv, QueueInv, FlightInv, ClosedInv, Ids
<1>. QED BY <1>1, <1>2

LEMMA RemediationStart == RemediationInit => RemediationInv
<1> SUFFICES ASSUME RemediationInit PROVE RemediationInv
  OBVIOUS
<1>1. /\ attempts = <<>> /\ DOMAIN attempts = {} /\ attempts \in Seq(Attempt)
      /\ canceledIds = {} /\ triage = "open" /\ inFlight = {}
  BY DEF RemediationInit
<1>2. checkout \in Content
  BY RemediationAssumption DEF RemediationInit, Content
<1>3. IsFiniteSet(inFlight) /\ Cardinality(inFlight) <= MaxInFlight
  BY <1>1, FS_EmptySet, RemediationAssumption
<1>. QED BY <1>1, <1>2, <1>3 DEF RemediationInv, QueueInv, FlightInv, ClosedInv

\* The inductive invariant of the repair of a finding: an attempt that others followed is
\* settled, what is called applied was reviewed, a command in flight agrees with its row
\* for as long as the row has the version it read, and a closed finding has nothing pending
\* but what failed (workbench_db.py and workbench_remediation.py, every operation).
THEOREM RemediationInvariant == RemediationSpec => []RemediationInv
BY RemediationStart, RemediationStep, PTL DEF RemediationSpec

\* Every column keeps its type, and a claim its time and its pending operation.
THEOREM RemediationTypeCorrect == RemediationSpec => []RemediationTypeOK
<1>1. RemediationInv => RemediationTypeOK
  BY DEF RemediationInv, QueueInv, FlightInv, ClosedInv, GoodCommand, GoodAttempt,
         RemediationTypeOK
<1>. QED BY <1>1, RemediationInvariant, PTL

\* One attempt lives at any time, and what is called applied or verified is the reviewed
\* patch of this attempt on the contents it was generated for.
THEOREM OneAttemptLivesAndWasReviewed == RemediationSpec => []AttemptsAreSound
<1>1. RemediationInv => AttemptsAreSound
  BY DEF RemediationInv, QueueInv, GoodAttempt, Reviewed, Settled, AttemptsAreSound,
         OneLiveAttempt, AppliedIsReviewed
<1>. QED BY <1>1, RemediationInvariant, PTL

-----------------------------------------------------------------------------
(* What a step never does to an attempt, from the shapes.                    *)

LEMMA AttemptsAreKept ==
  ASSUME RemediationInv, StepShape \/ UNCHANGED vars,
         NEW i \in DOMAIN attempts \cap DOMAIN attempts', attempts'[i].request = attempts[i].request
  PROVE  Keeps(attempts[i], attempts'[i])
<1>1. GoodAttempt(attempts[i])
  BY DEF RemediationInv, QueueInv
<1>2. Keeps(attempts[i], attempts[i])
  BY DEF Keeps
<1>3. CASE QuietStep \/ UNCHANGED vars
  BY <1>2, <1>3 DEF QuietStep, vars
<1>4. ASSUME NEW j, NEW b, PutStep(j, b) PROVE Keeps(attempts[i], attempts'[i])
  <2>1. attempts'[i] = IF i = j THEN b ELSE attempts[i]
    BY <1>4, PutKeeps
  <2>. QED BY <1>2, <1>4, <2>1 DEF PutStep
<1>5. ASSUME NEW b, AddStep(b) PROVE Keeps(attempts[i], attempts'[i])
  BY <1>5 DEF AddStep
<1>6. CASE TakeStep
  BY <1>6 DEF TakeStep
<1>. QED BY <1>3, <1>4, <1>5, <1>6 DEF StepShape

LEMMA ClosedStaysFrozen ==
  ASSUME RemediationInv, StepShape \/ UNCHANGED vars, triage = "closed", triage' = "closed"
  PROVE  /\ Ids' = Ids
         /\ \A i \in DOMAIN attempts :
               attempts'[i].state = attempts[i].state /\ attempts'[i].pending = attempts[i].pending
<1>1. CASE QuietStep \/ UNCHANGED vars
  BY <1>1 DEF QuietStep, vars, Ids
<1>2. ASSUME NEW i, NEW b, PutStep(i, b)
      PROVE  /\ Ids' = Ids
             /\ \A j \in DOMAIN attempts :
                   attempts'[j].state = attempts[j].state /\ attempts'[j].pending = attempts[j].pending
  <2>1. /\ Ids' = Ids
        /\ \A j \in DOMAIN attempts : attempts'[j] = IF j = i THEN b ELSE attempts[j]
    BY <1>2, PutKeeps
  <2>2. b.state = attempts[i].state /\ b.pending = attempts[i].pending
    BY <1>2 DEF PutStep
  <2>. QED BY <2>1, <2>2
<1>3. ~TakeStep /\ \A b : ~AddStep(b)
  BY DEF TakeStep, AddStep
<1>. QED BY <1>1, <1>2, <1>3 DEF StepShape

LEMMA UpdatesAreNotLost ==
  ASSUME RemediationInv, StepShape \/ UNCHANGED vars, NEW c \in inFlight \ inFlight',
         NEW i \in DOMAIN attempts \cap DOMAIN attempts',
         attempts'[i].version # attempts[i].version
  PROVE  attempts[i].state = c.read.state /\ attempts[i].pending = c.read.pending
<1>1. ~QuietStep /\ ~UNCHANGED vars
  BY DEF QuietStep, vars
<1>2. ~TakeStep /\ \A b : ~AddStep(b)
  BY DEF TakeStep, AddStep
<1>3. ASSUME NEW j, NEW b, PutStep(j, b)
      PROVE  attempts[i].state = c.read.state /\ attempts[i].pending = c.read.pending
  <2>1. attempts'[i] = IF i = j THEN b ELSE attempts[i]
    BY <1>3, PutKeeps
  <2>2. i = j
    BY <2>1
  <2>3. PICK d \in inFlight :
          /\ inFlight' = inFlight \ {d}
          /\ attempts[j].state = d.read.state /\ attempts[j].pending = d.read.pending
    BY <1>3 DEF PutStep
  <2>. QED BY <2>2, <2>3
<1>. QED BY <1>1, <1>2, <1>3 DEF StepShape

\* Requests that read before their transaction, late workers and repeated panels neither
\* overwrite one another nor what the user decided: declining a new generation brings the
\* superseded attempt back as it was, a closed finding is frozen, an outcome is recorded
\* over the state in which it was validated, and a lease holds.
THEOREM RequestsNeverCollide == RemediationSpec => RequestsDoNotCollide
<1>1. RemediationInv /\ [RemediationNext]_vars => StepShape \/ UNCHANGED vars
  BY StepsHaveShape
<1>2. RemediationInv /\ [RemediationNext]_vars =>
        [\A i \in DOMAIN attempts \cap DOMAIN attempts' :
          attempts[i].state = "superseded" /\ attempts[i].request = attempts'[i].request
            => attempts'[i].state \in {"superseded", attempts[i].before}]_vars
  BY <1>1, AttemptsAreKept DEF Keeps
<1>3. RemediationInv /\ [RemediationNext]_vars =>
        [triage = "closed" /\ triage' = "closed" =>
          /\ Ids' = Ids
          /\ \A i \in DOMAIN attempts :
                attempts'[i].state = attempts[i].state /\ attempts'[i].pending = attempts[i].pending]_vars
  BY <1>1, ClosedStaysFrozen
<1>4. RemediationInv /\ [RemediationNext]_vars =>
        [\A c \in inFlight \ inFlight' : \A i \in DOMAIN attempts \cap DOMAIN attempts' :
          attempts[i].request = c.read.request /\ attempts'[i].request = c.read.request
          /\ attempts'[i].version # attempts[i].version
            => attempts[i].state = c.read.state /\ attempts[i].pending = c.read.pending]_vars
  BY <1>1, UpdatesAreNotLost
<1>5. RemediationInv /\ [RemediationNext]_vars =>
        [\A i \in DOMAIN attempts \cap DOMAIN attempts' :
          ClaimIsActive(attempts[i]) /\ attempts'[i].request = attempts[i].request
            => attempts'[i].token \in {attempts[i].token, None}]_vars
  BY <1>1, AttemptsAreKept DEF Keeps
<1>6. RemediationSpec => CancelRestores
  BY <1>2, RemediationInvariant, PTL DEF RemediationSpec, CancelRestores
<1>7. RemediationSpec => ClosedIsFrozen
  BY <1>3, RemediationInvariant, PTL DEF RemediationSpec, ClosedIsFrozen
<1>8. RemediationSpec => NoLostUpdate
  BY <1>4, RemediationInvariant, PTL DEF RemediationSpec, NoLostUpdate
<1>9. RemediationSpec => LeasesHold
  BY <1>5, RemediationInvariant, PTL DEF RemediationSpec, LeasesHold
<1>. QED BY <1>6, <1>7, <1>8, <1>9 DEF RequestsDoNotCollide

-----------------------------------------------------------------------------
(* The groups of duplicates.                                                 *)

\* There is a number of findings.
FindingConstants == N \in Nat

Merging == phase = "merge"
Grouping == phase \in {"component", "merge", "done"}

\* What is still to be grouped: the open findings and those in the clusters.
Members == UNION {cluster[c] : c \in active}
Pending == IF Merging THEN open \cup Members ELSE open

\* No accepted pair leaves what is still to be grouped; of the rest every pair is decided.
PendingIsSound ==
    /\ phase \in {"screen", "review"} => groups = {}
    /\ phase = "done" => open = {}
    /\ \A g \in groups : g \subseteq Finding /\ g \cap Pending = {}
    /\ Grouping => Closed(open) /\ Closed(Pending)
    /\ Grouping => \A p \in supported : p \cap Pending = {} => Separated(p)

\* Clusters do not overlap, hang together and hold no rejected pair.
ClustersAreSound ==
    Merging =>
      /\ \A c \in active :
           /\ c \in cluster[c] /\ cluster[c] \cap open = {}
           /\ Connected(cluster[c]) /\ Inside(rejected, cluster[c]) = {}
      /\ \A c, d \in active : c # d => cluster[c] \cap cluster[d] = {}

GroupsInv ==
    /\ DeduplicationTypeOK /\ PendingIsSound /\ ClustersAreSound
    /\ BooksAgree /\ GroupsAreConsistent /\ GroupsAreSupported

-----------------------------------------------------------------------------
(* Pairs, and what they connect.                                             *)

LEMMA PairIs ==
  ASSUME FindingConstants, NEW p
  PROVE  p \in Pair <=> \E f, g \in Finding : f # g /\ p = {f, g}
<1>1. ASSUME NEW f \in Finding, NEW g \in Finding, f # g
      PROVE  {f, g} \in Pair
  <2>1. IsFiniteSet({f}) /\ Cardinality({f}) = 1
    BY FS_Singleton
  <2>2. Cardinality({f} \cup {g}) = 2
    BY <1>1, <2>1, FS_AddElement
  <2>3. {f} \cup {g} = {f, g}
    OBVIOUS
  <2> QED BY <2>2, <2>3 DEF Pair
<1>2. ASSUME p \in Pair
      PROVE  \E f, g \in Finding : f # g /\ p = {f, g}
  <2>1. p \subseteq Finding /\ Cardinality(p) = 2
    BY <1>2 DEF Pair
  <2>2. IsFiniteSet(p)
    <3>1. IsFiniteSet(Finding)
      BY FS_Interval DEF Finding, FindingConstants
    <3> QED BY <2>1, <3>1, FS_Subset
  <2>3. PICK f \in p : TRUE
    BY <2>1, <2>2, FS_EmptySet
  <2>4. IsFiniteSet(p \ {f}) /\ Cardinality(p \ {f}) = 1
    BY <2>1, <2>2, <2>3, FS_RemoveElement
  <2>5. PICK g : p \ {f} = {g}
    BY <2>4, FS_Singleton
  <2> QED BY <2>1, <2>3, <2>5
<1> QED BY <1>1, <1>2

LEMMA PairHas ==
  ASSUME FindingConstants, NEW f \in Finding, NEW g \in Finding, f # g
  PROVE  {f, g} \in Pair
BY PairIs

\* Of two sets that do not overlap a pair between them lies in both.
LEMMA PairBetween ==
  ASSUME FindingConstants, NEW p \in Pair, NEW A, NEW B, A \cap B = {}, p \cap A # {}, p \cap B # {}
  PROVE  \E f \in A, g \in B : p = {f, g} /\ f # g
BY PairIs

LEMMA FinitePairs ==
  ASSUME FindingConstants
  PROVE  /\ IsFiniteSet(Finding) /\ IsFiniteSet(Pair)
         /\ \A pairs \in SUBSET Pair :
              /\ IsFiniteSet(pairs) /\ Cardinality(pairs) \in Nat
              /\ Cardinality(pairs) = 0 <=> pairs = {}
<1>1. IsFiniteSet(Finding)
  BY FS_Interval DEF Finding, FindingConstants
<1>2. IsFiniteSet(SUBSET Finding)
  BY <1>1, FS_SUBSET
<1>3. IsFiniteSet(Pair)
  BY <1>2, FS_Subset DEF Pair
<1> QED BY <1>1, <1>3, FS_Subset, FS_CardinalityType, FS_EmptySet

\* A component hangs together, and nothing accepted leads in or out.
LEMMA ComponentIs ==
  ASSUME NEW f \in Finding, supported \subseteq Pair, open \subseteq Finding, f \in open,
         Closed(open)
  PROVE  /\ f \in Component(f) /\ Component(f) \subseteq open
         /\ Closed(Component(f)) /\ Closed(open \ Component(f))
         /\ Connected(Component(f))
<1> DEFINE C == Component(f)
<1>1. f \in C /\ C \subseteq open /\ C \subseteq Finding
  BY DEF Component
<1>2. \A set \in SUBSET Finding : f \in set /\ Closed(set) => C \subseteq set
  BY DEF Component
<1>3. Closed(C)
  <2> SUFFICES ASSUME NEW p \in supported, NEW x \in p \cap C, NEW y \in p,
                      NEW set \in SUBSET Finding, f \in set, Closed(set)
               PROVE  y \in set /\ y \in Finding
    BY <1>1 DEF Closed, Component
  <2>1. x \in set
    BY <1>2
  <2> QED BY <2>1, <1>1 DEF Closed, Pair
<1>4. Closed(open \ C)
  <2> SUFFICES ASSUME NEW p \in supported, NEW x \in p, x \in open, x \notin C, NEW y \in p
               PROVE  y \in open \ C
    BY DEF Closed
  <2>1. y \in open
    BY DEF Closed
  <2>2. y \in C => x \in C
    BY <1>3 DEF Closed
  <2> QED BY <2>1, <2>2
<1>5. Connected(C)
  <2> SUFFICES ASSUME NEW part \in SUBSET C, part # {}, part # C,
                      \A p \in Inside(supported, C) : p \cap part # {} => p \subseteq part
               PROVE  FALSE
    BY DEF Connected
  <2>1. \A p \in supported : p \cap C # {} => p \in Inside(supported, C)
    BY <1>3 DEF Closed, Inside
  <2>2. Closed(part)
    BY <2>1 DEF Closed
  <2>3. Closed(C \ part)
    <3> SUFFICES ASSUME NEW p \in supported, NEW x \in p, x \in C \ part
                 PROVE  p \subseteq C \ part
      BY DEF Closed
    <3>1. p \subseteq C /\ p \in Inside(supported, C)
      BY <2>1 DEF Inside
    <3> QED BY <3>1
  <2>4. CASE f \in part
    BY <1>1, <1>2, <2>2, <2>4
  <2>5. CASE f \notin part
    BY <1>1, <1>2, <2>3, <2>5
  <2> QED BY <2>4, <2>5
<1> QED BY <1>1, <1>3, <1>4, <1>5

\* Two sets that hang together and have a pair between them hang together.
LEMMA UnionConnected ==
  ASSUME FindingConstants, NEW A, NEW B, supported \subseteq Pair, A \cap B = {},
         Connected(A), Connected(B),
         NEW q \in supported, q \cap A # {}, q \cap B # {}
  PROVE  Connected(A \cup B)
<1>1. PICK a \in A, b \in B : q = {a, b}
  BY PairBetween
<1> SUFFICES ASSUME NEW part \in SUBSET (A \cup B), part # {}, part # A \cup B
             PROVE  \E p \in Inside(supported, A \cup B) : p \cap part # {} /\ ~(p \subseteq part)
  BY DEF Connected
<1>2. CASE part \cap A \notin {{}, A}
  <2>1. PICK p \in Inside(supported, A) : p \cap (part \cap A) # {} /\ ~(p \subseteq part \cap A)
    BY <1>2 DEF Connected
  <2> QED BY <2>1 DEF Inside
<1>3. CASE part \cap B \notin {{}, B}
  <2>1. PICK p \in Inside(supported, B) : p \cap (part \cap B) # {} /\ ~(p \subseteq part \cap B)
    BY <1>3 DEF Connected
  <2> QED BY <2>1 DEF Inside
<1>4. CASE part = A \/ part = B
  BY <1>1, <1>4 DEF Inside
<1>5. part = (part \cap A) \cup (part \cap B)
  OBVIOUS
<1>6. part \cap A = {} /\ part \cap B = B => part = B
  BY <1>5
<1>7. part \cap A = A /\ part \cap B = {} => part = A
  BY <1>5
<1>8. ~(part \cap A = {} /\ part \cap B = {}) /\ ~(part \cap A = A /\ part \cap B = B)
  BY <1>5
<1> QED BY <1>2, <1>3, <1>4, <1>6, <1>7, <1>8

\* A finding is alone, or in the one group that has it.
GroupIn(sets, f) == IF \E g \in sets : f \in g THEN CHOOSE g \in sets : f \in g ELSE {f}
Apart(sets) == \A g \in sets, h \in sets : g # h => g \cap h = {}

LEMMA GroupIs ==
  ASSUME NEW sets, Apart(sets), NEW f
  PROVE  /\ \A g \in sets : f \in g => GroupIn(sets, f) = g
         /\ (\A g \in sets : f \notin g) => GroupIn(sets, f) = {f}
<1>1. ASSUME NEW g \in sets, f \in g
      PROVE  GroupIn(sets, f) = g
  <2> DEFINE h == CHOOSE h \in sets : f \in h
  <2>1. h \in sets /\ f \in h
    BY <1>1
  <2>2. h = g
    BY <1>1, <2>1 DEF Apart
  <2> QED BY <1>1, <2>2 DEF GroupIn
<1> QED BY <1>1 DEF GroupIn

\* Sets that are apart become groups: what was decided stays so, and a pair within them is
\* decided when the sets of its findings are the same or hold a rejected pair.
LEMMA GroupsGrow ==
  ASSUME FindingConstants, GroupsInv, NEW M \in SUBSET SUBSET Finding, Apart(M),
         \A c \in M : Inside(rejected, c) = {} /\ Connected(c) /\ \A g \in groups : g \cap c = {},
         groups' = groups \cup Relevant(M), UNCHANGED <<selected, rejected, supported>>
  PROVE  /\ GroupsAreConsistent' /\ GroupsAreSupported'
         /\ \A g \in groups' : g \in groups \/ g \in M
         /\ \A p \in supported : (\A c \in M : p \cap c = {}) /\ Separated(p) => Separated(p)'
         /\ \A p \in supported :
              (\A f, g \in p : \E c, d \in M :
                   /\ f \in c /\ g \in d
                   /\ c # d => \E r \in rejected : r \cap c # {} /\ r \cap d # {})
              => Separated(p)'
<1>1. Relevant(M) \subseteq M /\ \A g \in groups' : g \in groups \/ g \in M
  BY DEF Relevant
<1>2. Apart(groups) /\ Apart(groups')
  BY <1>1 DEF Apart, GroupsInv, GroupsAreConsistent
<1>3. GroupsAreConsistent'
  <2>1. \A g \in groups' : Inside(rejected, g)' = {}
    BY <1>1 DEF Inside, GroupsInv, GroupsAreConsistent
  <2> QED BY <1>2, <2>1 DEF GroupsAreConsistent, Apart
<1>4. GroupsAreSupported'
  <2>1. \A g \in groups' : Connected(g)
    BY <1>1 DEF GroupsInv, GroupsAreSupported
  <2>2. \A g : Connected(g)' = Connected(g)
    BY DEF Connected, Inside
  <2> QED BY <2>1, <2>2 DEF GroupsAreSupported
<1>5. \A f : GroupOf(f) = GroupIn(groups, f) /\ GroupOf(f)' = GroupIn(groups', f)
  BY DEF GroupOf, GroupIn
<1>6. ASSUME NEW f, \A c \in M : f \notin c
      PROVE  GroupOf(f)' = GroupOf(f)
  <2>1. CASE \E g \in groups : f \in g
    <3>1. PICK g \in groups : f \in g
      BY <2>1
    <3>2. GroupIn(groups, f) = g /\ GroupIn(groups', f) = g
      BY <1>2, <3>1, GroupIs
    <3> QED BY <1>5, <3>2
  <2>2. CASE ~ \E g \in groups : f \in g
    <3>1. GroupIn(groups, f) = {f} /\ GroupIn(groups', f) = {f}
      BY <1>1, <1>2, <1>6, <2>2, GroupIs
    <3> QED BY <1>5, <3>1
  <2> QED BY <2>1, <2>2
<1>7. ASSUME NEW c \in M, NEW f \in c, GroupOf(f)' \cap selected # {}
      PROVE  GroupOf(f)' = c
  <2>1. CASE c \in Relevant(M)
    <3>1. c \in groups' /\ f \in c
      BY <2>1
    <3>2. GroupIn(groups', f) = c
      BY <1>2, <3>1, GroupIs
    <3> QED BY <1>5, <3>2
  <2>2. CASE c \notin Relevant(M)
    <3>1. \A g \in groups' : f \notin g
      BY <1>1, <1>7, <2>2 DEF Apart
    <3>2. GroupOf(f)' = {f}
      BY <1>2, <1>5, <3>1, GroupIs
    <3>3. ~(Cardinality(c) > 1)
      BY <1>7, <2>2, <3>2 DEF Relevant
    <3>4. IsFiniteSet(c) /\ Cardinality(c) \in Nat /\ Cardinality(c) # 0
      BY <1>7, FinitePairs, FS_Subset, FS_CardinalityType, FS_EmptySet
    <3>5. Cardinality(c) = 1
      BY <3>3, <3>4
    <3>6. \E x : c = {x}
      BY <3>4, <3>5, FS_Singleton
    <3> QED BY <1>7, <3>2, <3>6
  <2> QED BY <2>1, <2>2
<1>8. ASSUME NEW p \in supported, \A c \in M : p \cap c = {}, Separated(p)
      PROVE  Separated(p)'
  <2>1. \A f \in p : GroupOf(f)' = GroupOf(f)
    BY <1>6, <1>8
  <2> QED BY <1>8, <2>1 DEF Separated
<1>9. ASSUME NEW p \in supported,
             \A f, g \in p : \E c, d \in M :
                 /\ f \in c /\ g \in d
                 /\ c # d => \E r \in rejected : r \cap c # {} /\ r \cap d # {}
      PROVE  Separated(p)'
  <2> SUFFICES ASSUME NEW f \in p, NEW g \in p, GroupOf(f)' # GroupOf(g)',
                      GroupOf(f)' \cap selected # {}, GroupOf(g)' \cap selected # {}
               PROVE  \E r \in rejected : r \cap GroupOf(f)' # {} /\ r \cap GroupOf(g)' # {}
    BY DEF Separated
  <2>1. PICK c \in M, d \in M :
          /\ f \in c /\ g \in d
          /\ c # d => \E r \in rejected : r \cap c # {} /\ r \cap d # {}
    BY <1>9
  <2>2. GroupOf(f)' = c /\ GroupOf(g)' = d
    BY <1>7, <2>1
  <2> QED BY <2>1, <2>2
<1> QED BY <1>1, <1>3, <1>4, <1>8, <1>9

-----------------------------------------------------------------------------
(* The steps.                                                                *)

LEMMA GroupingStarts ==
  ASSUME FindingConstants, DeduplicationInit
  PROVE  GroupsInv
<1> USE DEF DeduplicationInit
<1>1. selected \subseteq Finding /\ next \in 1 .. N + 1
  BY DEF Finding, FindingConstants
<1>2. DeduplicationTypeOK
  BY <1>1 DEF DeduplicationTypeOK
<1>3. PendingIsSound /\ ClustersAreSound /\ BooksAgree
  BY DEF PendingIsSound, ClustersAreSound, BooksAgree, Grouping, Merging
<1>4. GroupsAreConsistent /\ GroupsAreSupported
  BY DEF GroupsAreConsistent, GroupsAreSupported
<1> QED BY <1>2, <1>3, <1>4 DEF GroupsInv

\* While pairs are decided there is no group.
LEMMA DecidingKeeps ==
  ASSUME FindingConstants, GroupsInv, Screen \/ EndScreening \/ ReviewPair
  PROVE  GroupsInv'
<1> USE DEF GroupsInv, DeduplicationTypeOK
<1>1. /\ phase \in {"screen", "review"} /\ phase' \in {"screen", "review"}
      /\ groups' = {} /\ open' = open /\ books' = books /\ selected' = selected /\ near' = near
  BY DEF Screen, EndScreening, ReviewPair, PendingIsSound
<1>2. next' \in 1 .. N + 1
  BY DEF Screen, EndScreening, ReviewPair, Finding, FindingConstants
<1>3. {nominated', rejected', supported'} \subseteq SUBSET Pair
  <2>1. CASE Screen
    BY <2>1 DEF Screen
  <2>2. CASE EndScreening
    BY <2>2 DEF EndScreening
  <2>3. CASE ReviewPair
    BY <2>3 DEF ReviewPair
  <2> QED BY <2>1, <2>2, <2>3
<1>4. DeduplicationTypeOK'
  BY <1>1, <1>2, <1>3 DEF books
<1>5. (PendingIsSound /\ ClustersAreSound /\ BooksAgree)'
  BY <1>1 DEF PendingIsSound, ClustersAreSound, BooksAgree, Grouping, Merging
<1>6. (GroupsAreConsistent /\ GroupsAreSupported)'
  BY <1>1 DEF GroupsAreConsistent, GroupsAreSupported
<1> QED BY <1>4, <1>5, <1>6

\* What is accepted is open.
LEMMA EndReviewKeeps ==
  ASSUME FindingConstants, GroupsInv, EndReview
  PROVE  GroupsInv'
<1> USE DEF GroupsInv, DeduplicationTypeOK
<1>1. /\ phase' = "component" /\ groups' = {} /\ open' = UNION supported /\ books' = books
      /\ UNCHANGED <<selected, near, next, nominated, rejected, supported>>
  BY DEF EndReview, PendingIsSound
<1>2. open' \subseteq Finding
  BY <1>1 DEF Pair
<1>3. DeduplicationTypeOK'
  BY <1>1, <1>2 DEF books
<1>4. PendingIsSound'
  <2>1. Closed(open)' /\ Pending' = open'
    BY <1>1 DEF Closed, Pending, Merging
  <2>2. \A p \in supported : p # {} /\ p \subseteq open'
    <3> SUFFICES ASSUME NEW p \in supported
                 PROVE  p # {} /\ p \subseteq UNION supported
      BY <1>1
    <3>1. p \in Pair
      OBVIOUS
    <3>2. PICK f \in Finding, g \in Finding : p = {f, g}
      BY <3>1, PairIs
    <3> QED BY <3>2
  <2> QED BY <1>1, <2>1, <2>2 DEF PendingIsSound, Grouping, Closed
<1>5. (ClustersAreSound /\ BooksAgree)'
  BY <1>1 DEF ClustersAreSound, BooksAgree, Merging
<1>6. (GroupsAreConsistent /\ GroupsAreSupported)'
  BY <1>1 DEF GroupsAreConsistent, GroupsAreSupported
<1> QED BY <1>3, <1>4, <1>5, <1>6

LEMMA EndComponentsKeeps ==
  ASSUME FindingConstants, GroupsInv, EndComponents \/ UNCHANGED deduplicationVars
  PROVE  GroupsInv'
<1>1. /\ UNCHANGED <<selected, near, next, nominated, rejected, supported, books, open, groups>>
      /\ phase' = phase \/ (phase = "component" /\ phase' = "done" /\ open = {})
  BY DEF EndComponents, deduplicationVars
<1>2. DeduplicationTypeOK'
  BY <1>1 DEF GroupsInv, DeduplicationTypeOK, books
<1>3. Pending' = Pending /\ Grouping' = Grouping /\ Merging' = Merging
  BY <1>1 DEF Pending, Grouping, Merging, Members, books
<1>4. PendingIsSound'
  <2>1. /\ \A p \in supported : Separated(p)' = Separated(p)
        /\ Closed(open)' = Closed(open) /\ Closed(Pending)' = Closed(Pending)
    BY <1>1, <1>3 DEF Separated, GroupOf, Closed
  <2>2. phase' \in {"screen", "review"} => phase \in {"screen", "review"}
    BY <1>1
  <2> QED BY <1>1, <1>3, <2>1, <2>2 DEF GroupsInv, PendingIsSound
<1>5. ClustersAreSound' /\ BooksAgree'
  <2>1. active' = active /\ cluster' = cluster /\ support' = support /\ conflicts' = conflicts
    BY <1>1 DEF books
  <2>2. \A c : /\ Connected(cluster[c])' = Connected(cluster[c])
              /\ Inside(rejected, cluster[c])' = Inside(rejected, cluster[c])
    BY <1>1, <2>1 DEF Connected, Inside
  <2>3. ClustersAreSound'
    BY <1>1, <1>3, <2>1, <2>2 DEF GroupsInv, ClustersAreSound
  <2>4. BooksAgree'
    <3>1. \A c, d : /\ Between(supported, c, d)' = Between(supported, c, d)
                   /\ Between(rejected, c, d)' = Between(rejected, c, d)
      BY <1>1, <2>1 DEF Between
    <3>2. phase' = "merge" => phase = "merge"
      BY <1>1
    <3> SUFFICES ASSUME phase' = "merge", NEW c \in active', NEW d \in active', c # d
                 PROVE  /\ support'[{c, d}] = Cardinality(Between(supported, c, d)')
                        /\ {c, d} \in conflicts' <=> Between(rejected, c, d)' # {}
      BY DEF BooksAgree
    <3>3. /\ support[{c, d}] = Cardinality(Between(supported, c, d))
          /\ {c, d} \in conflicts <=> Between(rejected, c, d) # {}
      BY <2>1, <3>2 DEF GroupsInv, BooksAgree
    <3> QED BY <2>1, <3>1, <3>3
  <2> QED BY <2>3, <2>4
<1>6. (GroupsAreConsistent /\ GroupsAreSupported)'
  BY <1>1 DEF GroupsInv, GroupsAreConsistent, GroupsAreSupported, Connected, Inside
<1> QED BY <1>2, <1>4, <1>5, <1>6 DEF GroupsInv

\* The next component is a group, or is taken apart.
LEMMA NextComponentKeeps ==
  ASSUME FindingConstants, GroupsInv, NextComponent
  PROVE  GroupsInv'
<1>1. PICK first \in open :
        LET members == Component(first)
        IN /\ open' = open \ members
           /\ IF Inside(rejected, members) = {}
                THEN groups' = groups \cup Relevant({members}) /\ UNCHANGED <<phase, books>>
                ELSE Separate(members) /\ UNCHANGED groups
  BY DEF NextComponent
<1> DEFINE C == Component(first)
<1>2. /\ phase = "component" /\ Pending = open /\ Grouping /\ ~Merging
      /\ UNCHANGED <<selected, near, next, nominated, rejected, supported>>
  BY DEF NextComponent, Pending, Merging, Grouping
<1>3. /\ supported \subseteq Pair /\ rejected \subseteq Pair /\ open \subseteq Finding
      /\ first \in Finding /\ Closed(open)
  BY <1>2 DEF GroupsInv, DeduplicationTypeOK, PendingIsSound
<1>4. /\ first \in C /\ C \subseteq open /\ Closed(C) /\ Closed(open \ C) /\ Connected(C)
  BY <1>3, ComponentIs
<1>5. open' = open \ C /\ \A set : Closed(set)' = Closed(set)
  BY <1>1, <1>2 DEF Closed
<1>6. /\ \A g \in groups : g \subseteq Finding /\ g \cap open = {}
      /\ \A p \in supported : p \cap open = {} => Separated(p)
  BY <1>2 DEF GroupsInv, PendingIsSound
<1>7. \A p \in supported : p \cap C # {} => p \subseteq C
  BY <1>4 DEF Closed
<1>8. CASE Inside(rejected, C) = {}
  <2>1. groups' = groups \cup Relevant({C}) /\ UNCHANGED <<phase, books>>
    BY <1>1, <1>8
  <2>2. {C} \in SUBSET SUBSET Finding /\ Apart({C}) /\ \A g \in groups : g \cap C = {}
    BY <1>3, <1>4, <1>6 DEF Apart
  <2> HIDE DEF C
  <2>3. /\ GroupsAreConsistent' /\ GroupsAreSupported'
        /\ \A g \in groups' : g \in groups \/ g \in {C}
        /\ \A p \in supported : (\A c \in {C} : p \cap c = {}) /\ Separated(p) => Separated(p)'
        /\ \A p \in supported :
             (\A f, g \in p : \E c, d \in {C} :
                  /\ f \in c /\ g \in d
                  /\ c # d => \E r \in rejected : r \cap c # {} /\ r \cap d # {})
             => Separated(p)'
    <3>1. \A c \in {C} :
            Inside(rejected, c) = {} /\ Connected(c) /\ \A g \in groups : g \cap c = {}
      BY <1>4, <1>8, <2>2
    <3>2. groups' = groups \cup Relevant({C}) /\ UNCHANGED <<selected, rejected, supported>>
      BY <1>2, <2>1
    <3> DEFINE M == {C}
    <3>3. /\ M \in SUBSET SUBSET Finding /\ Apart(M) /\ groups' = groups \cup Relevant(M)
          /\ \A c \in M :
               Inside(rejected, c) = {} /\ Connected(c) /\ \A g \in groups : g \cap c = {}
      BY <2>2, <3>1, <3>2
    <3> HIDE DEF M
    <3>4. /\ GroupsAreConsistent' /\ GroupsAreSupported'
          /\ \A g \in groups' : g \in groups \/ g \in M
          /\ \A p \in supported : (\A c \in M : p \cap c = {}) /\ Separated(p) => Separated(p)'
          /\ \A p \in supported :
               (\A f, g \in p : \E c, d \in M :
                    /\ f \in c /\ g \in d
                    /\ c # d => \E r \in rejected : r \cap c # {} /\ r \cap d # {})
               => Separated(p)'
      BY <3>2, <3>3, GroupsGrow
    <3> QED BY <3>4 DEF M
  <2>4. Pending' = open \ C /\ ~Merging' /\ Grouping'
    BY <1>2, <1>5, <2>1 DEF Pending, Merging, Grouping
  <2>5. \A p \in supported : p \cap (open \ C) = {} => Separated(p)'
    <3> SUFFICES ASSUME NEW p \in supported, p \cap (open \ C) = {}
                 PROVE  Separated(p)'
      OBVIOUS
    <3>1. CASE p \cap C = {}
      BY <1>6, <2>3, <3>1
    <3>2. CASE p \subseteq C
      BY <2>3, <3>2
    <3> QED BY <1>7, <3>1, <3>2
  <2>6. PendingIsSound'
    <3>1. phase' = "component"
      BY <1>2, <2>1
    <3>2. \A g \in groups' : g \subseteq Finding /\ g \cap (open \ C) = {}
      BY <1>3, <1>4, <1>6, <2>3
    <3>3. Closed(open)' /\ Closed(Pending)'
      BY <1>4, <1>5, <2>4
    <3> QED BY <1>2, <2>4, <2>5, <3>1, <3>2, <3>3 DEF PendingIsSound
  <2>7. DeduplicationTypeOK'
    <3>1. groups' \subseteq SUBSET Finding
      BY <1>6, <2>2, <2>3
    <3>2. open' \subseteq Finding
      BY <1>3, <1>5
    <3> QED BY <1>2, <2>1, <3>1, <3>2 DEF GroupsInv, DeduplicationTypeOK, books
  <2>8. ClustersAreSound' /\ BooksAgree'
    BY <1>2, <2>1, <2>4 DEF ClustersAreSound, BooksAgree, Merging
  <2> QED BY <2>3, <2>6, <2>7, <2>8 DEF GroupsInv
<1>9. CASE Inside(rejected, C) # {}
  <2>1. Separate(C) /\ groups' = groups
    BY <1>1, <1>9
  <2> HIDE DEF C
  <2>2. /\ phase' = "merge" /\ active' = C /\ Merging' /\ Grouping'
        /\ \A c \in C : cluster'[c] = {c}
        /\ cluster' \in [Finding -> SUBSET Finding]
    BY <1>3, <1>4, <2>1 DEF Separate, Merging, Grouping
  <2>3. Members' = C /\ Pending' = open
    BY <1>4, <1>5, <2>2 DEF Members, Pending
  <2>4. DeduplicationTypeOK'
    <3>1. support' \in [Pair -> Nat] /\ conflicts' \subseteq Pair
      BY <1>3, <2>1 DEF Separate, Inside
    <3>2. active' \subseteq Finding /\ open' \subseteq Finding
      BY <1>3, <1>4, <1>5, <2>2
    <3> QED BY <1>2, <2>1, <2>2, <3>1, <3>2 DEF GroupsInv, DeduplicationTypeOK
  <2>5. PendingIsSound'
    <3>1. \A p \in supported : Separated(p)' = Separated(p)
      BY <1>2, <2>1 DEF Separated, GroupOf
    <3>2. Closed(open)' /\ Closed(Pending)'
      BY <1>3, <1>4, <1>5, <2>3
    <3> QED BY <1>2, <1>6, <2>1, <2>2, <2>3, <3>1, <3>2 DEF PendingIsSound
  <2>6. ClustersAreSound'
    <3> SUFFICES ASSUME NEW c \in C
                 PROVE  /\ c \in cluster'[c] /\ cluster'[c] \cap open' = {}
                        /\ Connected(cluster[c])' /\ Inside(rejected, cluster[c])' = {}
                        /\ \A d \in C : c # d => cluster'[c] \cap cluster'[d] = {}
      BY <2>2 DEF ClustersAreSound
    <3>1. Connected(cluster[c])'
      BY <2>2 DEF Connected
    <3>2. Inside(rejected, cluster[c])' = {}
      <4>1. \A p \in rejected : ~(p \subseteq {c})
        BY <1>3, PairIs
      <4> QED BY <1>2, <2>2, <4>1 DEF Inside
    <3> QED BY <1>5, <2>2, <3>1, <3>2
  <2>7. BooksAgree'
    <3> SUFFICES ASSUME NEW c \in C, NEW d \in C, c # d
                 PROVE  /\ support'[{c, d}] = Cardinality(Between(supported, c, d)')
                        /\ {c, d} \in conflicts' <=> Between(rejected, c, d)' # {}
      BY <2>2 DEF BooksAgree
    <3>1. {c, d} \in Pair /\ c \in Finding /\ d \in Finding
      BY <1>3, <1>4, PairHas
    <3>2. \A p \in Pair : p \cap {c} # {} /\ p \cap {d} # {} <=> p = {c, d}
      BY PairIs
    <3>3. /\ Between(supported, c, d)' = {p \in supported : p = {c, d}}
          /\ Between(rejected, c, d)' = {p \in rejected : p = {c, d}}
      BY <1>2, <1>3, <2>2, <3>2 DEF Between
    <3>4. support'[{c, d}] = IF {c, d} \in supported THEN 1 ELSE 0
      BY <2>1, <3>1 DEF Separate, Inside
    <3>5. {c, d} \in conflicts' <=> {c, d} \in rejected
      BY <2>1 DEF Separate, Inside
    <3>6. CASE {c, d} \in supported
      <4>1. Between(supported, c, d)' = {{c, d}}
        BY <3>3, <3>6
      <4>2. Cardinality({{c, d}}) = 1
        BY FS_Singleton
      <4>3. Between(rejected, c, d)' # {} <=> {c, d} \in rejected
        BY <3>3
      <4> QED BY <3>4, <3>5, <3>6, <4>1, <4>2, <4>3
    <3>7. CASE {c, d} \notin supported
      <4>1. Between(supported, c, d)' = {}
        BY <3>3, <3>7
      <4> QED BY <3>3, <3>4, <3>5, <3>7, <4>1, FS_EmptySet
    <3> QED BY <3>6, <3>7
  <2>8. (GroupsAreConsistent /\ GroupsAreSupported)'
    BY <1>2, <2>1 DEF GroupsInv, GroupsAreConsistent, GroupsAreSupported, Connected, Inside
  <2> QED BY <2>4, <2>5, <2>6, <2>7, <2>8 DEF GroupsInv
<1> QED BY <1>8, <1>9

\* The pairs between two sets, and what a merge writes.
Touching(pairs, X, Y) == {p \in pairs : p \cap X # {} /\ p \cap Y # {}}
MergedSupport(left, right) ==
    [p \in Pair |->
        CASE right \in p -> 0
          [] right \notin p /\ left \in p -> support[p] + support[(p \ {left}) \cup {right}]
          [] OTHER -> support[p]]
MergedConflicts(left, right) ==
    {p \in conflicts : right \notin p}
        \cup {(p \ {right}) \cup {left} : p \in {q \in conflicts : right \in q}}

PairsAmong(pairs, A, B, D) ==
    pairs \subseteq Pair /\ A \cap B = {} /\ A \cap D = {} /\ B \cap D = {}

\* The books of two clusters add up, as a pair between two clusters is in no third.
LEMMA BooksAddUp ==
  ASSUME FindingConstants, NEW pairs, NEW A, NEW B, NEW D, PairsAmong(pairs, A, B, D)
  PROVE  /\ Touching(pairs, A \cup B, D) = Touching(pairs, A, D) \cup Touching(pairs, B, D)
         /\ Cardinality(Touching(pairs, A \cup B, D))
              = Cardinality(Touching(pairs, A, D)) + Cardinality(Touching(pairs, B, D))
<1> USE DEF PairsAmong
<1> DEFINE S == Touching(pairs, A, D)
           T == Touching(pairs, B, D)
<1>1. Touching(pairs, A \cup B, D) = S \cup T
  BY DEF Touching
<1>2. S \cap T = {}
  <2> SUFFICES ASSUME NEW p \in pairs, p \cap A # {}, p \cap B # {}, p \cap D # {}
               PROVE  FALSE
    BY DEF Touching
  <2>1. PICK f \in Finding, g \in Finding : p = {f, g}
    BY PairIs
  <2> QED BY <2>1
<1>3. S \in SUBSET Pair /\ T \in SUBSET Pair
  BY DEF Touching
<1> HIDE DEF S, T
<1>4. IsFiniteSet(S) /\ IsFiniteSet(T) /\ Cardinality(S) \in Nat /\ Cardinality(T) \in Nat
  BY <1>3, FinitePairs
<1>5. Cardinality(S \cup T) = Cardinality(S) + Cardinality(T) - Cardinality(S \cap T)
  BY <1>4, FS_Union
<1>6. Cardinality(S \cap T) = 0
  BY <1>2, FS_EmptySet
<1>7. Cardinality(S \cup T) = Cardinality(S) + Cardinality(T)
  BY <1>4, <1>5, <1>6
<1> QED BY <1>1, <1>7 DEF S, T

\* What a merge does to the books of the others and of the cluster that stays.
LEMMA MergedBooks ==
  ASSUME FindingConstants, GroupsInv, NEW left \in active, NEW right \in active, left # right,
         {left, right} \notin conflicts,
         support' = MergedSupport(left, right), conflicts' = MergedConflicts(left, right)
  PROVE  /\ support' \in [Pair -> Nat] /\ conflicts' \subseteq Pair
         /\ \A d \in active \ {left, right} :
              /\ support'[{left, d}] = support[{left, d}] + support[{right, d}]
              /\ {left, d} \in conflicts' <=> {left, d} \in conflicts \/ {right, d} \in conflicts
         /\ \A c, d \in active \ {left, right} : c # d =>
              /\ support'[{c, d}] = support[{c, d}]
              /\ {c, d} \in conflicts' <=> {c, d} \in conflicts
<1> USE DEF MergedSupport, MergedConflicts
<1>1. /\ active \subseteq Finding /\ support \in [Pair -> Nat] /\ conflicts \subseteq Pair
      /\ left \in Finding /\ right \in Finding
  BY DEF GroupsInv, DeduplicationTypeOK
<1>2. ASSUME NEW p \in Pair, right \in p, p # {left, right}
      PROVE  \E x \in Finding \ {left, right} :
                p = {right, x} /\ (p \ {right}) \cup {left} = {left, x}
  <2>1. PICK f \in Finding, g \in Finding : f # g /\ p = {f, g}
    BY PairIs
  <2> QED BY <1>2, <2>1
<1>3. ASSUME NEW p \in Pair, left \in p, right \notin p
      PROVE  \E x \in Finding \ {left, right} :
                p = {left, x} /\ (p \ {left}) \cup {right} = {right, x}
  <2>1. PICK f \in Finding, g \in Finding : f # g /\ p = {f, g}
    BY PairIs
  <2> QED BY <1>3, <2>1
<1>4. support' \in [Pair -> Nat]
  <2>1. ASSUME NEW p \in Pair
        PROVE  (CASE right \in p -> 0
                  [] right \notin p /\ left \in p ->
                       support[p] + support[(p \ {left}) \cup {right}]
                  [] OTHER -> support[p]) \in Nat
    <3>1. CASE right \in p
      BY <3>1
    <3>2. CASE right \notin p /\ left \in p
      <4>1. (p \ {left}) \cup {right} \in Pair
        BY <1>1, <1>3, <3>2, PairHas
      <4> QED BY <1>1, <3>2, <4>1
    <3>3. CASE right \notin p /\ left \notin p
      BY <1>1, <3>3
    <3> QED BY <3>1, <3>2, <3>3
  <2> QED BY <2>1
<1>5. conflicts' \subseteq Pair
  <2> SUFFICES ASSUME NEW q \in conflicts, right \in q
               PROVE  (q \ {right}) \cup {left} \in Pair
    BY <1>1
  <2>1. q \in Pair /\ q # {left, right}
    BY <1>1
  <2>2. PICK x \in Finding \ {left, right} : (q \ {right}) \cup {left} = {left, x}
    BY <1>2, <2>1
  <2> QED BY <1>1, <2>2, PairHas
<1>6. ASSUME NEW d \in active \ {left, right}
      PROVE  /\ support'[{left, d}] = support[{left, d}] + support[{right, d}]
             /\ {left, d} \in conflicts' <=> {left, d} \in conflicts \/ {right, d} \in conflicts
  <2>1. {left, d} \in Pair /\ {right, d} \in Pair /\ right \notin {left, d} /\ left \in {left, d}
    BY <1>1, PairHas
  <2>2. /\ ({left, d} \ {left}) \cup {right} = {right, d}
        /\ ({right, d} \ {right}) \cup {left} = {left, d}
    OBVIOUS
  <2>3. support'[{left, d}] = support[{left, d}] + support[{right, d}]
    BY <2>1, <2>2
  <2>4. {right, d} \in conflicts => {left, d} \in conflicts'
    BY <2>2
  <2>5. {left, d} \in conflicts => {left, d} \in conflicts'
    BY <2>1
  <2>6. ASSUME {left, d} \in conflicts'
        PROVE  {left, d} \in conflicts \/ {right, d} \in conflicts
    <3> SUFFICES ASSUME NEW q \in conflicts, right \in q, {left, d} = (q \ {right}) \cup {left}
                 PROVE  {right, d} \in conflicts
      BY <2>6
    <3>1. PICK x \in Finding \ {left, right} : q = {right, x} /\ {left, d} = {left, x}
      BY <1>1, <1>2
    <3>2. x = d
      BY <3>1
    <3> QED BY <3>1, <3>2
  <2> QED BY <2>3, <2>4, <2>5, <2>6
<1>7. ASSUME NEW c \in active \ {left, right}, NEW d \in active \ {left, right}, c # d
      PROVE  /\ support'[{c, d}] = support[{c, d}]
             /\ {c, d} \in conflicts' <=> {c, d} \in conflicts
  <2>1. {c, d} \in Pair /\ left \notin {c, d} /\ right \notin {c, d}
    BY <1>1, <1>7, PairHas
  <2>2. support'[{c, d}] = support[{c, d}]
    BY <2>1
  <2>3. \A q : (q \ {right}) \cup {left} # {c, d}
    BY <2>1
  <2> QED BY <2>1, <2>2, <2>3
<1> QED BY <1>4, <1>5, <1>6, <1>7

\* The clusters of a merge are those of before, two of them united.
LEMMA MergeKeeps ==
  ASSUME FindingConstants, GroupsInv, Merge
  PROVE  GroupsInv'
<1>1. PICK left \in active, right \in active :
         /\ left < right /\ IsBest({left, right})
         /\ active' = active \ {right}
         /\ cluster' = [cluster EXCEPT ![left] = @ \cup cluster[right], ![right] = {}]
         /\ support' = MergedSupport(left, right) /\ conflicts' = MergedConflicts(left, right)
  BY DEF Merge, MergedSupport, MergedConflicts
<1> DEFINE A == cluster[left]
           B == cluster[right]
<1>2. /\ phase = "merge" /\ phase' = "merge" /\ Merging /\ Merging' /\ Grouping /\ Grouping'
      /\ UNCHANGED <<selected, near, next, nominated, rejected, supported, open, groups>>
  BY DEF Merge, Merging, Grouping
<1>3. /\ active \subseteq Finding /\ left \in Finding /\ right \in Finding /\ left # right
      /\ supported \subseteq Pair /\ rejected \subseteq Pair
      /\ cluster \in [Finding -> SUBSET Finding]
  BY <1>1 DEF GroupsInv, DeduplicationTypeOK, Finding
<1>4. {left, right} \in Pair /\ support[{left, right}] > 0 /\ {left, right} \notin conflicts
  BY <1>1 DEF IsBest, Mergeable
<1>5. /\ support' \in [Pair -> Nat] /\ conflicts' \subseteq Pair
      /\ \A d \in active \ {left, right} :
           /\ support'[{left, d}] = support[{left, d}] + support[{right, d}]
           /\ {left, d} \in conflicts' <=> {left, d} \in conflicts \/ {right, d} \in conflicts
      /\ \A c, d \in active \ {left, right} : c # d =>
           /\ support'[{c, d}] = support[{c, d}]
           /\ {c, d} \in conflicts' <=> {c, d} \in conflicts
  BY <1>1, <1>3, <1>4, MergedBooks
<1>6. /\ cluster'[left] = A \cup B
      /\ \A c \in active \ {left, right} : cluster'[c] = cluster[c]
      /\ cluster' \in [Finding -> SUBSET Finding]
  BY <1>1, <1>3
<1>7. /\ \A c \in active :
           /\ c \in cluster[c] /\ cluster[c] \cap open = {}
           /\ Connected(cluster[c]) /\ Inside(rejected, cluster[c]) = {}
      /\ \A c, d \in active : c # d => cluster[c] \cap cluster[d] = {}
  BY <1>2 DEF GroupsInv, ClustersAreSound
<1>8. \A c, d \in active : c # d =>
        /\ support[{c, d}] = Cardinality(Between(supported, c, d))
        /\ {c, d} \in conflicts <=> Between(rejected, c, d) # {}
  BY <1>2 DEF GroupsInv, BooksAgree
<1>9. DeduplicationTypeOK'
  <2>1. active' \subseteq Finding
    BY <1>1, <1>3
  <2> QED BY <1>2, <1>5, <1>6, <2>1 DEF GroupsInv, DeduplicationTypeOK
<1>10. Members' = Members /\ Pending' = Pending
  <2>1. Members' = Members
    <3>1. \A c \in active' : cluster'[c] \subseteq Members
      <4> SUFFICES ASSUME NEW c \in active'
                   PROVE  cluster'[c] \subseteq Members
        OBVIOUS
      <4>1. CASE c = left
        BY <1>6, <4>1 DEF Members
      <4>2. CASE c # left
        <5>1. c \in active /\ cluster'[c] = cluster[c]
          BY <1>1, <1>6, <4>2
        <5> QED BY <5>1 DEF Members
      <4> QED BY <4>1, <4>2
    <3>2. \A c \in active : \E d \in active' : cluster[c] \subseteq cluster'[d]
      BY <1>1, <1>3, <1>6
    <3>3. Members' \subseteq Members
      BY <3>1 DEF Members
    <3>4. Members \subseteq Members'
      BY <3>2 DEF Members
    <3> QED BY <3>3, <3>4
  <2> QED BY <1>2, <2>1 DEF Pending
<1>11. PendingIsSound'
  <2>1. /\ \A p \in supported : Separated(p)' = Separated(p)
        /\ Closed(open)' = Closed(open) /\ Closed(Pending)' = Closed(Pending)
    BY <1>2, <1>10 DEF Separated, GroupOf, Closed
  <2> QED BY <1>2, <1>10, <2>1 DEF GroupsInv, PendingIsSound
<1>12. Connected(A \cup B)
  <2>1. Between(supported, left, right) # {}
    <3>1. Cardinality(Between(supported, left, right)) > 0
      BY <1>3, <1>4, <1>8
    <3>2. Cardinality({}) = 0
      BY FS_EmptySet
    <3> QED BY <3>1, <3>2
  <2>2. PICK q \in supported : q \cap A # {} /\ q \cap B # {}
    BY <2>1 DEF Between
  <2>3. A \cap B = {} /\ Connected(A) /\ Connected(B)
    BY <1>3, <1>7
  <2> HIDE DEF A, B
  <2> QED BY <1>3, <2>2, <2>3, UnionConnected
<1>13. Inside(rejected, A \cup B) = {}
  <2> SUFFICES ASSUME NEW r \in rejected, r \subseteq A \cup B
               PROVE  FALSE
    BY DEF Inside
  <2>1. Between(rejected, left, right) = {}
    BY <1>3, <1>4, <1>8
  <2>2. r \cap A = {} \/ r \cap B = {}
    BY <2>1 DEF Between
  <2>3. r \subseteq A \/ r \subseteq B
    BY <2>2
  <2> QED BY <1>7, <2>3 DEF Inside
<1>14. ClustersAreSound'
  <2>1. ASSUME NEW c \in active'
        PROVE  /\ c \in cluster'[c] /\ cluster'[c] \cap open = {}
               /\ Connected(cluster'[c]) /\ Inside(rejected, cluster'[c]) = {}
    <3>1. CASE c = left
      BY <1>6, <1>7, <1>12, <1>13, <3>1
    <3>2. CASE c # left
      BY <1>1, <1>6, <1>7, <3>2
    <3> QED BY <3>1, <3>2
  <2>2. ASSUME NEW c \in active', NEW d \in active', c # d
        PROVE  cluster'[c] \cap cluster'[d] = {}
    <3>1. CASE c = left
      BY <1>1, <1>3, <1>6, <1>7, <2>2, <3>1
    <3>2. CASE d = left
      BY <1>1, <1>3, <1>6, <1>7, <2>2, <3>2
    <3>3. CASE c # left /\ d # left
      BY <1>1, <1>6, <1>7, <2>2, <3>3
    <3> QED BY <3>1, <3>2, <3>3
  <2>3. \A c \in active' : /\ Connected(cluster[c])' <=> Connected(cluster'[c])
                           /\ Inside(rejected, cluster[c])' = Inside(rejected, cluster'[c])
    BY <1>2 DEF Connected, Inside
  <2> QED BY <1>2, <2>1, <2>2, <2>3 DEF ClustersAreSound
<1>15. ASSUME NEW d \in active \ {left, right}
       PROVE  /\ support'[{left, d}] = Cardinality(Between(supported, left, d)')
              /\ {left, d} \in conflicts' <=> Between(rejected, left, d)' # {}
  <2> DEFINE D == cluster[d]
             Q(pairs, X) == Touching(pairs, X, D)
  <2>1. A \cap B = {} /\ A \cap D = {} /\ B \cap D = {}
    BY <1>3, <1>7
  <2>2. /\ Between(supported, left, d)' = Q(supported, A \cup B)
        /\ Between(rejected, left, d)' = Q(rejected, A \cup B)
    BY <1>2, <1>6 DEF Between, Touching
  <2>3. /\ Between(supported, left, d) = Q(supported, A)
        /\ Between(supported, right, d) = Q(supported, B)
        /\ Between(rejected, left, d) = Q(rejected, A)
        /\ Between(rejected, right, d) = Q(rejected, B)
    BY DEF Between, Touching
  <2>4. /\ support[{left, d}] = Cardinality(Q(supported, A))
        /\ support[{right, d}] = Cardinality(Q(supported, B))
        /\ {left, d} \in conflicts <=> Q(rejected, A) # {}
        /\ {right, d} \in conflicts <=> Q(rejected, B) # {}
    BY <1>8, <2>3
  <2>5. Cardinality(Q(supported, A \cup B))
          = Cardinality(Q(supported, A)) + Cardinality(Q(supported, B))
    <3>1. PairsAmong(supported, A, B, D)
      BY <1>3, <2>1 DEF PairsAmong
    <3> HIDE DEF A, B, D, Q
    <3>2. Cardinality(Touching(supported, A \cup B, D))
            = Cardinality(Touching(supported, A, D)) + Cardinality(Touching(supported, B, D))
      BY <3>1, BooksAddUp
    <3> QED BY <3>2 DEF Q
  <2>6. Q(rejected, A \cup B) # {} <=> Q(rejected, A) # {} \/ Q(rejected, B) # {}
    BY DEF Touching
  <2> HIDE DEF Q
  <2> QED BY <1>5, <2>2, <2>4, <2>5, <2>6
<1>16. BooksAgree'
  <2> SUFFICES ASSUME NEW c \in active', NEW d \in active', c # d
               PROVE  /\ support'[{c, d}] = Cardinality(Between(supported, c, d)')
                      /\ {c, d} \in conflicts' <=> Between(rejected, c, d)' # {}
    BY DEF BooksAgree
  <2>1. CASE c = left
    BY <1>1, <1>15, <2>1
  <2>2. CASE d = left
    <3>1. /\ support'[{left, c}] = Cardinality(Between(supported, left, c)')
          /\ {left, c} \in conflicts' <=> Between(rejected, left, c)' # {}
      BY <1>1, <1>15, <2>2
    <3>2. {c, d} = {left, c}
      BY <2>2
    <3>3. /\ Between(supported, c, d)' = Between(supported, left, c)'
          /\ Between(rejected, c, d)' = Between(rejected, left, c)'
      BY <2>2 DEF Between
    <3> QED BY <3>1, <3>2, <3>3
  <2>3. CASE c # left /\ d # left
    <3>1. c \in active \ {left, right} /\ d \in active \ {left, right}
      BY <1>1, <2>3
    <3>2. /\ Between(supported, c, d)' = Between(supported, c, d)
          /\ Between(rejected, c, d)' = Between(rejected, c, d)
      BY <1>2, <1>6, <3>1 DEF Between
    <3> QED BY <1>5, <1>8, <3>1, <3>2
  <2> QED BY <2>1, <2>2, <2>3
<1>17. (GroupsAreConsistent /\ GroupsAreSupported)'
  BY <1>2 DEF GroupsInv, GroupsAreConsistent, GroupsAreSupported, Connected, Inside
<1> QED BY <1>9, <1>11, <1>14, <1>16, <1>17 DEF GroupsInv

\* Clusters that cannot be merged any further have rejected pairs between them, or none.
LEMMA EndMergingKeeps ==
  ASSUME FindingConstants, GroupsInv, EndMerging
  PROVE  GroupsInv'
<1> DEFINE M == {cluster[c] : c \in active}
<1>1. /\ phase = "merge" /\ phase' = "component" /\ Merging /\ ~Merging' /\ Grouping /\ Grouping'
      /\ Mergeable = {} /\ groups' = groups \cup Relevant(M)
      /\ UNCHANGED <<selected, near, next, nominated, rejected, supported, books, open>>
  BY DEF EndMerging, Merging, Grouping
<1>2. /\ active \subseteq Finding /\ supported \subseteq Pair /\ rejected \subseteq Pair
      /\ cluster \in [Finding -> SUBSET Finding] /\ open \subseteq Finding
  BY DEF GroupsInv, DeduplicationTypeOK
<1>3. /\ \A c \in active :
           /\ c \in cluster[c] /\ cluster[c] \cap open = {}
           /\ Connected(cluster[c]) /\ Inside(rejected, cluster[c]) = {}
      /\ \A c, d \in active : c # d => cluster[c] \cap cluster[d] = {}
  BY <1>1 DEF GroupsInv, ClustersAreSound
<1>4. Pending = open \cup UNION M /\ Pending' = open
  BY <1>1 DEF Pending, Members
<1>5. /\ \A g \in groups : g \subseteq Finding /\ g \cap Pending = {}
      /\ Closed(open) /\ Closed(Pending)
      /\ \A p \in supported : p \cap Pending = {} => Separated(p)
  BY <1>1 DEF GroupsInv, PendingIsSound
<1>6. M \in SUBSET SUBSET Finding /\ Apart(M)
  BY <1>2, <1>3 DEF Apart
<1>7. \A c \in M : Inside(rejected, c) = {} /\ Connected(c) /\ \A g \in groups : g \cap c = {}
  BY <1>3, <1>4, <1>5
<1>8. /\ GroupsAreConsistent' /\ GroupsAreSupported'
      /\ \A g \in groups' : g \in groups \/ g \in M
      /\ \A p \in supported : (\A c \in M : p \cap c = {}) /\ Separated(p) => Separated(p)'
      /\ \A p \in supported :
           (\A f, g \in p : \E c, d \in M :
                /\ f \in c /\ g \in d
                /\ c # d => \E r \in rejected : r \cap c # {} /\ r \cap d # {})
           => Separated(p)'
  <2> HIDE DEF M
  <2> QED BY <1>1, <1>6, <1>7, GroupsGrow
<1>9. ASSUME NEW c \in active, NEW d \in active, c # d,
             NEW p \in supported, p \cap cluster[c] # {}, p \cap cluster[d] # {}
      PROVE  \E r \in rejected : r \cap cluster[c] # {} /\ r \cap cluster[d] # {}
  <2>1. /\ support[{c, d}] = Cardinality(Between(supported, c, d))
        /\ {c, d} \in conflicts <=> Between(rejected, c, d) # {}
    BY <1>1, <1>9 DEF GroupsInv, BooksAgree
  <2>2. Between(supported, c, d) \in SUBSET Pair /\ Between(supported, c, d) # {}
    BY <1>2, <1>9 DEF Between
  <2>3. support[{c, d}] > 0
    BY <2>1, <2>2, FinitePairs
  <2>4. {c, d} \in Pair
    BY <1>2, <1>9, PairHas
  <2>5. {c, d} \in conflicts
    BY <1>1, <2>3, <2>4 DEF Mergeable
  <2> QED BY <2>1, <2>5 DEF Between
<1>10. ASSUME NEW p \in supported, p \cap open = {}
       PROVE  Separated(p)'
  <2>1. CASE p \cap UNION M = {}
    BY <1>4, <1>5, <1>8, <1>10, <2>1
  <2>2. CASE p \cap UNION M # {}
    <3>1. p \subseteq UNION M
      BY <1>4, <1>5, <1>10, <2>2 DEF Closed
    <3>2. ASSUME NEW f \in p, NEW g \in p
          PROVE  \E c, d \in M :
                   /\ f \in c /\ g \in d
                   /\ c # d => \E r \in rejected : r \cap c # {} /\ r \cap d # {}
      <4>1. PICK c \in active, d \in active : f \in cluster[c] /\ g \in cluster[d]
        BY <3>1
      <4>2. c # d => \E r \in rejected : r \cap cluster[c] # {} /\ r \cap cluster[d] # {}
        BY <1>9, <4>1
      <4> QED BY <4>1, <4>2
    <3> QED BY <1>8, <3>2
  <2> QED BY <2>1, <2>2
<1>11. PendingIsSound'
  <2>1. \A g \in groups' : g \subseteq Finding /\ g \cap open = {}
    BY <1>3, <1>4, <1>5, <1>6, <1>8
  <2>2. Closed(open)' /\ Closed(Pending)'
    BY <1>1, <1>4, <1>5 DEF Closed
  <2> QED BY <1>1, <1>4, <1>10, <2>1, <2>2 DEF PendingIsSound
<1>12. DeduplicationTypeOK'
  <2>1. groups' \subseteq SUBSET Finding
    BY <1>5, <1>6, <1>8
  <2> QED BY <1>1, <2>1 DEF GroupsInv, DeduplicationTypeOK, books
<1>13. ClustersAreSound' /\ BooksAgree'
  BY <1>1 DEF ClustersAreSound, BooksAgree
<1> QED BY <1>8, <1>11, <1>12, <1>13 DEF GroupsInv

-----------------------------------------------------------------------------
(* The theorems about groups.                                                *)

\* For any number of findings, any neighbours and any decisions: what is still to be grouped
\* is closed under accepted pairs, clusters are apart, and the books agree with them.
THEOREM GroupsInvariant ==
  ASSUME FindingConstants
  PROVE  DeduplicationSpec => []GroupsInv
<1>1. DeduplicationInit => GroupsInv
  BY GroupingStarts
<1>2. GroupsInv /\ [DeduplicationNext]_deduplicationVars => GroupsInv'
  BY DecidingKeeps, EndReviewKeeps, NextComponentKeeps, EndComponentsKeeps, MergeKeeps,
     EndMergingKeeps DEF DeduplicationNext
<1> QED BY <1>1, <1>2, PTL DEF DeduplicationSpec

\* Pairs, clusters, counts and groups keep to the values they declare.
THEOREM GroupsTypeCorrect ==
  ASSUME FindingConstants
  PROVE  DeduplicationSpec => []DeduplicationTypeOK
<1>1. GroupsInv => DeduplicationTypeOK
  BY DEF GroupsInv
<1> QED BY <1>1, GroupsInvariant, PTL

\* The groups respect every decision: none holds a rejected pair or overlaps another, each
\* hangs together by accepted pairs, and an accepted pair is separated only by a rejected one.
THEOREM GroupsRespectDecisions ==
  ASSUME FindingConstants
  PROVE  DeduplicationSpec => []GroupsAreSound
<1>1. GroupsInv => NothingIsMissed
  <2> SUFFICES ASSUME GroupsInv, phase = "done", NEW p \in supported
               PROVE  Separated(p)
    BY DEF NothingIsMissed
  <2>1. Pending = {}
    BY DEF GroupsInv, PendingIsSound, Pending, Merging
  <2> QED BY <2>1 DEF GroupsInv, PendingIsSound, Grouping
<1>2. GroupsInv => GroupsAreSound
  BY <1>1 DEF GroupsInv, GroupsAreSound
<1> QED BY <1>2, GroupsInvariant, PTL

-----------------------------------------------------------------------------
(* The findings workflow.                                                    *)

\* The steps of a command behind the binding, and those behind the completed publication.
Bound == {"bound", "publish", "post", "posted", "dedupe", "review", "check", "write", "written"}
Deduping == {"dedupe", "review", "check", "write", "written"}

WorkflowConstants ==
    /\ MaxFaults \in Nat /\ MaxSource \in Nat
    /\ Unbound \notin Scan /\ Unbound \notin Destination

\* Which scan the row names.  While it is bound to none, the workflow has run no scan; and
\* the only scan that it ever completed is the one it is bound to.
RowInv ==
    /\ wf.scan = Unbound => \A s \in Scan \ {1} : scans[s] = "none" /\ s \notin sealed
    /\ \A s \in Scan \ {1} : scans[s] = "complete" => s = wf.scan
    /\ Completed("scan") => wf.scan # Unbound

\* What the service was told, of which destination; nothing is told before the scan is done.
ServiceInv ==
    /\ service # {} => Completed("scan") /\ wf.destination # Unbound
    /\ \A told \in service : told = <<wf.destination, wf.scan>>
    /\ Completed("publish") => <<wf.destination, wf.scan>> \in service

\* Groups are written once they are prepared, and prepared once.
WrittenInv ==
    /\ written \subseteq {wf.result}
    /\ written # {} => Completed("publish") /\ (wf.pending \/ Completed("dedupe"))
    /\ Completed("dedupe") => ~wf.pending
    /\ Completed("dedupe") /\ wf.result # {} => written = {wf.result}

\* How far the command is.
CommandInv ==
    /\ pc # "idle" => command # "none"
    /\ pc \in {"reuse", "begin", "register"} => scan = wf.scan
    /\ pc = "reuse" => scan \in Scan /\ scans[scan] = "complete"
    /\ pc \in {"scanning", "completing", "receipt"} => scan \in Scan \ {1} /\ scan = wf.scan
    /\ pc \in Bound => scan \in Scan /\ scan = wf.scan /\ wf.destination # Unbound
    /\ pc \in Bound \ {"bound"} => Completed("scan")
    /\ pc \in Bound /\ command = "dedupe" => ~Completed("dedupe")
    /\ pc = "posted" => <<wf.destination, scan>> \in service
    /\ pc \in Deduping => Completed("publish") /\ ~Completed("dedupe")
    /\ pc \in {"review", "check"} => ~wf.pending
    /\ pc \in {"write", "written"} => wf.pending
    /\ pc = "written" /\ wf.result # {} => written = {wf.result}

\* The reviews of this command are saved ones; the one at hand is of a pair that has none of
\* this source, and was read between the begin and now.
ReviewInv ==
    /\ decisions \subseteq saved
    /\ \A r \in saved : r.read = r.source
    /\ \A r \in saved, q \in saved : r.pair = q.pair /\ r.source = q.source => r = q
    /\ begun <= source
    /\ pc = "check" =>
          /\ \A r \in review : r.source = begun /\ begun <= r.read /\ r.read <= source
          /\ \A r \in review, q \in review : r = q
          /\ \A r \in review, q \in saved : ~(q.pair = r.pair /\ q.source = begun)

WorkflowInv == WorkflowTypeOK /\ RowInv /\ ServiceInv /\ WrittenInv /\ CommandInv /\ ReviewInv

-----------------------------------------------------------------------------
(* The scan.                                                                *)

LEMMA ScanCommandKeeps ==
  ASSUME WorkflowConstants, WorkflowInv, ScanCommand
  PROVE  WorkflowInv'
<1>. USE DEF WorkflowInv, Completed, Goto, store, process, Reviewing
<1>1. WorkflowTypeOK'
  BY DEF ScanCommand, WorkflowTypeOK, WorkflowConstants, Stage, Status, Review, Scan
<1>2. RowInv'
  BY DEF ScanCommand, RowInv
<1>3. ServiceInv'
  BY DEF ScanCommand, ServiceInv
<1>4. WrittenInv'
  BY DEF ScanCommand, WrittenInv
<1>5. CommandInv'
  BY DEF ScanCommand, CommandInv, Bound, Deduping, WorkflowTypeOK, Stage, Scan, Review,
         WorkflowConstants
<1>6. ReviewInv'
  BY DEF ScanCommand, ReviewInv
<1>. QED BY <1>1, <1>2, <1>3, <1>4, <1>5, <1>6

LEMMA ReuseKeeps ==
  ASSUME WorkflowConstants, WorkflowInv, Reuse
  PROVE  WorkflowInv'
<1>. USE DEF WorkflowInv, Completed, Goto, store, process, Reviewing
<1>1. WorkflowTypeOK'
  BY DEF Reuse, WorkflowTypeOK, Mark, WorkflowConstants, Stage, Status, Review, Scan
<1>2. RowInv'
  BY DEF Reuse, RowInv, Mark, CommandInv, Bound, Deduping, WorkflowTypeOK, Stage, Scan, Review,
         WorkflowConstants
<1>3. ServiceInv'
  BY DEF Reuse, ServiceInv, Mark
<1>4. WrittenInv'
  BY DEF Reuse, WrittenInv, Mark
<1>5. CommandInv'
  BY DEF Reuse, CommandInv, Mark, Bound, Deduping
<1>6. ReviewInv'
  BY DEF Reuse, ReviewInv, Mark
<1>. QED BY <1>1, <1>2, <1>3, <1>4, <1>5, <1>6

LEMMA BeginScanKeeps ==
  ASSUME WorkflowConstants, WorkflowInv, BeginScan
  PROVE  WorkflowInv'
<1>. USE DEF WorkflowInv, Completed, Goto, store, process, Reviewing
<1>1. WorkflowTypeOK'
  BY DEF BeginScan, WorkflowTypeOK, Mark, WorkflowConstants, Stage, Status, Review, Scan
<1>2. RowInv'
  BY DEF BeginScan, RowInv, Mark
<1>3. ServiceInv'
  BY DEF BeginScan, ServiceInv, Mark
<1>4. WrittenInv'
  BY DEF BeginScan, WrittenInv, Mark
<1>5. CommandInv'
  BY DEF BeginScan, CommandInv, Mark, Bound, Deduping
<1>6. ReviewInv'
  BY DEF BeginScan, ReviewInv, Mark
<1>. QED BY <1>1, <1>2, <1>3, <1>4, <1>5, <1>6

LEMMA RegisterScanKeeps ==
  ASSUME WorkflowConstants, WorkflowInv, RegisterScan
  PROVE  WorkflowInv'
<1>. USE DEF WorkflowInv, Completed, Goto, store, process, Reviewing
<1>1. WorkflowTypeOK'
  BY DEF RegisterScan, WorkflowTypeOK, WorkflowConstants, Stage, Status, Review, Scan
<1>2. RowInv'
  BY DEF RegisterScan, RowInv, CommandInv, Bound, Deduping, WorkflowTypeOK, Stage, Scan, Review,
         WorkflowConstants
<1>3. ServiceInv'
  BY DEF RegisterScan, ServiceInv
<1>4. WrittenInv'
  BY DEF RegisterScan, WrittenInv
<1>5. CommandInv'
  BY DEF RegisterScan, CommandInv, Bound, Deduping
<1>6. ReviewInv'
  BY DEF RegisterScan, ReviewInv
<1>. QED BY <1>1, <1>2, <1>3, <1>4, <1>5, <1>6

LEMMA SealKeeps ==
  ASSUME WorkflowConstants, WorkflowInv, Seal
  PROVE  WorkflowInv'
<1>. USE DEF WorkflowInv, Completed, Goto, store, process, Reviewing
<1>1. WorkflowTypeOK'
  BY DEF Seal, WorkflowTypeOK, WorkflowConstants, Stage, Status, Review, Scan, CommandInv,
         Bound, Deduping
<1>2. RowInv'
  BY DEF Seal, RowInv, CommandInv, Bound, Deduping, WorkflowTypeOK, Stage, Scan, Review,
         WorkflowConstants
<1>3. ServiceInv'
  BY DEF Seal, ServiceInv
<1>4. WrittenInv'
  BY DEF Seal, WrittenInv
<1>5. CommandInv'
  BY DEF Seal, CommandInv, Bound, Deduping
<1>6. ReviewInv'
  BY DEF Seal, ReviewInv
<1>. QED BY <1>1, <1>2, <1>3, <1>4, <1>5, <1>6

LEMMA CompleteScanKeeps ==
  ASSUME WorkflowConstants, WorkflowInv, CompleteScan
  PROVE  WorkflowInv'
<1>. USE DEF WorkflowInv, Completed, Goto, store, process, Reviewing
<1>1. WorkflowTypeOK'
  BY DEF CompleteScan, WorkflowTypeOK, WorkflowConstants, Stage, Status, Review, Scan
<1>2. RowInv'
  BY DEF CompleteScan, RowInv, CommandInv, Bound, Deduping, WorkflowTypeOK, Stage, Scan, Review,
         WorkflowConstants
<1>3. ServiceInv'
  BY DEF CompleteScan, ServiceInv
<1>4. WrittenInv'
  BY DEF CompleteScan, WrittenInv
<1>5. CommandInv'
  BY DEF CompleteScan, CommandInv, Bound, Deduping
<1>6. ReviewInv'
  BY DEF CompleteScan, ReviewInv
<1>. QED BY <1>1, <1>2, <1>3, <1>4, <1>5, <1>6

LEMMA SaveScanKeeps ==
  ASSUME WorkflowConstants, WorkflowInv, SaveScan
  PROVE  WorkflowInv'
<1>. USE DEF WorkflowInv, Completed, Goto, store, process, Reviewing
<1>1. WorkflowTypeOK'
  BY DEF SaveScan, WorkflowTypeOK, Mark, WorkflowConstants, Stage, Status, Review, Scan
<1>2. RowInv'
  BY DEF SaveScan, RowInv, Mark, CommandInv, Bound, Deduping, WorkflowTypeOK, Stage, Scan,
         Review, WorkflowConstants
<1>3. ServiceInv'
  BY DEF SaveScan, ServiceInv, Mark
<1>4. WrittenInv'
  BY DEF SaveScan, WrittenInv, Mark
<1>5. CommandInv'
  BY DEF SaveScan, CommandInv, Mark, Bound, Deduping
<1>6. ReviewInv'
  BY DEF SaveScan, ReviewInv, Mark
<1>. QED BY <1>1, <1>2, <1>3, <1>4, <1>5, <1>6

-----------------------------------------------------------------------------
(* The publication.                                                          *)

LEMMA PublishCommandKeeps ==
  ASSUME WorkflowConstants, WorkflowInv,
         NEW s \in Scan, NEW d \in Destination, PublishCommand(s, d)
  PROVE  WorkflowInv'
<1>. USE DEF WorkflowInv, Completed, Goto, store, process, Reviewing
<1>1. WorkflowTypeOK'
  BY DEF PublishCommand, WorkflowTypeOK, MayBind, Bind, WorkflowConstants, Stage, Status,
         Review, Scan
<1>2. RowInv'
  BY DEF PublishCommand, RowInv, MayBind, Bind
<1>3. ServiceInv'
  BY DEF PublishCommand, ServiceInv, MayBind, Bind, CommandInv, Bound, Deduping, WorkflowTypeOK,
         Stage, Scan, Review, WorkflowConstants
<1>4. WrittenInv'
  BY DEF PublishCommand, WrittenInv, MayBind, Bind
<1>5. CommandInv'
  BY DEF PublishCommand, CommandInv, MayBind, Bind, Bound, Deduping, WorkflowTypeOK, Stage,
         Scan, Review, WorkflowConstants
<1>6. ReviewInv'
  BY DEF PublishCommand, ReviewInv, MayBind, Bind
<1>. QED BY <1>1, <1>2, <1>3, <1>4, <1>5, <1>6

LEMMA CompleteScanStageKeeps ==
  ASSUME WorkflowConstants, WorkflowInv, CompleteScanStage
  PROVE  WorkflowInv'
<1>. USE DEF WorkflowInv, Completed, Goto, store, process, Reviewing
<1>1. WorkflowTypeOK'
  BY DEF CompleteScanStage, WorkflowTypeOK, Mark, WorkflowConstants, Stage, Status, Review, Scan
<1>2. RowInv'
  BY DEF CompleteScanStage, RowInv, Mark, CommandInv, Bound, Deduping, WorkflowTypeOK, Stage,
         Scan, Review, WorkflowConstants
<1>3. ServiceInv'
  BY DEF CompleteScanStage, ServiceInv, Mark
<1>4. WrittenInv'
  BY DEF CompleteScanStage, WrittenInv, Mark
<1>5. CommandInv'
  BY DEF CompleteScanStage, CommandInv, Mark, Bound, Deduping, WorkflowTypeOK, Stage, Scan,
         Review, WorkflowConstants
<1>6. ReviewInv'
  BY DEF CompleteScanStage, ReviewInv, Mark
<1>. QED BY <1>1, <1>2, <1>3, <1>4, <1>5, <1>6

LEMMA BeginPublishKeeps ==
  ASSUME WorkflowConstants, WorkflowInv, BeginPublish
  PROVE  WorkflowInv'
<1>. USE DEF WorkflowInv, Completed, Goto, store, process, Reviewing
<1>1. WorkflowTypeOK'
  BY DEF BeginPublish, WorkflowTypeOK, Mark, AfterPublish, WorkflowConstants, Stage, Status,
         Review, Scan
<1>2. RowInv'
  BY DEF BeginPublish, RowInv, Mark, AfterPublish
<1>3. ServiceInv'
  BY DEF BeginPublish, ServiceInv, Mark, AfterPublish
<1>4. WrittenInv'
  BY DEF BeginPublish, WrittenInv, Mark, AfterPublish
<1>5. CommandInv'
  BY DEF BeginPublish, CommandInv, Mark, AfterPublish, Bound, Deduping
<1>6. ReviewInv'
  BY DEF BeginPublish, ReviewInv, Mark, AfterPublish
<1>. QED BY <1>1, <1>2, <1>3, <1>4, <1>5, <1>6

LEMMA PostKeeps ==
  ASSUME WorkflowConstants, WorkflowInv, Post
  PROVE  WorkflowInv'
<1>. USE DEF WorkflowInv, Completed, Goto, store, process, Reviewing
<1>1. WorkflowTypeOK'
  BY DEF Post, WorkflowTypeOK, WorkflowConstants, Stage, Status, Review, Scan, CommandInv,
         Bound, Deduping
<1>2. RowInv'
  BY DEF Post, RowInv
<1>3. ServiceInv'
  BY DEF Post, ServiceInv, CommandInv, Bound, Deduping
<1>4. WrittenInv'
  BY DEF Post, WrittenInv
<1>5. CommandInv'
  BY DEF Post, CommandInv, Bound, Deduping
<1>6. ReviewInv'
  BY DEF Post, ReviewInv
<1>. QED BY <1>1, <1>2, <1>3, <1>4, <1>5, <1>6

LEMMA CompletePublishKeeps ==
  ASSUME WorkflowConstants, WorkflowInv, CompletePublish
  PROVE  WorkflowInv'
<1>. USE DEF WorkflowInv, Completed, Goto, store, process, Reviewing
<1>1. WorkflowTypeOK'
  BY DEF CompletePublish, WorkflowTypeOK, Mark, AfterPublish, WorkflowConstants, Stage, Status,
         Review, Scan
<1>2. RowInv'
  BY DEF CompletePublish, RowInv, Mark, AfterPublish
<1>3. ServiceInv'
  BY DEF CompletePublish, ServiceInv, Mark, AfterPublish, CommandInv, Bound, Deduping
<1>4. WrittenInv'
  BY DEF CompletePublish, WrittenInv, Mark, AfterPublish
<1>5. CommandInv'
  BY DEF CompletePublish, CommandInv, Mark, AfterPublish, Bound, Deduping, WorkflowTypeOK,
         Stage, Scan, Review, WorkflowConstants
<1>6. ReviewInv'
  BY DEF CompletePublish, ReviewInv, Mark, AfterPublish
<1>. QED BY <1>1, <1>2, <1>3, <1>4, <1>5, <1>6

-----------------------------------------------------------------------------
(* The groups.                                                               *)

LEMMA DedupeCommandKeeps ==
  ASSUME WorkflowConstants, WorkflowInv,
         NEW s \in Scan, NEW d \in Destination, DedupeCommand(s, d)
  PROVE  WorkflowInv'
<1>. USE DEF WorkflowInv, Completed, Goto, store, process, Reviewing
<1>1. WorkflowTypeOK'
  BY DEF DedupeCommand, WorkflowTypeOK, MayBind, Bind, WorkflowConstants, Stage, Status, Review,
         Scan
<1>2. RowInv'
  BY DEF DedupeCommand, RowInv, MayBind, Bind
<1>3. ServiceInv'
  BY DEF DedupeCommand, ServiceInv, MayBind, Bind, CommandInv, Bound, Deduping, WorkflowTypeOK,
         Stage, Scan, Review, WorkflowConstants
<1>4. WrittenInv'
  BY DEF DedupeCommand, WrittenInv, MayBind, Bind
<1>5. CommandInv'
  BY DEF DedupeCommand, CommandInv, MayBind, Bind, Bound, Deduping, WorkflowTypeOK, Stage, Scan,
         Review, WorkflowConstants
<1>6. ReviewInv'
  BY DEF DedupeCommand, ReviewInv, MayBind, Bind
<1>. QED BY <1>1, <1>2, <1>3, <1>4, <1>5, <1>6

LEMMA BeginDedupeKeeps ==
  ASSUME WorkflowConstants, WorkflowInv, BeginDedupe
  PROVE  WorkflowInv'
<1>. USE DEF WorkflowInv, Completed, Goto, store, process, Reviewing
<1>1. WorkflowTypeOK'
  BY DEF BeginDedupe, WorkflowTypeOK, Mark, HasPending, WorkflowConstants, Stage, Status,
         Review, Scan
<1>2. RowInv'
  BY DEF BeginDedupe, RowInv, Mark, HasPending
<1>3. ServiceInv'
  BY DEF BeginDedupe, ServiceInv, Mark, HasPending
<1>4. WrittenInv'
  BY DEF BeginDedupe, WrittenInv, Mark, HasPending
<1>5. CommandInv'
  BY DEF BeginDedupe, CommandInv, Mark, HasPending, Bound, Deduping
<1>6. ReviewInv'
  BY DEF BeginDedupe, ReviewInv, Mark, HasPending, CommandInv, Bound, Deduping, WorkflowTypeOK,
         Stage, Scan, Review, WorkflowConstants
<1>. QED BY <1>1, <1>2, <1>3, <1>4, <1>5, <1>6

LEMMA ReviewNextKeeps ==
  ASSUME WorkflowConstants, WorkflowInv, ReviewNext
  PROVE  WorkflowInv'
<1>. USE DEF WorkflowInv, Completed, Goto, store, process, Reviewing
<1>1. WorkflowTypeOK'
  BY DEF ReviewNext, WorkflowTypeOK, Undecided, WorkflowConstants, Stage, Status, Review, Scan
<1>2. RowInv'
  BY DEF ReviewNext, RowInv, Undecided
<1>3. ServiceInv'
  BY DEF ReviewNext, ServiceInv, Undecided
<1>4. WrittenInv'
  BY DEF ReviewNext, WrittenInv, Undecided
<1>5. CommandInv'
  BY DEF ReviewNext, CommandInv, Undecided, Bound, Deduping
<1>6. ReviewInv'
  BY DEF ReviewNext, ReviewInv, Undecided, CommandInv, Bound, Deduping, WorkflowTypeOK, Stage,
         Scan, Review, WorkflowConstants
<1>. QED BY <1>1, <1>2, <1>3, <1>4, <1>5, <1>6

LEMMA SaveReviewKeeps ==
  ASSUME WorkflowConstants, WorkflowInv, SaveReview
  PROVE  WorkflowInv'
<1>. USE DEF WorkflowInv, Completed, Goto, store, process, Reviewing
<1>1. WorkflowTypeOK'
  BY DEF SaveReview, WorkflowTypeOK, SourceUnchanged, WorkflowConstants, Stage, Status, Review,
         Scan
<1>2. RowInv'
  BY DEF SaveReview, RowInv, SourceUnchanged
<1>3. ServiceInv'
  BY DEF SaveReview, ServiceInv, SourceUnchanged
<1>4. WrittenInv'
  BY DEF SaveReview, WrittenInv, SourceUnchanged
<1>5. CommandInv'
  BY DEF SaveReview, CommandInv, SourceUnchanged, Bound, Deduping
<1>6. ReviewInv'
  BY DEF SaveReview, ReviewInv, SourceUnchanged, CommandInv, Bound, Deduping, WorkflowTypeOK,
         Stage, Scan, Review, WorkflowConstants
<1>. QED BY <1>1, <1>2, <1>3, <1>4, <1>5, <1>6

LEMMA PrepareDedupeKeeps ==
  ASSUME WorkflowConstants, WorkflowInv, PrepareDedupe
  PROVE  WorkflowInv'
<1>. USE DEF WorkflowInv, Completed, Goto, store, process, Reviewing
<1>1. WorkflowTypeOK'
  <2>. DEFINE result == {d.pair : d \in {e \in decisions : e.same}}
  <2>1. result \subseteq FindingPair
    BY DEF WorkflowTypeOK, Review
  <2>2. wf' = [wf EXCEPT !.result = result, !.pending = TRUE]
    BY DEF PrepareDedupe
  <2>. HIDE DEF result
  <2>3. wf' \in [scan : Scan \cup {Unbound}, destination : Destination \cup {Unbound},
                 stage : [Stage -> Status], result : SUBSET FindingPair, pending : BOOLEAN]
    BY <2>1, <2>2 DEF WorkflowTypeOK
  <2>. QED BY <2>3 DEF PrepareDedupe, WorkflowTypeOK
<1>2. RowInv'
  BY DEF PrepareDedupe, RowInv, Undecided, SourceUnchanged
<1>3. ServiceInv'
  BY DEF PrepareDedupe, ServiceInv, Undecided, SourceUnchanged
<1>4. WrittenInv'
  BY DEF PrepareDedupe, WrittenInv, Undecided, SourceUnchanged, CommandInv, Bound, Deduping
<1>5. CommandInv'
  BY DEF PrepareDedupe, CommandInv, Undecided, SourceUnchanged, Bound, Deduping
<1>6. ReviewInv'
  BY DEF PrepareDedupe, ReviewInv, Undecided, SourceUnchanged
<1>. QED BY <1>1, <1>2, <1>3, <1>4, <1>5, <1>6

LEMMA WriteGroupsKeeps ==
  ASSUME WorkflowConstants, WorkflowInv, WriteGroups
  PROVE  WorkflowInv'
<1>. USE DEF WorkflowInv, Completed, Goto, store, process, Reviewing
<1>1. WorkflowTypeOK'
  BY DEF WriteGroups, WorkflowTypeOK, WorkflowConstants, Stage, Status, Review, Scan
<1>2. RowInv'
  BY DEF WriteGroups, RowInv
<1>3. ServiceInv'
  BY DEF WriteGroups, ServiceInv
<1>4. WrittenInv'
  BY DEF WriteGroups, WrittenInv, CommandInv, Bound, Deduping
<1>5. CommandInv'
  BY DEF WriteGroups, CommandInv, Bound, Deduping, WorkflowTypeOK, Stage, Scan, Review,
         WorkflowConstants, RowInv, ServiceInv, WrittenInv, Status
<1>6. ReviewInv'
  BY DEF WriteGroups, ReviewInv
<1>. QED BY <1>1, <1>2, <1>3, <1>4, <1>5, <1>6

LEMMA CompleteDedupeKeeps ==
  ASSUME WorkflowConstants, WorkflowInv, CompleteDedupe
  PROVE  WorkflowInv'
<1>. USE DEF WorkflowInv, Completed, Goto, store, process, Reviewing
<1>1. WorkflowTypeOK'
  BY DEF CompleteDedupe, WorkflowTypeOK, WorkflowConstants, Stage, Status, Review, Scan
<1>2. RowInv'
  BY DEF CompleteDedupe, RowInv
<1>3. ServiceInv'
  BY DEF CompleteDedupe, ServiceInv
<1>4. WrittenInv'
  BY DEF CompleteDedupe, WrittenInv, CommandInv, Bound, Deduping, WorkflowTypeOK, Stage, Scan,
         Review, WorkflowConstants
<1>5. CommandInv'
  BY DEF CompleteDedupe, CommandInv, Bound, Deduping
<1>6. ReviewInv'
  BY DEF CompleteDedupe, ReviewInv
<1>. QED BY <1>1, <1>2, <1>3, <1>4, <1>5, <1>6

-----------------------------------------------------------------------------
(* What goes wrong.                                                          *)

LEMMA FailKeeps ==
  ASSUME WorkflowConstants, WorkflowInv, Fail
  PROVE  WorkflowInv'
<1>. USE DEF WorkflowInv, Completed, Goto, store, process, Reviewing
<1>1. WorkflowTypeOK'
  <2>1. PICK stage \in Stage : pc \in StepsOf[stage] /\ (Mark(stage, "failed") \/ UNCHANGED wf)
    BY DEF Fail
  <2>2. wf' \in [scan : Scan \cup {Unbound}, destination : Destination \cup {Unbound},
                 stage : [Stage -> Status], result : SUBSET FindingPair, pending : BOOLEAN]
    BY <2>1 DEF WorkflowTypeOK, Mark, Stage, Status
  <2>3. scans' \in [Scan -> {"none", "running", "complete", "failed"}]
    BY DEF Fail, WorkflowTypeOK
  <2>. QED BY <2>2, <2>3 DEF Fail, WorkflowTypeOK, WorkflowConstants
<1>2. RowInv'
  BY DEF Fail, RowInv, Mark, StepsOf, CommandInv, Bound, Deduping, WorkflowTypeOK, Stage, Scan,
         Review, WorkflowConstants
<1>3. ServiceInv'
  <2>1. PICK stage \in Stage : pc \in StepsOf[stage] /\ (Mark(stage, "failed") \/ UNCHANGED wf)
    BY DEF Fail
  <2>2. /\ wf'.scan = wf.scan /\ wf'.destination = wf.destination
        /\ \A s \in Stage : Completed(s)' <=> Completed(s)
    BY <2>1 DEF WorkflowTypeOK, Mark
  <2>. QED BY <2>2 DEF Fail, ServiceInv, Stage
<1>4. WrittenInv'
  <2>1. PICK stage \in Stage : pc \in StepsOf[stage] /\ (Mark(stage, "failed") \/ UNCHANGED wf)
    BY DEF Fail
  <2>2. /\ wf'.result = wf.result /\ wf'.pending = wf.pending
        /\ \A s \in Stage \ {stage} : Completed(s)' <=> Completed(s)
    BY <2>1 DEF WorkflowTypeOK, Mark
  <2>3. Completed(stage)' <=> Completed(stage)
    BY <2>1 DEF WorkflowTypeOK, Mark, StepsOf, CommandInv, Bound, Deduping, Stage
  <2>4. /\ Completed("publish")' <=> Completed("publish")
        /\ Completed("dedupe")' <=> Completed("dedupe")
    BY <2>2, <2>3 DEF Stage
  <2>. QED BY <2>2, <2>4 DEF Fail, WrittenInv
<1>5. CommandInv'
  BY DEF Fail, CommandInv, Mark, StepsOf, Bound, Deduping
<1>6. ReviewInv'
  BY DEF Fail, ReviewInv, Mark, StepsOf
<1>. QED BY <1>1, <1>2, <1>3, <1>4, <1>5, <1>6

LEMMA SourceDiffersKeeps ==
  ASSUME WorkflowConstants, WorkflowInv, SourceDiffers
  PROVE  WorkflowInv'
<1>. USE DEF WorkflowInv, Completed, Goto, store, process, Reviewing
<1>1. WorkflowTypeOK'
  BY DEF SourceDiffers, WorkflowTypeOK, Undecided, SourceUnchanged, Mark, WorkflowConstants,
         Stage, Status, Review, Scan
<1>2. RowInv'
  BY DEF SourceDiffers, RowInv, Undecided, SourceUnchanged, Mark
<1>3. ServiceInv'
  BY DEF SourceDiffers, ServiceInv, Undecided, SourceUnchanged, Mark
<1>4. WrittenInv'
  BY DEF SourceDiffers, WrittenInv, Undecided, SourceUnchanged, Mark
<1>5. CommandInv'
  BY DEF SourceDiffers, CommandInv, Undecided, SourceUnchanged, Mark, Bound, Deduping
<1>6. ReviewInv'
  BY DEF SourceDiffers, ReviewInv, Undecided, SourceUnchanged, Mark
<1>. QED BY <1>1, <1>2, <1>3, <1>4, <1>5, <1>6

LEMMA DieKeeps ==
  ASSUME WorkflowConstants, WorkflowInv, Die
  PROVE  WorkflowInv'
<1>. USE DEF WorkflowInv, Completed, Goto, store, process, Reviewing
<1>1. WorkflowTypeOK'
  BY DEF Die, WorkflowTypeOK, WorkflowConstants, Stage, Status, Review, Scan
<1>2. RowInv'
  BY DEF Die, RowInv
<1>3. ServiceInv'
  BY DEF Die, ServiceInv
<1>4. WrittenInv'
  BY DEF Die, WrittenInv
<1>5. CommandInv'
  BY DEF Die, CommandInv, Bound, Deduping
<1>6. ReviewInv'
  BY DEF Die, ReviewInv
<1>. QED BY <1>1, <1>2, <1>3, <1>4, <1>5, <1>6

LEMMA ChangeSourceKeeps ==
  ASSUME WorkflowConstants, WorkflowInv, ChangeSource
  PROVE  WorkflowInv'
<1>. USE DEF WorkflowInv, Completed, Goto, store, process, Reviewing
<1>1. WorkflowTypeOK'
  BY DEF ChangeSource, WorkflowTypeOK, WorkflowConstants, Stage, Status, Review, Scan
<1>2. RowInv'
  BY DEF ChangeSource, RowInv
<1>3. ServiceInv'
  BY DEF ChangeSource, ServiceInv
<1>4. WrittenInv'
  BY DEF ChangeSource, WrittenInv
<1>5. CommandInv'
  BY DEF ChangeSource, CommandInv, Bound, Deduping
<1>6. ReviewInv'
  BY DEF ChangeSource, ReviewInv, CommandInv, Bound, Deduping, WorkflowTypeOK, Stage, Scan,
         Review, WorkflowConstants
<1>. QED BY <1>1, <1>2, <1>3, <1>4, <1>5, <1>6
-----------------------------------------------------------------------------
LEMMA WorkflowStart == WorkflowConstants /\ WorkflowInit => WorkflowInv
<1>. SUFFICES ASSUME WorkflowConstants, WorkflowInit PROVE WorkflowInv
  OBVIOUS
<1>. PICK earlier \in BOOLEAN :
        /\ scans = [s \in Scan |-> IF earlier /\ s = 1 THEN "complete" ELSE "none"]
        /\ sealed = (IF earlier THEN {1} ELSE {})
  BY DEF WorkflowInit
<1>1. 1 \in Scan
  BY DEF WorkflowConstants, Scan
<1>2. WorkflowTypeOK
  BY <1>1 DEF WorkflowInit, WorkflowTypeOK, WorkflowConstants, Stage, Status
<1>3. RowInv /\ ServiceInv /\ WrittenInv
  BY DEF WorkflowInit, RowInv, ServiceInv, WrittenInv, Completed, Stage
<1>4. CommandInv /\ ReviewInv
  BY DEF WorkflowInit, CommandInv, ReviewInv, Bound, Deduping
<1>. QED BY <1>2, <1>3, <1>4 DEF WorkflowInv

LEMMA WorkflowKeeps ==
  WorkflowConstants /\ WorkflowInv /\ [WorkflowNext]_workflowVars => WorkflowInv'
<1>. SUFFICES ASSUME WorkflowConstants, WorkflowInv, [WorkflowNext]_workflowVars
              PROVE  WorkflowInv'
  OBVIOUS
<1>1. CASE ScanCommand
  BY <1>1, ScanCommandKeeps
<1>2. CASE Publishing
  BY <1>2, PublishCommandKeeps DEF Publishing
<1>3. CASE Deduplicating
  BY <1>3, DedupeCommandKeeps DEF Deduplicating
<1>4. CASE WorkflowStep
  BY <1>4, ReuseKeeps, BeginScanKeeps, RegisterScanKeeps, SealKeeps, CompleteScanKeeps,
     SaveScanKeeps, CompleteScanStageKeeps, BeginPublishKeeps, PostKeeps, CompletePublishKeeps,
     BeginDedupeKeeps, ReviewNextKeeps, SaveReviewKeeps, PrepareDedupeKeeps, WriteGroupsKeeps,
     CompleteDedupeKeeps, SourceDiffersKeeps
     DEF WorkflowStep
<1>5. CASE Fail
  BY <1>5, FailKeeps
<1>6. CASE Die
  BY <1>6, DieKeeps
<1>7. CASE ChangeSource
  BY <1>7, ChangeSourceKeeps
<1>8. CASE UNCHANGED workflowVars
  BY <1>8 DEF workflowVars, store, process, WorkflowInv, WorkflowTypeOK, RowInv, ServiceInv,
     WrittenInv, CommandInv, ReviewInv, Completed
<1>. QED BY <1>1, <1>2, <1>3, <1>4, <1>5, <1>6, <1>7, <1>8 DEF WorkflowNext

\* The inductive invariant of a findings workflow.
THEOREM WorkflowInvariant ==
  ASSUME WorkflowConstants
  PROVE  WorkflowSpec => []WorkflowInv
<1>1. WorkflowInit => WorkflowInv
  BY WorkflowStart
<1>2. WorkflowInv /\ [WorkflowNext]_workflowVars => WorkflowInv'
  BY WorkflowKeeps
<1>. QED BY <1>1, <1>2, PTL DEF WorkflowSpec

\* A set within a set of one element has at most one.
LEMMA AtMostOne ==
  ASSUME NEW e, NEW S \in SUBSET {e}
  PROVE  Cardinality(S) <= 1
<1>. IsFiniteSet({e}) /\ Cardinality({e}) = 1
  BY FS_Singleton
<1>. QED BY FS_Subset

\* Whatever fails, dies or changes between two writes, and in whatever order its commands are
\* given and repeated, a workflow completes one scan, publishes that scan to one destination
\* before it writes groups there, writes the groups of one search, and groups by reviews of
\* the source that they were made of: for any number of pairs, failures and changes.
THEOREM WorkflowsAreSound ==
  ASSUME WorkflowConstants
  PROVE  WorkflowSpec => []WorkflowIsSound
<1>1. WorkflowInv => WorkflowIsSound
  <2>. SUFFICES ASSUME WorkflowInv PROVE WorkflowIsSound
    OBVIOUS
  <2>1. GroupsAreWrittenOnce
    BY AtMostOne DEF WorkflowInv, WrittenInv, GroupsAreWrittenOnce
  <2>2. StagesFollowEachOther
    BY DEF WorkflowInv, WrittenInv, ServiceInv, StagesFollowEachOther
  <2>3. OneScanCompletes
    <3>1. {s \in Scan \ {1} : scans[s] = "complete"} \subseteq {wf.scan}
      BY DEF WorkflowInv, RowInv
    <3>. QED BY <3>1, AtMostOne DEF OneScanCompletes
  <2>4. ReviewsAreOfTheirSource
    BY DEF WorkflowInv, ReviewInv, ReviewsAreOfTheirSource
  <2>. QED BY <2>1, <2>2, <2>3, <2>4 DEF WorkflowIsSound
<1>. QED BY <1>1, WorkflowInvariant, PTL

-----------------------------------------------------------------------------
(* The caller's validation of a scan's findings.                             *)

ValidationConstants == MaxFailures \in Nat

\* The captured draft is what the thread was given and what the decisions are written into.
GoodDraft == \A d \in Name : disk[d] = "captured"
Validated == \A d \in Name : disk[d] = "validated"
Decided == \A c \in Candidate : decision[c] \in Disposition

\* What holds at each step.
StepInv ==
    /\ step \in {"capture", "candidates"} => GoodDraft
    /\ step \notin {"capture", "failed", "over"} => DraftIsValid
    /\ step \in {"rewrite", "results", "complete"} => Decided
    /\ step = "restore" =>
          \A i \in DOMAIN Document : i < index => disk[Document[i]] = "captured"
    /\ step = "rewrite" =>
          \A i \in DOMAIN Document : i < index => disk[Document[i]] = "validated"
    /\ step \in {"results", "complete"} => Validated
    /\ step = "complete" => results = "complete"
    /\ step # "over" => ending = "none"

\* The limit counts only as long as nothing is decided; and it fails the work only with the
\* draft on disk, unless a write of the restoration failed.
BudgetInv ==
    /\ step \in {"rewrite", "results", "complete"} /\ Candidate # {} => ~budget
    /\ step = "failed" /\ cause = "budget" /\ failures = 0 /\ Candidate # {} => GoodDraft

\* What the results and the ending say.
EndInv ==
    /\ results = "complete" => step \in {"complete", "over"} /\ Validated
    /\ ending = "sealed" => DraftIsValid /\ Decided /\ Validated /\ results = "complete"
    /\ ending = "recovered" /\ failures = 0 /\ Candidate # {} => GoodDraft

ValidationInv == ValidationTypeOK /\ StepInv /\ BudgetInv /\ EndInv

LEMMA DocumentsAre ==
  /\ DOMAIN Document = 1 .. 3 /\ Len(Document) = 3
  /\ \A i \in 1 .. 3 : Document[i] \in Name
  /\ \A d \in Name : \E i \in 1 .. 3 : d = Document[i]
  /\ \A i \in 1 .. 3, j \in 1 .. 3 : Document[i] = Document[j] => i = j
BY DEF Document, Name

LEMMA ValidationStart == ValidationConstants /\ ValidationInit => ValidationInv
BY DEF ValidationConstants, ValidationInit, ValidationInv, ValidationTypeOK, StepInv, BudgetInv,
   EndInv, GoodDraft

LEMMA ValidationKeeps ==
  ValidationConstants /\ ValidationInv /\ [ValidationNext]_validationVars => ValidationInv'
<1>. SUFFICES ASSUME ValidationConstants, ValidationInv, [ValidationNext]_validationVars
              PROVE  ValidationInv'
  OBVIOUS
<1>. USE DEF ValidationConstants, ValidationInv, ValidationTypeOK, StepInv, BudgetInv, EndInv,
         GoodDraft, Validated, Decided, Enter, Fails, Cause, draft, DraftIsValid, Mapped
<1>1. CASE Capture
  BY <1>1 DEF Capture
<1>2. CASE WriteCandidates
  BY <1>2, DocumentsAre DEF WriteCandidates
<1>3. ASSUME NEW d \in Name, Edit(d) PROVE ValidationInv'
  BY <1>3 DEF Edit
<1>4. CASE Decide
  <2>1. ValidationTypeOK'
    <3>1. budget' \in BOOLEAN
      BY <1>4 DEF Decide
    <3>2. decision' \in [Candidate -> Disposition \cup {"none"}]
      BY <1>4 DEF Decide
    <3>. QED BY <1>4, <3>1, <3>2 DEF Decide
  <2>2. StepInv'
    BY <1>4, DocumentsAre DEF Decide
  <2>3. BudgetInv' /\ EndInv'
    BY <1>4 DEF Decide
  <2>. QED BY <2>1, <2>2, <2>3
<1>5. CASE AnswerFails
  <2>1. ValidationTypeOK'
    <3>1. budget' \in BOOLEAN
      BY <1>5 DEF AnswerFails
    <3>2. cause' \in {"none", "signal", "budget", "error"}
      BY <1>5 DEF AnswerFails
    <3>. QED BY <1>5, <3>1, <3>2 DEF AnswerFails
  <2>2. StepInv'
    BY <1>5, DocumentsAre DEF AnswerFails
  <2>3. BudgetInv' /\ EndInv'
    BY <1>5 DEF AnswerFails
  <2>. QED BY <2>1, <2>2, <2>3
<1>6. CASE Restore
  BY <1>6, DocumentsAre DEF Restore
<1>7. CASE Rewrite
  BY <1>7, DocumentsAre DEF Rewrite
<1>8. CASE WriteResults
  BY <1>8 DEF WriteResults
<1>9. CASE SealValidated
  BY <1>9 DEF SealValidated
<1>10. CASE Conclude
  BY <1>10 DEF Conclude
<1>11. CASE UNCHANGED validationVars
  BY <1>11 DEF validationVars
<1>. QED BY <1>1, <1>2, <1>3, <1>4, <1>5, <1>6, <1>7, <1>8, <1>9, <1>10, <1>11
     DEF ValidationNext

\* The inductive invariant of the caller's validation.
THEOREM ValidationInvariant ==
  ASSUME ValidationConstants
  PROVE  ValidationSpec => []ValidationInv
<1>1. ValidationInit => ValidationInv
  BY ValidationStart
<1>2. ValidationInv /\ [ValidationNext]_validationVars => ValidationInv'
  BY ValidationKeeps
<1>. QED BY <1>1, <1>2, PTL DEF ValidationSpec

\* What is sealed is the captured draft with the caller's decisions, whatever the thread did
\* to the documents: a surface is reported if and only if a finding of it is, and what was
\* put off is followed up.  What is recovered after a cost limit is the captured draft, unless
\* the disk failed.  For any candidates, surfaces and failures.
THEOREM ValidationsAreSound ==
  ASSUME ValidationConstants
  PROVE  ValidationSpec => []ValidationIsSound
<1>1. ValidationInv => ValidationIsSound
  <2>. SUFFICES ASSUME ValidationInv PROVE ValidationIsSound
    OBVIOUS
  <2>1. RecoveredIsDraft /\ ResultsAreTrue
    BY DEF ValidationInv, EndInv, RecoveredIsDraft, ResultsAreTrue, GoodDraft, Validated
  <2>2. ASSUME ending = "sealed", NEW s \in Surface
        PROVE  /\ DispositionOf(s) = "reported" <=> \E c \in Reported : s \in surfacesOf[c]
               /\ (\E c \in Candidate : s \in surfacesOf[c] /\ decision[c] = "deferred") =>
                     DispositionOf(s) \in {"needs_follow_up", "reported"}
    <3>1. DraftIsValid /\ Decided
      BY <2>2 DEF ValidationInv, EndInv
    <3>2. s \in drafted => \E c \in Candidate : s \in surfacesOf[c]
      BY <3>1 DEF DraftIsValid, Mapped
    <3>. DEFINE values == {decision[c] : c \in {d \in Candidate : s \in surfacesOf[d]}}
    <3>3. "reportable" \in values <=> \E c \in Reported : s \in surfacesOf[c]
      BY DEF Reported
    <3>4. values = {} => ~ \E c \in Candidate : s \in surfacesOf[c]
      OBVIOUS
    <3>5. (\E c \in Candidate : s \in surfacesOf[c] /\ decision[c] = "deferred")
             => "deferred" \in values
      OBVIOUS
    <3>6. DispositionOf(s) = IF values = {} THEN IF s \in drafted THEN "reported" ELSE "no_issue_found"
                             ELSE IF "reportable" \in values THEN "reported"
                             ELSE IF "deferred" \in values THEN "needs_follow_up"
                             ELSE IF "suppressed" \in values THEN "rejected"
                             ELSE "not_applicable"
      BY DEF DispositionOf
    <3>. HIDE DEF values
    <3>. QED BY <3>2, <3>3, <3>4, <3>5, <3>6 DEF Reported
  <2>3. SealedIsValidated
    BY <2>2 DEF ValidationInv, EndInv, SealedIsValidated, Validated
  <2>. QED BY <2>1, <2>3 DEF ValidationIsSound
<1>. QED BY <1>1, ValidationInvariant, PTL

=============================================================================
