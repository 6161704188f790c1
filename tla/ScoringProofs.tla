--------------------------- MODULE ScoringProofs ----------------------------
(***************************************************************************)
(* Proofs about Scoring for any number of requests, any prices and any     *)
(* length of the clock.  Hints are counted: the requests that were given   *)
(* one are as many as Runner.hintsUsed says, and those of them that are    *)
(* still under way make up the difference to the counter of the entry.     *)
(* Scores are compared: Score.Current falls with the elapsed time and with *)
(* the hints, and whoever writes them once the clock runs writes a later   *)
(* time and no fewer hints, unless it read the clock before.  Runner.mu    *)
(* makes that an invariant: there is one reader of the clock at a time,    *)
(* and what it has read is no less than what the Score record holds.       *)
(***************************************************************************)
EXTENDS Scoring, FiniteSetTheorems, TLAPS

\* The requests that were given a hint and have not stored it in the entry.
Pending == {r \in Drawn : req[r].pc # "answered"}

RequestRecords ==
  [pc : Steps, kind : Kinds \cup {"none"}, idx : Int, elapsed : Int, sound : BOOLEAN,
   score : Nat]

\* What the steps of a request say about its local variables.
Numbered ==
  \A r \in Requests :
    /\ req[r].pc \in {"idle", "found", "refreshed"} => req[r].idx = -1
    /\ req[r].pc \in {"hinted", "scored"} => req[r].idx >= 0
    /\ req[r].pc = "hinted" => req[r].kind = "hint"
    /\ Holds(r) => IF req[r].kind = "get" THEN req[r].idx = -1 ELSE req[r].idx >= 0

Counted == IsFiniteSet(Drawn) /\ HintsInOrder /\ HintsAccounted

\* How far Run has come, startAt and what printResult has read and printed.
Phased ==
  /\ startAt <= now
  /\ phase \in {"boot", "setting"} => startAt = -1
  /\ phase \in {"clearing", "monitor", "print", "printing"} => startAt # -1
  /\ phase \in {"boot", "setting", "clearing", "monitor"} => ~final.solved
  /\ final.elapsed >= 0 => startAt # -1 /\ phase \in {"printing", "drain", "ended"}
  /\ phase = "printing" => final.elapsed >= 0
  /\ final.score >= 0 => final.elapsed >= 0 /\ phase \in {"drain", "ended"}

\* Runner.mu: one request at a time is inside CurrentScore.
Exclusive == \A q, r \in Requests : Holds(q) /\ Holds(r) => q = r

\* The Score record is behind the clock and the hints, and behind the request
\* that has read the clock and not yet stored it.
Measured ==
  /\ score.hints <= hintsUsed
  /\ score.sound => startAt # -1 /\ score.elapsed >= 0 /\ score.elapsed <= now - startAt
  /\ \A r \in Requests : req[r].pc = "read" /\ req[r].sound =>
       /\ startAt # -1 /\ req[r].elapsed >= 0 /\ req[r].elapsed <= now - startAt
       /\ score.sound => score.elapsed <= req[r].elapsed

\* The monitoring is over.
Over == phase = "print" \/ final.elapsed >= 0

\* From then on nobody has a reading of the clock from before its start, ...
Sounded == Over => score.sound /\ \A r \in Requests : req[r].pc = "read" => req[r].sound

\* ... and the scores due, printed and computed are in order.
Ordered ==
  Over => /\ final.solved => Current(score.elapsed, score.hints) <= due
          /\ final.elapsed >= 0 =>
               /\ final.elapsed <= score.elapsed
               /\ final.solved => Current(final.elapsed, score.hints) <= due
          /\ final.score >= 0 =>
               /\ Current(final.elapsed, score.hints) <= final.score
               /\ final.solved => final.score <= due

Clocked == Phased /\ Exclusive /\ Measured /\ Sounded /\ Ordered

\* The inductive invariant.
ScoringInv == TypeOK /\ Numbered /\ Counted /\ Clocked /\ ChargesOwnHint

-----------------------------------------------------------------------------
(***************************************************************************)
(* The score.                                                              *)
(***************************************************************************)

\* Multiplication by a price keeps the order.
LEMMA ProductOrder ==
  ASSUME NEW a \in Nat, NEW b \in Nat, NEW c \in Nat, a <= b
  PROVE  a * c \in Nat /\ b * c \in Nat /\ a * c <= b * c
OBVIOUS

\* Division, which cuts off, keeps the order.
LEMMA QuotientOrder ==
  ASSUME NEW a \in Nat, NEW b \in Nat, NEW d \in Nat \ {0}, a <= b
  PROVE  (a \div d) \in Nat /\ (b \div d) \in Nat /\ a \div d <= b \div d
OBVIOUS

\* The penalty grows with the elapsed time, also across zero, where int()
\* changes the direction it cuts off to.
LEMMA PenaltyOrder ==
  ASSUME NEW d \in Int, NEW e \in Int, d <= e
  PROVE  /\ TimePenalty(d) \in Int /\ TimePenalty(e) \in Int
         /\ TimePenalty(d) <= TimePenalty(e)
<1> DEFINE Fraction(n) == (n * PenaltyNum) \div PenaltyDen
<1>1. ASSUME NEW m \in Nat, NEW n \in Nat, m <= n
      PROVE  Fraction(m) \in Nat /\ Fraction(n) \in Nat /\ Fraction(m) <= Fraction(n)
  BY <1>1, ScoringAssumption, ProductOrder, QuotientOrder
<1>2. \A n \in Int : TimePenalty(n) = IF n >= 0 THEN Fraction(n) ELSE -Fraction(-n)
  BY DEF TimePenalty
<1> HIDE DEF Fraction
<1>3. CASE d >= 0
  BY <1>1, <1>2, <1>3
<1>4. CASE d < 0 /\ e >= 0
  BY <1>1, <1>2, <1>4
<1>5. CASE e < 0
  <2>1. -e \in Nat /\ -d \in Nat /\ -e <= -d
    BY <1>5
  <2>2. Fraction(-e) \in Nat /\ Fraction(-d) \in Nat /\ Fraction(-e) <= Fraction(-d)
    BY <1>1, <2>1
  <2> QED
    BY <1>2, <1>5, <2>2
<1> QED
  BY <1>3, <1>4, <1>5

\* The score falls with the elapsed time and with the hints, and is never
\* negative.
LEMMA ScoreOrder ==
  ASSUME NEW d \in Int, NEW e \in Int, d <= e,
         NEW g \in Nat, NEW h \in Nat, g <= h
  PROVE  /\ Current(d, g) \in Nat /\ Current(e, h) \in Nat
         /\ Current(e, h) <= Current(d, g)
<1>1. g * HintPenalty \in Nat /\ h * HintPenalty \in Nat /\ g * HintPenalty <= h * HintPenalty
  BY ScoringAssumption, ProductOrder
<1>2. /\ TimePenalty(d) \in Int /\ TimePenalty(e) \in Int
      /\ TimePenalty(d) <= TimePenalty(e)
  BY PenaltyOrder
<1> QED
  BY <1>1, <1>2, ScoringAssumption DEF Current

\* A score is a natural number.
LEMMA ScoreType == \A e \in Int, h \in Nat : Current(e, h) \in Nat
BY ScoreOrder

\* What time.Since returns is a number.
LEMMA SinceType == TypeOK => Since \subseteq Int
BY ScoringAssumption DEF TypeOK, Since

\* In the phases that follow the start of the clock time.Since is the elapsed
\* time.
LEMMA SinceStarted ==
  ASSUME phase # "setting", startAt # -1
  PROVE  Since = {now - startAt}
BY DEF Since

-----------------------------------------------------------------------------
(***************************************************************************)
(* Types and the steps of a request.                                       *)
(***************************************************************************)

\* The record of a request that has been answered.
LEMMA AnsweredRecord ==
  ASSUME NEW i \in Int
  PROVE  /\ Answered(i) \in RequestRecords
         /\ Answered(i).pc = "answered" /\ Answered(i).kind = "none" /\ Answered(i).idx = i
<1> DEFINE y == [NoReq EXCEPT !.pc = "answered"]
<1>1. y \in RequestRecords /\ y.pc = "answered" /\ y.kind = "none"
  <2>1. NoReq \in RequestRecords /\ NoReq.kind = "none"
    BY DEF RequestRecords, NoReq, Steps
  <2> QED
    BY <2>1 DEF RequestRecords, Steps
<1>2. Answered(i) = [y EXCEPT !.idx = i]
  BY DEF Answered
<1> HIDE DEF y
<1> QED
  BY <1>1, <1>2 DEF RequestRecords

\* The local variables that Arrive sets.
LEMMA ArriveUpdate ==
  ASSUME NEW f \in [Requests -> RequestRecords], NEW r \in Requests, NEW k \in Kinds
  PROVE  [f EXCEPT ![r].pc = "found", ![r].kind = k] \in [Requests -> RequestRecords]
<1> DEFINE g == [f EXCEPT ![r].pc = "found"]
<1>1. g \in [Requests -> RequestRecords]
  BY DEF RequestRecords, Steps
<1>2. [f EXCEPT ![r].pc = "found", ![r].kind = k] = [g EXCEPT ![r].kind = k]
  OBVIOUS
<1> HIDE DEF g
<1>3. [g EXCEPT ![r].kind = k] \in [Requests -> RequestRecords]
  BY <1>1 DEF RequestRecords
<1> QED
  BY <1>2, <1>3

\* Those that RequestHintText sets.
LEMMA HintUpdate ==
  ASSUME NEW f \in [Requests -> RequestRecords], NEW r \in Requests, NEW i \in Int
  PROVE  [f EXCEPT ![r].pc = "hinted", ![r].idx = i] \in [Requests -> RequestRecords]
<1> DEFINE g == [f EXCEPT ![r].pc = "hinted"]
<1>1. g \in [Requests -> RequestRecords]
  BY DEF RequestRecords, Steps
<1>2. [f EXCEPT ![r].pc = "hinted", ![r].idx = i] = [g EXCEPT ![r].idx = i]
  OBVIOUS
<1> HIDE DEF g
<1>3. [g EXCEPT ![r].idx = i] \in [Requests -> RequestRecords]
  BY <1>1 DEF RequestRecords
<1> QED
  BY <1>2, <1>3

\* Those that CurrentScore sets when it reads the clock and when it has stored it.
LEMMA ClockUpdate ==
  ASSUME NEW f \in [Requests -> RequestRecords], NEW r \in Requests, NEW p \in Steps,
         NEW e \in Int, NEW b \in BOOLEAN
  PROVE  [f EXCEPT ![r].pc = p, ![r].elapsed = e, ![r].sound = b] \in [Requests -> RequestRecords]
<1> DEFINE g == [f EXCEPT ![r].pc = p]
           h == [g EXCEPT ![r].elapsed = e]
<1>1. g \in [Requests -> RequestRecords]
  BY DEF RequestRecords
<1>2. [f EXCEPT ![r].pc = p, ![r].elapsed = e, ![r].sound = b] = [h EXCEPT ![r].sound = b]
  OBVIOUS
<1> HIDE DEF g
<1>3. h \in [Requests -> RequestRecords]
  BY <1>1 DEF RequestRecords
<1> HIDE DEF h
<1>4. [h EXCEPT ![r].sound = b] \in [Requests -> RequestRecords]
  BY <1>3 DEF RequestRecords
<1> QED
  BY <1>2, <1>4

\* Those that are set when it has computed the score.
LEMMA ScoreUpdate ==
  ASSUME NEW f \in [Requests -> RequestRecords], NEW r \in Requests, NEW e \in Int, NEW n \in Nat
  PROVE  [f EXCEPT ![r].pc = "scored", ![r].elapsed = e, ![r].score = n] \in [Requests -> RequestRecords]
<1> DEFINE g == [f EXCEPT ![r].pc = "scored"]
           h == [g EXCEPT ![r].elapsed = e]
<1>1. g \in [Requests -> RequestRecords]
  BY DEF RequestRecords, Steps
<1>2. [f EXCEPT ![r].pc = "scored", ![r].elapsed = e, ![r].score = n] = [h EXCEPT ![r].score = n]
  OBVIOUS
<1> HIDE DEF g
<1>3. h \in [Requests -> RequestRecords]
  BY <1>1 DEF RequestRecords
<1> HIDE DEF h
<1>4. [h EXCEPT ![r].score = n] \in [Requests -> RequestRecords]
  BY <1>3 DEF RequestRecords
<1> QED
  BY <1>2, <1>4

\* What is set of the Score record when the clock is read.
LEMMA ElapsedUpdate ==
  ASSUME NEW s \in [elapsed : Int, hints : Nat, sound : BOOLEAN], NEW e \in Int,
         NEW b \in BOOLEAN
  PROVE  [s EXCEPT !.elapsed = e, !.sound = b] \in [elapsed : Int, hints : Nat, sound : BOOLEAN]
<1> DEFINE t == [s EXCEPT !.elapsed = e]
<1>1. t \in [elapsed : Int, hints : Nat, sound : BOOLEAN]
  OBVIOUS
<1>2. [s EXCEPT !.elapsed = e, !.sound = b] = [t EXCEPT !.sound = b]
  OBVIOUS
<1> HIDE DEF t
<1> QED
  BY <1>1, <1>2

\* Runner.Run, the polling goroutine and the requests keep the types.
LEMMA TypeStep == TypeOK /\ [Next]_vars => TypeOK'
<1> SUFFICES ASSUME TypeOK, [Next]_vars PROVE TypeOK'
  OBVIOUS
<1>0. Since \subseteq Int
  BY SinceType
<1>a. req \in [Requests -> RequestRecords]
  BY DEF TypeOK, RequestRecords
<1> USE ScoringAssumption, ScoreType DEF TypeOK, run
<1>1. CASE Tick
  BY <1>1 DEF Tick
<1>2. CASE Delete
  BY <1>2 DEF Delete
<1>3. CASE StartClock
  BY <1>3 DEF StartClock, Phases
<1>3a. CASE StoreStart
  BY <1>3a DEF StoreStart, Phases
<1>4. CASE ClockStarted
  <2>1. score' \in [elapsed : Int, hints : Nat, sound : BOOLEAN]
    <3>1. 0 \in Int /\ TRUE \in BOOLEAN
      OBVIOUS
    <3> QED
      BY <1>4, <3>1, ElapsedUpdate DEF ClockStarted
  <2> QED
    BY <1>4, <2>1 DEF ClockStarted, Phases
<1>5. CASE RunFails
  BY <1>5 DEF RunFails, Phases
<1>6. CASE Poll
  <2>1. now - startAt \in Int
    OBVIOUS
  <2>2. score' \in [elapsed : Int, hints : Nat, sound : BOOLEAN]
    BY <1>6, <2>1, ElapsedUpdate DEF Poll
  <2> QED
    BY <1>6, <2>2 DEF Poll
<1>7. ASSUME NEW solved \in BOOLEAN, Conclude(solved) PROVE TypeOK'
  <2>1. now - startAt \in Int
    OBVIOUS
  <2>2. due' \in Nat
    BY <1>7, <2>1 DEF Conclude
  <2> QED
    BY <1>7, <2>1, <2>2 DEF Conclude, Phases
<1>8. CASE PrintElapsed
  BY <1>8 DEF PrintElapsed, Phases
<1>9. CASE PrintScore
  <2>1. Current(final.elapsed, score.hints) \in Nat
    OBVIOUS
  <2> QED
    BY <1>9, <2>1 DEF PrintScore, Phases
<1>10. CASE Finish
  BY <1>10 DEF Finish, Phases
<1>11. ASSUME NEW r \in Requests, NEW route \in Routes, Arrive(r, route) PROVE TypeOK'
  <2>1. (IF route = "vm" THEN "hint" ELSE route) \in Kinds
    BY DEF Routes, Kinds
  <2>2. req' \in [Requests -> RequestRecords]
    BY <1>a, <1>11, <2>1, ArriveUpdate DEF Arrive
  <2> QED
    BY <1>11, <2>2 DEF Arrive, RequestRecords
<1>12. ASSUME NEW r \in Requests, RequestHintText(r) PROVE TypeOK'
  <2>1. req' \in [Requests -> RequestRecords]
    <3>1. hintsUsed \in Int
      OBVIOUS
    <3> QED
      BY <1>a, <1>12, <3>1, HintUpdate DEF RequestHintText
  <2> QED
    BY <1>12, <2>1 DEF RequestHintText, RequestRecords
<1>13. ASSUME NEW r \in Requests, ReadClock(r) PROVE TypeOK'
  <2>1. "read" \in Steps /\ (startAt # -1) \in BOOLEAN
    BY DEF Steps
  <2>2. req' \in [Requests -> RequestRecords]
    <3> PICK e \in Since : req' = [req EXCEPT ![r].pc = "read", ![r].elapsed = e,
                                               ![r].sound = (startAt # -1)]
      BY <1>13 DEF ReadClock
    <3> QED
      BY <1>0, <1>a, <2>1, ClockUpdate
  <2> QED
    BY <1>13, <2>2 DEF ReadClock, RequestRecords
<1>14. ASSUME NEW r \in Requests, StoreElapsed(r) PROVE TypeOK'
  <2>1. "stored" \in Steps /\ 0 \in Int /\ FALSE \in BOOLEAN
    BY DEF Steps
  <2>2. req' \in [Requests -> RequestRecords]
    BY <1>a, <1>14, <2>1, ClockUpdate DEF StoreElapsed
  <2>3. score' \in [elapsed : Int, hints : Nat, sound : BOOLEAN]
    BY <1>14 DEF StoreElapsed
  <2> QED
    BY <1>14, <2>2, <2>3 DEF StoreElapsed, RequestRecords
<1>15. ASSUME NEW r \in Requests, ComputeScore(r) PROVE TypeOK'
  <2>1. score' \in [elapsed : Int, hints : Nat, sound : BOOLEAN]
    BY <1>15 DEF ComputeScore, CurrentScore
  <2> DEFINE s == Current(score'.elapsed, score'.hints)
  <2>2. s \in Nat /\ score.elapsed \in Int
    BY <2>1
  <2> HIDE DEF s
  <2>3. CASE req[r].kind = "get"
    <3>1. entry' = [entry EXCEPT !.score = s] /\ req' = [req EXCEPT ![r].pc = "refreshed"]
      BY <1>15, <2>3 DEF ComputeScore, s
    <3>2. req' \in [Requests -> RequestRecords]
      BY <1>a, <3>1 DEF RequestRecords, Steps
    <3> QED
      BY <1>15, <2>1, <2>2, <3>1, <3>2 DEF ComputeScore, RequestRecords
  <2>4. CASE req[r].kind # "get"
    <3>1. /\ entry' = entry
          /\ req' = [req EXCEPT ![r].pc = "scored", ![r].elapsed = score.elapsed, ![r].score = s]
      BY <1>15, <2>4 DEF ComputeScore, s
    <3>2. req' \in [Requests -> RequestRecords]
      BY <1>a, <2>2, <3>1, ScoreUpdate
    <3> QED
      BY <1>15, <2>1, <3>1, <3>2 DEF ComputeScore, RequestRecords
  <2> QED
    BY <2>3, <2>4
<1>16. ASSUME NEW r \in Requests, StoreHint(r) PROVE TypeOK'
  <2>1. req' \in [Requests -> RequestRecords]
    <3>1. Answered(req[r].idx) \in RequestRecords
      BY <1>a, AnsweredRecord DEF RequestRecords
    <3> QED
      BY <1>a, <1>16, <3>1 DEF StoreHint
  <2>2. entry' \in [hints : Nat, score : Nat, status : {"running", "complete", "aborted"}]
    <3> DEFINE e == [entry EXCEPT !.hints = @ + 1]
    <3>1. e \in [hints : Nat, score : Nat, status : {"running", "complete", "aborted"}]
      OBVIOUS
    <3>2. entry' = [e EXCEPT !.score = req[r].score] /\ req[r].score \in Nat
      BY <1>16 DEF StoreHint
    <3> HIDE DEF e
    <3> QED
      BY <3>1, <3>2
  <2> QED
    BY <1>16, <2>1, <2>2 DEF StoreHint, RequestRecords
<1>17. ASSUME NEW r \in Requests, AnswerStatus(r) PROVE TypeOK'
  <2>1. req' \in [Requests -> RequestRecords]
    <3>1. Answered(req[r].idx) \in RequestRecords
      BY <1>a, AnsweredRecord DEF RequestRecords
    <3> QED
      BY <1>a, <1>17, <3>1 DEF AnswerStatus
  <2> QED
    BY <1>17, <2>1 DEF AnswerStatus, RequestRecords
<1>18. CASE UNCHANGED vars
  BY <1>18 DEF vars
<1> QED
  BY <1>1, <1>2, <1>3, <1>3a, <1>4, <1>5, <1>6, <1>7, <1>8, <1>9, <1>10, <1>11, <1>12,
     <1>13, <1>14, <1>15, <1>16, <1>17, <1>18
  DEF Next, RunStep, RequestStep

\* The steps of the polling goroutine, of Runner.Run and of the clock.
Silent == Tick \/ Delete \/ RunStep

\* They leave the requests, the hints and the entry's count of them alone.
LEMMA SilentStep ==
  ASSUME TypeOK, Silent
  PROVE  UNCHANGED <<req, hintsUsed>> /\ entry'.hints = entry.hints
BY DEF TypeOK, Silent, Tick, Delete, RunStep, StartClock, StoreStart, ClockStarted, RunFails,
       Poll, Conclude, PrintElapsed, PrintScore, Finish, run

\* The steps inside CurrentScore: which local variables of the request they
\* change, and that they leave the other requests and the hints alone.
LEMMA InsideStep ==
  ASSUME TypeOK, NEW r \in Requests, ReadClock(r) \/ StoreElapsed(r) \/ ComputeScore(r)
  PROVE  /\ req'[r].idx = req[r].idx /\ req'[r].kind = req[r].kind
         /\ \A q \in Requests \ {r} : req'[q] = req[q]
         /\ hintsUsed' = hintsUsed /\ entry'.hints = entry.hints
         /\ ReadClock(r) => req'[r].pc = "read"
         /\ StoreElapsed(r) => req'[r].pc = "stored"
         /\ ComputeScore(r) =>
              req'[r].pc = (IF req[r].kind = "get" THEN "refreshed" ELSE "scored")
<1>a. req \in [Requests -> RequestRecords]
  BY DEF TypeOK, RequestRecords
<1>1. CASE ReadClock(r)
  <2> PICK e \in Since : req' = [req EXCEPT ![r].pc = "read", ![r].elapsed = e,
                                             ![r].sound = (startAt # -1)]
    BY <1>1 DEF ReadClock
  <2>1. /\ req'[r].idx = req[r].idx /\ req'[r].kind = req[r].kind /\ req'[r].pc = "read"
        /\ \A q \in Requests \ {r} : req'[q] = req[q]
    BY <1>a DEF RequestRecords
  <2>2. req[r].pc \in {"hinted", "found"} /\ UNCHANGED <<hintsUsed, entry>>
    BY <1>1 DEF ReadClock
  <2> QED
    BY <2>1, <2>2 DEF StoreElapsed, ComputeScore
<1>2. CASE StoreElapsed(r)
  BY <1>a, <1>2 DEF ReadClock, StoreElapsed, ComputeScore, RequestRecords
<1>3. CASE ComputeScore(r)
  <2>1. CASE req[r].kind = "get"
    BY <1>a, <1>3, <2>1 DEF ReadClock, StoreElapsed, ComputeScore, RequestRecords, TypeOK
  <2>2. CASE req[r].kind # "get"
    BY <1>a, <1>3, <2>2 DEF ReadClock, StoreElapsed, ComputeScore, RequestRecords, TypeOK
  <2> QED
    BY <2>1, <2>2
<1> QED
  BY <1>1, <1>2, <1>3

\* A handler does its steps in order, on its own local variables.
LEMMA NumberedStep == TypeOK /\ Numbered /\ [Next]_vars => Numbered'
<1> SUFFICES ASSUME TypeOK, Numbered, [Next]_vars PROVE Numbered'
  OBVIOUS
<1>a. req \in [Requests -> RequestRecords]
  BY DEF TypeOK, RequestRecords
<1> USE DEF Holds
<1>1. CASE UNCHANGED req
  BY <1>1 DEF Numbered
<1>2. ASSUME NEW r \in Requests, NEW route \in Routes, Arrive(r, route) PROVE Numbered'
  BY <1>a, <1>2 DEF Arrive, Numbered, RequestRecords
<1>3. ASSUME NEW r \in Requests, RequestHintText(r) PROVE Numbered'
  BY <1>a, <1>3 DEF RequestHintText, Numbered, RequestRecords, TypeOK
<1>4. ASSUME NEW r \in Requests, ReadClock(r) PROVE Numbered'
  <2>1. req[r].pc = "hinted" \/ (req[r].pc = "found" /\ req[r].kind = "get")
    BY <1>4 DEF ReadClock
  <2> QED
    BY <1>4, <2>1, InsideStep DEF Numbered
<1>5. ASSUME NEW r \in Requests, StoreElapsed(r) \/ ComputeScore(r) PROVE Numbered'
  <2>1. Holds(r)
    BY <1>5 DEF StoreElapsed, ComputeScore
  <2> QED
    BY <1>5, <2>1, InsideStep DEF Numbered
<1>6. ASSUME NEW r \in Requests, StoreHint(r) \/ AnswerStatus(r) PROVE Numbered'
  <2>1. req[r].idx \in Int
    BY <1>a DEF RequestRecords
  <2>2. req' = [req EXCEPT ![r] = Answered(req[r].idx)]
    BY <1>6 DEF StoreHint, AnswerStatus
  <2> QED
    BY <1>a, <2>1, <2>2, AnsweredRecord DEF Numbered
<1>7. CASE Silent
  BY <1>1, <1>7, SilentStep
<1> QED
  BY <1>1, <1>2, <1>3, <1>4, <1>5, <1>6, <1>7 DEF Next, RequestStep, Silent, vars

-----------------------------------------------------------------------------
(***************************************************************************)
(* The hints.                                                              *)
(***************************************************************************)

\* A step that draws no hint and stores none keeps the counts.
LEMMA CountsUnchanged ==
  ASSUME Counted, hintsUsed' = hintsUsed, entry'.hints = entry.hints,
         \A q \in Requests : req'[q].idx = req[q].idx,
         \A q \in Drawn : req'[q].pc = "answered" <=> req[q].pc = "answered"
  PROVE  Counted'
<1>1. Drawn' = Drawn
  BY DEF Drawn
<1>2. Pending' = Pending
  BY <1>1 DEF Pending, Drawn
<1>3. {req'[q].idx : q \in Drawn} = {req[q].idx : q \in Drawn}
  BY DEF Drawn
<1> QED
  BY <1>1, <1>2, <1>3 DEF Counted, HintsInOrder, HintsAccounted, Pending

\* RequestHintText: the request is one more with a hint, and one more under way.
LEMMA DrawStep ==
  ASSUME TypeOK, Numbered, Counted, NEW r \in Requests, RequestHintText(r)
  PROVE  Counted'
<1>a. req \in [Requests -> RequestRecords] /\ hintsUsed \in Nat
  BY DEF TypeOK, RequestRecords
<1>1. /\ r \notin Drawn /\ r \notin Pending
      /\ req'[r].idx = hintsUsed /\ req'[r].pc = "hinted"
      /\ \A q \in Requests \ {r} : req'[q] = req[q]
  BY <1>a DEF RequestHintText, Numbered, Drawn, Pending, RequestRecords
<1>2. Drawn' = Drawn \cup {r} /\ Pending' = Pending \cup {r}
  BY <1>a, <1>1 DEF Drawn, Pending
<1>3. IsFiniteSet(Drawn) /\ IsFiniteSet(Pending)
  BY FS_Subset DEF Counted, Pending
<1>4. /\ IsFiniteSet(Drawn') /\ Cardinality(Drawn') = Cardinality(Drawn) + 1
      /\ Cardinality(Pending') = Cardinality(Pending) + 1
      /\ Cardinality(Pending) \in Nat
  BY <1>1, <1>2, <1>3, FS_AddElement, FS_CardinalityType
<1>5. {req'[q].idx : q \in Drawn'} = {req[q].idx : q \in Drawn} \cup {hintsUsed}
  <2>1. \A q \in Drawn : req'[q] = req[q]
    BY <1>1 DEF Drawn
  <2> QED
    BY <1>1, <1>2, <2>1
<1>6. 0..(hintsUsed' - 1) = 0..(hintsUsed - 1) \cup {hintsUsed}
  BY <1>a DEF RequestHintText
<1>7. HintsInOrder'
  BY <1>a, <1>4, <1>5, <1>6 DEF HintsInOrder, Counted, RequestHintText
<1>8. HintsAccounted'
  BY <1>a, <1>4 DEF HintsAccounted, Counted, RequestHintText, Pending, TypeOK
<1> QED
  BY <1>4, <1>7, <1>8 DEF Counted

\* The update of the entry: one request less under way, one hint more counted.
LEMMA StoreStep ==
  ASSUME TypeOK, Numbered, Counted, NEW r \in Requests, StoreHint(r)
  PROVE  Counted'
<1>a. req \in [Requests -> RequestRecords]
  BY DEF TypeOK, RequestRecords
<1>b. req[r].idx \in Int
  BY <1>a DEF RequestRecords
<1>1. /\ r \in Drawn /\ r \in Pending
      /\ req'[r].idx = req[r].idx /\ req'[r].pc = "answered"
      /\ \A q \in Requests \ {r} : req'[q] = req[q]
  BY <1>a, <1>b, AnsweredRecord DEF StoreHint, Numbered, Drawn, Pending
<1>2. Drawn' = Drawn /\ Pending' = Pending \ {r}
  BY <1>1 DEF Drawn, Pending
<1>3. {req'[q].idx : q \in Drawn} = {req[q].idx : q \in Drawn}
  BY <1>1 DEF Drawn
<1>4. HintsInOrder'
  BY <1>2, <1>3 DEF HintsInOrder, Counted, StoreHint
<1>5. IsFiniteSet(Pending)
  BY FS_Subset DEF Counted, Pending
<1>6. Cardinality(Pending') = Cardinality(Pending) - 1 /\ Cardinality(Pending) \in Nat
  BY <1>1, <1>2, <1>5, FS_RemoveElement, FS_CardinalityType
<1>7. entry'.hints = entry.hints + 1 /\ entry.hints \in Nat /\ hintsUsed' = hintsUsed
  BY DEF StoreHint, TypeOK
<1>8. HintsAccounted'
  BY <1>6, <1>7 DEF HintsAccounted, Counted, Pending
<1> QED
  BY <1>2, <1>4, <1>8 DEF Counted

\* Every step keeps the counts.
LEMMA CountedStep == TypeOK /\ Numbered /\ Counted /\ [Next]_vars => Counted'
<1> SUFFICES ASSUME TypeOK, Numbered, Counted, [Next]_vars PROVE Counted'
  OBVIOUS
<1>a. req \in [Requests -> RequestRecords]
  BY DEF TypeOK, RequestRecords
<1>1. CASE Silent \/ UNCHANGED vars
  BY <1>1, SilentStep, CountsUnchanged DEF vars
<1>2. ASSUME NEW r \in Requests, NEW route \in Routes, Arrive(r, route) PROVE Counted'
  <2>1. /\ \A q \in Requests : req'[q].idx = req[q].idx
        /\ \A q \in Drawn : req'[q].pc = "answered" <=> req[q].pc = "answered"
    BY <1>a, <1>2 DEF Arrive, RequestRecords, Drawn
  <2>2. hintsUsed' = hintsUsed /\ entry'.hints = entry.hints
    BY <1>2 DEF Arrive
  <2> QED
    BY <2>1, <2>2, CountsUnchanged
<1>3. ASSUME NEW r \in Requests, ReadClock(r) \/ StoreElapsed(r) \/ ComputeScore(r)
      PROVE  Counted'
  <2>1. req[r].pc # "answered" /\ req'[r].pc # "answered"
    BY <1>3, InsideStep DEF ReadClock, StoreElapsed, ComputeScore
  <2>2. /\ \A q \in Requests : req'[q].idx = req[q].idx
        /\ \A q \in Drawn : req'[q].pc = "answered" <=> req[q].pc = "answered"
    BY <1>3, <2>1, InsideStep DEF Drawn
  <2>3. hintsUsed' = hintsUsed /\ entry'.hints = entry.hints
    BY <1>3, InsideStep
  <2> QED
    BY <2>2, <2>3, CountsUnchanged
<1>4. ASSUME NEW r \in Requests, AnswerStatus(r) PROVE Counted'
  <2>1. req[r].idx \in Int /\ req[r].idx = -1
    BY <1>a, <1>4 DEF AnswerStatus, RequestRecords, Numbered
  <2>2. /\ \A q \in Requests : req'[q].idx = req[q].idx
        /\ \A q \in Drawn : req'[q].pc = "answered" <=> req[q].pc = "answered"
    BY <1>a, <1>4, <2>1, AnsweredRecord DEF AnswerStatus, Drawn
  <2>3. hintsUsed' = hintsUsed /\ entry'.hints = entry.hints
    BY <1>4 DEF AnswerStatus
  <2> QED
    BY <2>2, <2>3, CountsUnchanged
<1> QED
  BY <1>1, <1>2, <1>3, <1>4, DrawStep, StoreStep DEF Next, RequestStep, Silent

-----------------------------------------------------------------------------
(***************************************************************************)
(* The score under all who write it.                                       *)
(***************************************************************************)

\* The types the following steps use.
Records ==
  /\ now \in Nat /\ startAt \in Int /\ hintsUsed \in Nat /\ due \in Nat
  /\ score \in [elapsed : Int, hints : Nat, sound : BOOLEAN]
  /\ final \in [solved : BOOLEAN, elapsed : Int, score : Int]
  /\ req \in [Requests -> RequestRecords]

LEMMA RecordTypes == TypeOK => Records
BY ScoringAssumption DEF TypeOK, Records, RequestRecords

\* Run passes through its phases in order, and sets startAt once.
LEMMA PhasedStep == TypeOK /\ Clocked /\ [Next]_vars => Phased'
<1> SUFFICES ASSUME TypeOK, Clocked, [Next]_vars PROVE Phased'
  OBVIOUS
<1>0. Records /\ Phased
  BY RecordTypes DEF Clocked
<1> USE <1>0 DEF Phased, run, Records
<1>1. CASE Tick
  BY <1>1 DEF Tick
<1>2. CASE Delete \/ Finish
  BY <1>2 DEF Delete, Finish
<1>3. CASE StartClock \/ RunFails
  BY <1>3 DEF StartClock, RunFails
<1>4. CASE StoreStart
  BY <1>4 DEF StoreStart
<1>5. CASE ClockStarted \/ Poll
  BY <1>5 DEF ClockStarted, Poll
<1>6. ASSUME NEW solved \in BOOLEAN, Conclude(solved) PROVE Phased'
  BY <1>6 DEF Conclude
<1>7. CASE PrintElapsed
  BY <1>7 DEF PrintElapsed, Clocked, Measured, Sounded, Over
<1>8. CASE PrintScore
  <2>1. Current(final.elapsed, score.hints) \in Nat
    BY ScoreType
  <2> QED
    BY <1>8, <2>1 DEF PrintScore
<1>9. CASE UNCHANGED vars \/ \E r \in Requests : RequestStep(r)
  <2>1. UNCHANGED <<now, run>>
    BY <1>9 DEF vars, RequestStep, Arrive, RequestHintText, ReadClock, StoreElapsed, ComputeScore,
       StoreHint, AnswerStatus
  <2> QED
    BY <2>1
<1> QED
  BY <1>1, <1>2, <1>3, <1>4, <1>5, <1>6, <1>7, <1>8, <1>9 DEF Next, RunStep

\* The steps of a request outside CurrentScore.
Outside(r) ==
  \/ \E route \in Routes : Arrive(r, route)
  \/ RequestHintText(r) \/ StoreHint(r) \/ AnswerStatus(r)

\* They leave the request outside, and the others alone; of the rest, they
\* change the hints and the entry.
LEMMA OutsideStep ==
  ASSUME TypeOK, NEW r \in Requests, Outside(r)
  PROVE  /\ req'[r].pc \in {"found", "hinted", "answered"}
         /\ \A q \in Requests \ {r} : req'[q] = req[q]
         /\ UNCHANGED <<now, run, score>>
         /\ hintsUsed' \in {hintsUsed, hintsUsed + 1}
<1>a. req \in [Requests -> RequestRecords]
  BY DEF TypeOK, RequestRecords
<1>1. CASE (\E route \in Routes : Arrive(r, route)) \/ RequestHintText(r)
  BY <1>a, <1>1 DEF Arrive, RequestHintText, RequestRecords
<1>2. CASE StoreHint(r) \/ AnswerStatus(r)
  <2>1. req[r].idx \in Int
    BY <1>a DEF RequestRecords
  <2> QED
    BY <1>a, <1>2, <2>1, AnsweredRecord DEF StoreHint, AnswerStatus
<1> QED
  BY <1>1, <1>2 DEF Outside

\* Runner.mu is taken when nobody has it.
LEMMA ExclusiveStep == TypeOK /\ Exclusive /\ [Next]_vars => Exclusive'
<1> SUFFICES ASSUME TypeOK, Exclusive, [Next]_vars PROVE Exclusive'
  OBVIOUS
<1> USE DEF Exclusive, Holds
<1>1. CASE Silent \/ UNCHANGED vars
  BY <1>1, SilentStep DEF vars
<1>2. ASSUME NEW r \in Requests, Outside(r) PROVE Exclusive'
  BY <1>2, OutsideStep
<1>3. ASSUME NEW r \in Requests, ReadClock(r) PROVE Exclusive'
  <2>1. RunnerFree
    BY <1>3 DEF ReadClock
  <2> QED
    BY <1>3, <2>1, InsideStep DEF RunnerFree
<1>4. ASSUME NEW r \in Requests, StoreElapsed(r) \/ ComputeScore(r) PROVE Exclusive'
  <2>1. Holds(r)
    BY <1>4 DEF StoreElapsed, ComputeScore
  <2> QED
    BY <1>4, <2>1, InsideStep
<1> QED
  BY <1>1, <1>2, <1>3, <1>4 DEF Next, RequestStep, Outside, Silent

\* Every writer of the Score record keeps it behind the clock and the hints, and
\* behind the request that is about to store what it has read.
LEMMA MeasuredStep == TypeOK /\ Clocked /\ [Next]_vars => Measured'
<1> SUFFICES ASSUME TypeOK, Clocked, [Next]_vars PROVE Measured'
  OBVIOUS
<1>0. Records /\ Phased /\ Measured
  BY RecordTypes DEF Clocked
<1>a. \A r \in Requests : req[r].elapsed \in Int /\ req[r].sound \in BOOLEAN
  BY <1>0 DEF Records, RequestRecords
<1> USE <1>0 DEF Measured, run, Records
<1>1. CASE Tick
  BY <1>1, <1>a DEF Tick
<1>2. CASE Delete \/ Finish \/ StartClock \/ RunFails \/ PrintElapsed \/ PrintScore \/ UNCHANGED vars
  BY <1>2 DEF Delete, Finish, StartClock, RunFails, PrintElapsed, PrintScore, vars
<1>3. CASE StoreStart
  BY <1>3 DEF StoreStart, Phased
<1>4. CASE ClockStarted
  BY <1>4, <1>a DEF ClockStarted, Phased
<1>5. CASE Poll
  BY <1>5 DEF Poll, Polling, RunnerFree, Holds, Phased
<1>6. ASSUME NEW solved \in BOOLEAN, Conclude(solved) PROVE Measured'
  BY <1>6 DEF Conclude, RunnerFree, Holds, Phased
<1>7. ASSUME NEW r \in Requests, Outside(r) PROVE Measured'
  BY <1>7, OutsideStep
<1>8. ASSUME NEW r \in Requests, ReadClock(r) PROVE Measured'
  <2> PICK e \in Since : req' = [req EXCEPT ![r].pc = "read", ![r].elapsed = e,
                                             ![r].sound = (startAt # -1)]
    BY <1>8 DEF ReadClock
  <2>1. req'[r].elapsed = e /\ (req'[r].sound <=> startAt # -1)
    BY DEF RequestRecords
  <2>2. startAt # -1 => e = now - startAt
    BY SinceStarted DEF Phased
  <2>3. UNCHANGED <<now, run, hintsUsed, score>> /\ \A q \in Requests \ {r} : req'[q] = req[q]
    BY <1>8, InsideStep DEF ReadClock
  <2> QED
    BY <2>1, <2>2, <2>3, <1>a DEF Phased
<1>9. ASSUME NEW r \in Requests, StoreElapsed(r) PROVE Measured'
  <2>1. /\ score'.elapsed = req[r].elapsed /\ score'.sound = req[r].sound
        /\ score'.hints = score.hints
        /\ UNCHANGED <<now, run, hintsUsed>> /\ req[r].pc = "read"
    BY <1>9 DEF StoreElapsed
  <2>2. \A q \in Requests : req'[q].pc # "read"
    BY <1>9, <2>1, InsideStep DEF Clocked, Exclusive, Holds
  <2> QED
    BY <2>1, <2>2, <1>a
<1>10. ASSUME NEW r \in Requests, ComputeScore(r) PROVE Measured'
  <2>1. /\ score'.elapsed = score.elapsed /\ score'.sound = score.sound
        /\ score'.hints = hintsUsed /\ UNCHANGED <<now, run, hintsUsed>>
    BY <1>10 DEF ComputeScore, CurrentScore
  <2>2. req'[r].pc # "read" /\ \A q \in Requests \ {r} : req'[q] = req[q]
    BY <1>10, InsideStep
  <2> QED
    BY <2>1, <2>2, <1>a
<1> QED
  BY <1>1, <1>2, <1>3, <1>4, <1>5, <1>6, <1>7, <1>8, <1>9, <1>10
  DEF Next, RunStep, RequestStep, Outside

\* Once the monitoring is over, the clock is read after its start.
LEMMA SoundedStep == TypeOK /\ Clocked /\ [Next]_vars => Sounded'
<1> SUFFICES ASSUME TypeOK, Clocked, [Next]_vars PROVE Sounded'
  OBVIOUS
<1>0. Records /\ Phased /\ Sounded
  BY RecordTypes DEF Clocked
<1>a. \A r \in Requests : req[r].elapsed \in Int /\ req[r].sound \in BOOLEAN
  BY <1>0 DEF Records, RequestRecords
<1> USE <1>0 DEF Sounded, Over, run, Records
<1>1. CASE Tick \/ Delete \/ UNCHANGED vars
  BY <1>1 DEF Tick, Delete, vars
<1>2. CASE Finish \/ StartClock \/ RunFails \/ PrintElapsed \/ PrintScore
  BY <1>2 DEF Finish, StartClock, RunFails, PrintElapsed, PrintScore, Phased
<1>3. CASE StoreStart \/ ClockStarted
  BY <1>3 DEF StoreStart, ClockStarted, Phased
<1>4. CASE Poll
  BY <1>4 DEF Poll
<1>5. ASSUME NEW solved \in BOOLEAN, Conclude(solved) PROVE Sounded'
  BY <1>5 DEF Conclude, RunnerFree, Holds
<1>6. ASSUME NEW r \in Requests, Outside(r) PROVE Sounded'
  BY <1>6, OutsideStep
<1>7. ASSUME NEW r \in Requests, ReadClock(r) PROVE Sounded'
  <2>1. req'[r].sound <=> startAt # -1
    BY <1>7 DEF ReadClock, RequestRecords
  <2>2. UNCHANGED <<now, run, hintsUsed, score>> /\ \A q \in Requests \ {r} : req'[q] = req[q]
    BY <1>7, InsideStep DEF ReadClock
  <2> QED
    BY <2>1, <2>2 DEF Phased
<1>8. ASSUME NEW r \in Requests, StoreElapsed(r) PROVE Sounded'
  <2>1. score'.sound = req[r].sound /\ UNCHANGED <<run>> /\ req[r].pc = "read"
    BY <1>8 DEF StoreElapsed
  <2>2. req'[r].pc # "read" /\ \A q \in Requests \ {r} : req'[q] = req[q]
    BY <1>8, InsideStep
  <2> QED
    BY <2>1, <2>2
<1>9. ASSUME NEW r \in Requests, ComputeScore(r) PROVE Sounded'
  <2>1. score'.sound = score.sound /\ UNCHANGED <<run>>
    BY <1>9 DEF ComputeScore, CurrentScore
  <2>2. req'[r].pc # "read" /\ \A q \in Requests \ {r} : req'[q] = req[q]
    BY <1>9, InsideStep
  <2> QED
    BY <2>1, <2>2
<1> QED
  BY <1>1, <1>2, <1>3, <1>4, <1>5, <1>6, <1>7, <1>8, <1>9
  DEF Next, RunStep, RequestStep, Outside

\* A later time and more hints keep the scores in order.
LEMMA LaterScore ==
  ASSUME Records, Ordered, UNCHANGED <<phase, final, due>>,
         score'.elapsed \in Int, score'.hints \in Nat,
         score.hints <= score'.hints, Over => score.elapsed <= score'.elapsed
  PROVE  Ordered'
<1> SUFFICES ASSUME Over PROVE Ordered'
  BY DEF Ordered, Over
<1>0. /\ score.elapsed \in Int /\ score.hints \in Nat /\ final.elapsed \in Int
      /\ final.score \in Int /\ due \in Nat
  BY DEF Records
<1>1. /\ Current(score'.elapsed, score'.hints) <= Current(score.elapsed, score.hints)
      /\ Current(final.elapsed, score'.hints) <= Current(final.elapsed, score.hints)
  <2>1. score.elapsed <= score'.elapsed /\ final.elapsed <= final.elapsed
    BY <1>0
  <2>2. Current(score'.elapsed, score'.hints) <= Current(score.elapsed, score.hints)
    BY <1>0, <2>1, ScoreOrder
  <2>3. Current(final.elapsed, score'.hints) <= Current(final.elapsed, score.hints)
    BY <1>0, <2>1, ScoreOrder
  <2> QED
    BY <2>2, <2>3
<1>2. /\ Current(score'.elapsed, score'.hints) \in Nat /\ Current(score.elapsed, score.hints) \in Nat
      /\ Current(final.elapsed, score'.hints) \in Nat /\ Current(final.elapsed, score.hints) \in Nat
  BY <1>0, ScoreType
<1> QED
  BY <1>0, <1>1, <1>2 DEF Ordered, Over

\* Conclude fixes the score that is due; printResult reads an elapsed time and
\* hints no greater than those that follow.
LEMMA OrderedStep == TypeOK /\ Clocked /\ [Next]_vars => Ordered'
<1> SUFFICES ASSUME TypeOK, Clocked, [Next]_vars PROVE Ordered'
  OBVIOUS
<1>0. Records /\ Phased /\ Measured /\ Sounded /\ Ordered
  BY RecordTypes DEF Clocked
<1>a. \A r \in Requests : req[r].elapsed \in Int /\ req[r].sound \in BOOLEAN
  BY <1>0 DEF Records, RequestRecords
<1> USE <1>0 DEF run, Records
<1>1. CASE Tick \/ Delete \/ UNCHANGED vars
  BY <1>1 DEF Tick, Delete, vars, Ordered, Over
<1>2. CASE Finish \/ StartClock \/ RunFails
  BY <1>2 DEF Finish, StartClock, RunFails, Phased, Ordered, Over
<1>3. CASE StoreStart \/ ClockStarted
  BY <1>3 DEF StoreStart, ClockStarted, Phased, Ordered, Over
<1>4. CASE Poll
  <2>1. /\ score'.elapsed = now - startAt /\ score'.hints = score.hints
        /\ UNCHANGED <<phase, final, due>>
    BY <1>4 DEF Poll
  <2>2. Over => score.elapsed <= now - startAt
    BY DEF Sounded, Measured
  <2> QED
    BY <2>1, <2>2, LaterScore
<1>5. ASSUME NEW solved \in BOOLEAN, Conclude(solved) PROVE Ordered'
  <2>1. /\ score'.elapsed = now - startAt /\ final'.solved = solved
        /\ solved => score'.hints = hintsUsed
        /\ due' = Current(now - startAt, hintsUsed)
        /\ final'.elapsed = final.elapsed /\ final'.score = final.score
    BY <1>5 DEF Conclude
  <2>2. ~(final.elapsed >= 0) /\ ~(final.score >= 0)
    BY <1>5 DEF Conclude, Phased
  <2>3. Current(now - startAt, hintsUsed) \in Nat
    <3>1. now - startAt \in Int
      OBVIOUS
    <3> QED
      BY <3>1, ScoreType
  <2> QED
    BY <2>1, <2>2, <2>3 DEF Ordered
<1>6. CASE PrintElapsed
  <2>1. /\ final'.elapsed = score.elapsed /\ final'.solved = final.solved
        /\ final'.score = final.score /\ UNCHANGED <<score, due>> /\ Over
    BY <1>6 DEF PrintElapsed, Over
  <2>2. ~(final.score >= 0)
    BY <1>6 DEF PrintElapsed, Phased
  <2> QED
    BY <2>1, <2>2 DEF Ordered
<1>7. CASE PrintScore
  <2>1. /\ final'.score = Current(final.elapsed, score.hints) /\ final'.solved = final.solved
        /\ final'.elapsed = final.elapsed /\ UNCHANGED <<score, due>>
    BY <1>7 DEF PrintScore
  <2>2. Over /\ final.elapsed >= 0
    BY <1>7 DEF PrintScore, Phased, Over
  <2>3. Current(final.elapsed, score.hints) \in Nat
    BY ScoreType
  <2> QED
    BY <2>1, <2>2, <2>3 DEF Ordered
<1>8. ASSUME NEW r \in Requests, Outside(r) PROVE Ordered'
  BY <1>8, OutsideStep DEF Ordered, Over
<1>9. ASSUME NEW r \in Requests, ReadClock(r) PROVE Ordered'
  BY <1>9 DEF ReadClock, Ordered, Over
<1>10. ASSUME NEW r \in Requests, StoreElapsed(r) PROVE Ordered'
  <2>1. /\ score'.elapsed = req[r].elapsed /\ score'.hints = score.hints
        /\ UNCHANGED <<phase, final, due>> /\ req[r].pc = "read"
    BY <1>10 DEF StoreElapsed
  <2>2. Over => score.elapsed <= req[r].elapsed
    BY <2>1 DEF Sounded, Measured
  <2> QED
    BY <1>a, <2>1, <2>2, LaterScore
<1>11. ASSUME NEW r \in Requests, ComputeScore(r) PROVE Ordered'
  <2>1. /\ score'.elapsed = score.elapsed /\ score'.hints = hintsUsed
        /\ UNCHANGED <<phase, final, due>>
    BY <1>11 DEF ComputeScore, CurrentScore
  <2>2. score.hints <= hintsUsed
    BY DEF Measured
  <2> QED
    BY <2>1, <2>2, LaterScore
<1> QED
  BY <1>1, <1>2, <1>3, <1>4, <1>5, <1>6, <1>7, <1>8, <1>9, <1>10, <1>11
  DEF Next, RunStep, RequestStep, Outside

LEMMA ClockedStep == TypeOK /\ Clocked /\ [Next]_vars => Clocked'
BY PhasedStep, ExclusiveStep, MeasuredStep, SoundedStep, OrderedStep DEF Clocked

\* CurrentScore charges every hint drawn before it, that of the caller included.
LEMMA ChargeStep ==
  TypeOK /\ Numbered /\ Counted /\ ChargesOwnHint /\ [Next]_vars => ChargesOwnHint'
<1> SUFFICES ASSUME TypeOK, Numbered, Counted, ChargesOwnHint, [Next]_vars
             PROVE  ChargesOwnHint'
  OBVIOUS
<1>a. req \in [Requests -> RequestRecords]
  BY DEF TypeOK, RequestRecords
<1>1. CASE Silent \/ UNCHANGED vars
  BY <1>1, SilentStep DEF ChargesOwnHint, vars
<1>2. ASSUME NEW r \in Requests, \A q \in Requests \ {r} : req'[q] = req[q],
             req'[r].pc # "scored"
      PROVE  ChargesOwnHint'
  BY <1>2 DEF ChargesOwnHint
<1>3. ASSUME NEW r \in Requests, Outside(r) PROVE ChargesOwnHint'
  BY <1>2, <1>3, OutsideStep
<1>4. ASSUME NEW r \in Requests, ReadClock(r) \/ StoreElapsed(r) PROVE ChargesOwnHint'
  BY <1>2, <1>4, InsideStep
<1>5. ASSUME NEW r \in Requests, ComputeScore(r), req[r].kind = "get" PROVE ChargesOwnHint'
  BY <1>2, <1>5, InsideStep
<1>6. ASSUME NEW r \in Requests, ComputeScore(r), req[r].kind # "get" PROVE ChargesOwnHint'
  <2>1. /\ score'.elapsed = score.elapsed /\ score'.hints = hintsUsed
    BY <1>6 DEF ComputeScore, CurrentScore, TypeOK
  <2>2. req' = [req EXCEPT ![r].pc = "scored", ![r].elapsed = score.elapsed,
                           ![r].score = Current(score.elapsed, hintsUsed)]
    BY <1>6, <2>1 DEF ComputeScore
  <2>3. /\ req'[r].elapsed = score.elapsed /\ req'[r].idx = req[r].idx
        /\ req'[r].score = Current(score.elapsed, hintsUsed)
        /\ \A q \in Requests \ {r} : req'[q] = req[q]
    BY <1>a, <2>2 DEF RequestRecords
  <2>4. score.elapsed \in Int /\ hintsUsed \in Nat
    BY DEF TypeOK
  <2>5. req[r].idx \in 0..(hintsUsed - 1)
    BY <1>6 DEF ComputeScore, Numbered, Holds, Counted, HintsInOrder, Drawn
  <2>6. score.elapsed >= 0 => Current(score.elapsed, hintsUsed) <= Current(0, req[r].idx + 1)
    <3> DEFINE h == req[r].idx + 1
               e == score.elapsed
    <3>1. h \in Nat /\ h <= hintsUsed /\ 0 \in Int /\ e \in Int /\ hintsUsed \in Nat
      BY <2>4, <2>5
    <3> HIDE DEF h, e
    <3>2. e >= 0 => Current(e, hintsUsed) <= Current(0, h)
      BY <3>1, ScoreOrder
    <3> QED
      BY <3>2 DEF h, e
  <2> QED
    BY <2>3, <2>6 DEF ChargesOwnHint
<1> QED
  BY <1>1, <1>3, <1>4, <1>5, <1>6 DEF Next, RequestStep, Outside, Silent

\* The invariant holds in every state of every scenario.
THEOREM ScoringInvHolds == Spec => []ScoringInv
<1>1. Init => ScoringInv
  <2> SUFFICES ASSUME Init PROVE ScoringInv
    OBVIOUS
  <2>a. startAt \in -1..MaxTime /\ now \in 0..MaxTime
    BY ScoringAssumption DEF Init
  <2>b. NoReq \in RequestRecords /\ final \in [solved : BOOLEAN, elapsed : Int, score : Int]
    BY DEF Init, NoReq, NoFinal, RequestRecords, Steps
  <2>c. req \in [Requests -> RequestRecords]
    BY <2>b DEF Init
  <2>d. score \in [elapsed : Int, hints : Nat, sound : BOOLEAN] /\ hintsUsed \in Nat /\ due \in Nat
    BY DEF Init
  <2>e. entry \in [hints : Nat, score : Nat, status : {"running", "complete", "aborted"}]
    BY DEF Init
  <2>f. phase \in Phases /\ ctxDone \in BOOLEAN
    BY DEF Init, Phases
  <2>1. TypeOK
    BY <2>a, <2>b, <2>c, <2>d, <2>e, <2>f DEF TypeOK, RequestRecords
  <2>2. Numbered /\ ChargesOwnHint
    BY DEF Init, Numbered, ChargesOwnHint, NoReq, Holds
  <2>3. Clocked
    BY DEF Init, Clocked, Phased, Exclusive, Measured, Sounded, Ordered, Over, Holds, NoFinal, NoReq
  <2>4. Drawn = {} /\ {r \in Drawn : req[r].pc # "answered"} = {}
    BY DEF Init, Drawn, NoReq
  <2>5. {req[r].idx : r \in Drawn} = {} /\ 0..(hintsUsed - 1) = {}
    BY <2>4 DEF Init
  <2>6. Counted
    BY <2>4, <2>5, FS_EmptySet DEF Init, Counted, HintsInOrder, HintsAccounted
  <2> QED
    BY <2>1, <2>2, <2>3, <2>6 DEF ScoringInv
<1>2. ScoringInv /\ [Next]_vars => ScoringInv'
  BY TypeStep, NumberedStep, CountedStep, ClockedStep, ChargeStep DEF ScoringInv
<1> QED
  BY <1>1, <1>2, PTL DEF Spec

\* Runner, entry and requests keep their types; no score is ever negative.
THEOREM TypeCorrect == Spec => []TypeOK
BY ScoringInvHolds, PTL DEF ScoringInv

\* Any number of concurrent hint requests are given the hints in order, each a
\* different one and without a gap.
THEOREM HintsGivenInOrder == Spec => []HintsInOrder
BY ScoringInvHolds, PTL DEF ScoringInv, Counted

\* The counters of the runner and of the entry differ by the requests that are
\* between their critical sections, and by no more.
THEOREM CountersAgree == Spec => []HintsAccounted
BY ScoringInvHolds, PTL DEF ScoringInv, Counted

\* No hint is answered with a score that does not charge it.
THEOREM OwnHintCharged == Spec => []ChargesOwnHint
BY ScoringInvHolds, PTL DEF ScoringInv

\* In a monitored scenario the writers of the Score record move the time forward
\* and the hints up.
LEMMA FallStep ==
  ASSUME ScoringInv, [Next]_vars, phase = "monitor", phase' \in {"monitor", "print"},
         score.sound, score'.sound
  PROVE  Current(score'.elapsed, score'.hints) <= Current(score.elapsed, score.hints)
<1>0. Records /\ Measured
  BY RecordTypes DEF ScoringInv, Clocked
<1>a. \A r \in Requests : req[r].elapsed \in Int /\ req[r].sound \in BOOLEAN
  BY <1>0 DEF Records, RequestRecords
<1> USE <1>0 DEF Records
<1>1. /\ score'.elapsed \in Int /\ score.elapsed <= score'.elapsed
      /\ score'.hints \in Nat /\ score.hints <= score'.hints
  <2>1. CASE \E r \in Requests : StoreElapsed(r)
    <3> PICK r \in Requests : StoreElapsed(r)
      BY <2>1
    <3> QED
      BY <1>a DEF StoreElapsed, Measured
  <2>2. CASE \E r \in Requests : ComputeScore(r)
    BY <2>2 DEF ComputeScore, CurrentScore, Measured
  <2>3. CASE \E r \in Requests : Outside(r) \/ ReadClock(r)
    <3>1. score' = score
      BY <2>3 DEF Outside, Arrive, RequestHintText, StoreHint, AnswerStatus, ReadClock
    <3> QED
      BY <3>1
  <2>4. CASE Tick \/ Delete \/ UNCHANGED vars
    BY <2>4 DEF Tick, Delete, vars
  <2>5. CASE Poll
    BY <2>5 DEF Poll, Measured
  <2>6. ASSUME NEW solved \in BOOLEAN, Conclude(solved)
        PROVE  /\ score'.elapsed \in Int /\ score.elapsed <= score'.elapsed
               /\ score'.hints \in Nat /\ score.hints <= score'.hints
    BY <2>6 DEF Conclude, Measured
  <2>7. CASE RunStep /\ ~Poll /\ ~\E solved \in BOOLEAN : Conclude(solved)
    BY <2>7 DEF RunStep, StartClock, StoreStart, ClockStarted, RunFails, PrintElapsed, PrintScore, Finish
  <2> QED
    BY <2>1, <2>2, <2>3, <2>4, <2>5, <2>6, <2>7 DEF Next, RequestStep, Outside
<1>2. score.elapsed \in Int /\ score.hints \in Nat
  OBVIOUS
<1> QED
  BY <1>1, <1>2, ScoreOrder

\* While a scenario is monitored its score never rises, whatever hint requests,
\* status requests and polls interleave, once what was read before the clock was
\* started has been corrected.
THEOREM ScoreFallsWhileMonitored == Spec => ScoreOnlyFalls
<1>1. ScoringInv /\ [Next]_vars =>
        [phase = "monitor" /\ phase' \in {"monitor", "print"} /\ score.sound /\ score'.sound =>
           Current(score'.elapsed, score'.hints) <= Current(score.elapsed, score.hints)]_vars
  BY FallStep
<1> QED
  BY <1>1, ScoringInvHolds, PTL DEF Spec, ScoreOnlyFalls

\* The printed score is in order with the one due, and a score computed after it
\* has a later time and no fewer hints.
LEMMA FinalStep ==
  ASSUME ScoringInv, ScoringInv', [Next]_vars
  PROVE  /\ final'.solved /\ final'.score >= 0 => final'.score <= due'
         /\ \A r \in Requests :
              final.score >= 0 /\ req[r].pc = "stored" /\ req'[r].pc # "stored"
                => Current(score'.elapsed, score'.hints) <= final.score
<1>0. Records /\ Phased /\ Measured /\ Ordered /\ TypeOK
  BY RecordTypes DEF ScoringInv, Clocked
<1>1. final'.solved /\ final'.score >= 0 => final'.score <= due'
  BY DEF ScoringInv, Clocked, Phased, Ordered, Over
<1>2. ASSUME NEW r \in Requests, final.score >= 0, req[r].pc = "stored", req'[r].pc # "stored"
      PROVE  Current(score'.elapsed, score'.hints) <= final.score
  <2>1. ComputeScore(r)
    <3>1. ~Silent /\ ~UNCHANGED vars
      BY <1>0, <1>2, SilentStep DEF vars
    <3>2. \E q \in Requests : RequestStep(q)
      BY <3>1 DEF Next, Silent
    <3> PICK q \in Requests : RequestStep(q)
      BY <3>2
    <3>3. \A p \in Requests \ {q} : req'[p] = req[p]
      BY <1>0, InsideStep, OutsideStep DEF RequestStep, Outside
    <3>4. q = r
      BY <1>2, <3>3
    <3> QED
      BY <1>2, <3>4 DEF RequestStep, Arrive, RequestHintText, ReadClock, StoreElapsed, StoreHint,
         AnswerStatus
  <2>2. score'.elapsed = score.elapsed /\ score'.hints = hintsUsed
    BY <1>0, <2>1 DEF ComputeScore, CurrentScore, Records
  <2>3. /\ final.elapsed <= score.elapsed /\ score.hints <= hintsUsed
        /\ Current(final.elapsed, score.hints) <= final.score
    BY <1>0, <1>2 DEF Phased, Measured, Ordered, Over
  <2>4. /\ score.elapsed \in Int /\ score.hints \in Nat /\ final.elapsed \in Int
        /\ final.score \in Int /\ hintsUsed \in Nat
    BY <1>0 DEF Records
  <2>5. /\ Current(score.elapsed, hintsUsed) \in Nat /\ Current(final.elapsed, score.hints) \in Nat
        /\ Current(score.elapsed, hintsUsed) <= Current(final.elapsed, score.hints)
    BY <2>3, <2>4, ScoreOrder
  <2> QED
    BY <2>2, <2>3, <2>4, <2>5
<1> QED
  BY <1>1, <1>2

\* The printed result of a solved scenario charges every hint drawn before the
\* solution, and no score computed later is better than the printed one.
THEOREM PrintedScoreStands == Spec => FinalScoreStands
<1>1. ScoringInv /\ ScoringInv' /\ [Next]_vars =>
        [/\ final'.solved /\ final'.score >= 0 => final'.score <= due'
         /\ \A r \in Requests :
              final.score >= 0 /\ req[r].pc = "stored" /\ req'[r].pc # "stored"
                => Current(score'.elapsed, score'.hints) <= final.score]_vars
  BY FinalStep
<1> QED
  BY <1>1, ScoringInvHolds, PTL DEF Spec, FinalScoreStands
=============================================================================
