------------------------------ MODULE Scoring -------------------------------
(***************************************************************************)
(* Score and hints of one scenario.  They are kept twice: in the Runner,   *)
(* under Runner.mu (hintsUsed, and the Score record with the elapsed time  *)
(* and the number of hints charged), and in the ScenarioEntry, under       *)
(* Server.mu (HintsUsed, Score, Status).  Hint requests go from one to the *)
(* other in three critical sections; the polling goroutine, the end of     *)
(* Runner.Run and status requests work on the same fields meanwhile.       *)
(*                                                                         *)
(* Runner.Run starts the clock, and prints the result, without the lock.   *)
(* So CurrentScore is not atomic: it reads the clock, stores the elapsed   *)
(* time and computes the score in three steps, and the unlocked steps of   *)
(* Run may fall between them.  While startAt is being stored, a reader may *)
(* see words of two time.Time values: it measures from the start of the    *)
(* process, from the zero time, or from a time far ahead.                  *)
(***************************************************************************)
EXTENDS Integers, FiniteSets

CONSTANTS
  Requests,      \* the HTTP requests
  Base,          \* Scoring.Base
  HintPenalty,   \* Scoring.HintPenalty
  PenaltyNum,    \* Scoring.TimePenaltyPerSecond, as a fraction
  PenaltyDen,
  Forever,       \* the longest time.Duration, time.Since of the zero time
  MaxTime        \* bound of the clock

ASSUME ScoringAssumption ==
  /\ Base \in Nat /\ HintPenalty \in Nat
  /\ PenaltyNum \in Nat /\ PenaltyDen \in Nat \ {0}
  /\ MaxTime \in Nat /\ Forever \in Nat /\ Forever > MaxTime

VARIABLES
  now,        \* the clock
  phase,      \* how far Runner.Run has come
  ctxDone,    \* the context of the scenario is done
  startAt,    \* Runner.startAt; -1 is the zero time
  hintsUsed,  \* Runner.hintsUsed
  score,      \* Runner.score: its Elapsed and HintsUsed; and, a history field,
              \* whether Elapsed was measured from the startAt that is set
  entry,      \* the ScenarioEntry: its HintsUsed, Score and Status
  req,        \* req[r]: step, kind and local variables of request r
  final,      \* printResult: whether solved, the Elapsed it has read (-1 before),
              \* the score it prints
  due         \* history: the score due when the scenario was solved or aborted

run == <<phase, ctxDone, startAt, final, due>>
vars == <<now, phase, ctxDone, startAt, hintsUsed, score, entry, req, final, due>>

NoReq == [pc |-> "idle", kind |-> "none", idx |-> -1, elapsed |-> 0, sound |-> FALSE,
          score |-> 0]
Answered(idx) == [NoReq EXCEPT !.pc = "answered", !.idx = idx]
NoFinal == [solved |-> FALSE, elapsed |-> -1, score |-> -1]

Routes == {"hint", "vm", "get", "list"}
Kinds == {"hint", "get", "list"}
Steps == {"idle", "found", "hinted", "read", "stored", "scored", "refreshed", "answered"}
Phases == {"boot", "setting", "clearing", "monitor", "print", "printing", "drain", "ended"}

\* Types; a score is never negative.
TypeOK ==
  /\ now \in 0..MaxTime
  /\ phase \in Phases
  /\ ctxDone \in BOOLEAN
  /\ startAt \in -1..MaxTime
  /\ hintsUsed \in Nat
  /\ score \in [elapsed : Int, hints : Nat, sound : BOOLEAN]
  /\ entry \in [hints : Nat, score : Nat, status : {"running", "complete", "aborted"}]
  /\ req \in [Requests -> [pc : Steps, kind : Kinds \cup {"none"}, idx : Int,
                           elapsed : Int, sound : BOOLEAN, score : Nat]]
  /\ final \in [solved : BOOLEAN, elapsed : Int, score : Int]
  /\ due \in Nat

Init ==
  /\ now = 0 /\ phase = "boot" /\ ctxDone = FALSE /\ startAt = -1
  /\ hintsUsed = 0
  /\ score = [elapsed |-> 0, hints |-> 0, sound |-> FALSE]
  /\ entry = [hints |-> 0, score |-> 0, status |-> "running"]
  /\ req = [r \in Requests |-> NoReq]
  /\ final = NoFinal
  /\ due = 0

-----------------------------------------------------------------------------
(***************************************************************************)
(* The score.                                                              *)
(***************************************************************************)

\* int(), which cuts off towards zero, of the elapsed time by the penalty.
TimePenalty(elapsed) ==
  IF elapsed >= 0 THEN (elapsed * PenaltyNum) \div PenaltyDen
                  ELSE -(((-elapsed) * PenaltyNum) \div PenaltyDen)

\* Score.Current.
Current(elapsed, hints) ==
  LET result == Base - TimePenalty(elapsed) - hints * HintPenalty
  IN IF result < 0 THEN 0 ELSE result

\* time.Since(startAt), which may be read while Runner.Run stores it.
Since ==
  IF phase = "setting" THEN {0, now, Forever, -Forever}
  ELSE IF startAt = -1 THEN {Forever} ELSE {now - startAt}

(***************************************************************************)
(* The locks.  A request holds Runner.mu inside CurrentScore; getScenario  *)
(* calls it with Server.mu held.  The other critical sections are one step *)
(* each.                                                                   *)
(***************************************************************************)
Holds(r) == req[r].pc \in {"read", "stored"}
RunnerFree == \A r \in Requests : ~Holds(r)
ServerFree == \A r \in Requests : ~(Holds(r) /\ req[r].kind = "get")

-----------------------------------------------------------------------------
(***************************************************************************)
(* Runner.Run.                                                             *)
(***************************************************************************)

Tick ==
  /\ now < MaxTime
  /\ now' = now + 1
  /\ UNCHANGED <<run, hintsUsed, score, entry, req>>

\* The VMs are up and provisioned: startAt is being stored, without the lock.
StartClock ==
  /\ phase = "boot"
  /\ phase' = "setting"
  /\ UNCHANGED <<now, ctxDone, startAt, final, due, hintsUsed, score, entry, req>>

StoreStart ==
  /\ phase = "setting"
  /\ phase' = "clearing"
  /\ startAt' = now
  /\ UNCHANGED <<now, ctxDone, final, due, hintsUsed, score, entry, req>>

\* Elapsed is set to zero, without the lock too.
ClockStarted ==
  /\ phase = "clearing"
  /\ phase' = "monitor"
  /\ score' = [score EXCEPT !.elapsed = 0, !.sound = TRUE]
  /\ UNCHANGED <<now, ctxDone, startAt, final, due, hintsUsed, entry, req>>

\* Run returns an error before any VM was launched.
RunFails ==
  /\ phase = "boot"
  /\ phase' = "drain"
  /\ UNCHANGED <<now, ctxDone, startAt, final, due, hintsUsed, score, entry, req>>

\* The polling goroutine is there once the clock runs, and until it has found
\* all objectives met; when the context is done it may poll once more, also
\* after Run has returned.
Polling == startAt # -1 /\ phase # "clearing" /\ ~final.solved

\* Plausible slip: the time since the last poll.
PollRestart ==
  /\ Polling /\ RunnerFree
  /\ score' = [score EXCEPT !.elapsed = now - startAt - @, !.sound = TRUE]
  /\ UNCHANGED <<now, run, hintsUsed, entry, req>>

\* It updates the elapsed time; the objectives fail.
Poll ==
  /\ Polling /\ RunnerFree
  /\ score' = [score EXCEPT !.elapsed = now - startAt, !.sound = TRUE]
  /\ UNCHANGED <<now, run, hintsUsed, entry, req>>

\* Plausible slip: the hints are charged in neither branch.
ConcludeUncharged(solved) ==
  /\ phase = "monitor" /\ RunnerFree
  /\ solved \/ ctxDone
  /\ phase' = "print"
  /\ score' = [score EXCEPT !.elapsed = now - startAt, !.sound = TRUE]
  /\ final' = [final EXCEPT !.solved = solved]
  /\ due' = Current(now - startAt, hintsUsed)
  /\ UNCHANGED <<now, ctxDone, startAt, hintsUsed, entry, req>>

\* The select of Run: all objectives passed, or the context is done.  Only the
\* first branch charges the hints.
Conclude(solved) ==
  /\ phase = "monitor" /\ RunnerFree
  /\ solved \/ ctxDone
  /\ phase' = "print"
  /\ score' = [elapsed |-> now - startAt, sound |-> TRUE,
               hints |-> IF solved THEN hintsUsed ELSE score.hints]
  /\ final' = [final EXCEPT !.solved = solved]
  /\ due' = Current(now - startAt, hintsUsed)
  /\ UNCHANGED <<now, ctxDone, startAt, hintsUsed, entry, req>>

\* printResult, which holds no lock: Score.Current reads the elapsed time, then
\* the hints charged.
PrintElapsed ==
  /\ phase = "print"
  /\ phase' = "printing"
  /\ final' = [final EXCEPT !.elapsed = score.elapsed]
  /\ UNCHANGED <<now, ctxDone, startAt, due, hintsUsed, score, entry, req>>

PrintScore ==
  /\ phase = "printing"
  /\ phase' = "drain"
  /\ final' = [final EXCEPT !.score = Current(final.elapsed, score.hints)]
  /\ UNCHANGED <<now, ctxDone, startAt, due, hintsUsed, score, entry, req>>

\* Run has returned; the goroutine of createScenario sets the status.
Finish ==
  /\ phase = "drain" /\ ServerFree
  /\ phase' = "ended"
  /\ entry' = [entry EXCEPT !.status = IF @ # "running" THEN @
                                       ELSE IF ctxDone THEN "aborted" ELSE "complete"]
  /\ UNCHANGED <<now, ctxDone, startAt, final, due, hintsUsed, score, req>>

\* DELETE of the scenario.
Delete ==
  /\ ServerFree
  /\ ctxDone' = TRUE
  /\ entry' = [entry EXCEPT !.status = "aborted"]
  /\ UNCHANGED <<now, phase, startAt, final, due, hintsUsed, score, req>>

-----------------------------------------------------------------------------
(***************************************************************************)
(* The requests.                                                           *)
(***************************************************************************)

\* The handler finds the entry.  POST vms/{id}/hint looks for a scenario that
\* is running, and goes on as the other hint request does; the others take the
\* entry whatever its status is.
Arrive(r, route) ==
  /\ req[r].pc = "idle" /\ ServerFree
  /\ route = "vm" => entry.status = "running"
  /\ req' = [req EXCEPT ![r].pc = "found",
                        ![r].kind = IF route = "vm" THEN "hint" ELSE route]
  /\ UNCHANGED <<now, run, hintsUsed, score, entry>>

\* Plausible slip: the next hint is the one the entry has counted up to.
RequestHintTextByEntry(r) ==
  /\ req[r].pc = "found" /\ req[r].kind = "hint" /\ RunnerFree
  /\ req' = [req EXCEPT ![r].pc = "hinted", ![r].idx = entry.hints]
  /\ hintsUsed' = hintsUsed + 1
  /\ UNCHANGED <<now, run, score, entry>>

\* RequestHintText: the hint at the index, or an empty one if they are used up;
\* either is charged.
RequestHintText(r) ==
  /\ req[r].pc = "found" /\ req[r].kind = "hint" /\ RunnerFree
  /\ req' = [req EXCEPT ![r].pc = "hinted", ![r].idx = hintsUsed]
  /\ hintsUsed' = hintsUsed + 1
  /\ UNCHANGED <<now, run, score, entry>>

\* CurrentScore, called by the hint handlers and, with Server.mu held, by
\* getScenario: it takes Runner.mu and reads the clock and startAt, ...
ReadClock(r) ==
  /\ req[r].pc = "hinted" \/ (req[r].pc = "found" /\ req[r].kind = "get")
  /\ RunnerFree
  /\ \E e \in Since :
       req' = [req EXCEPT ![r].pc = "read", ![r].elapsed = e, ![r].sound = (startAt # -1)]
  /\ UNCHANGED <<now, run, hintsUsed, score, entry>>

\* ... stores the elapsed time, ...
StoreElapsed(r) ==
  /\ req[r].pc = "read"
  /\ score' = [score EXCEPT !.elapsed = req[r].elapsed, !.sound = req[r].sound]
  /\ req' = [req EXCEPT ![r].pc = "stored", ![r].elapsed = 0, ![r].sound = FALSE]
  /\ UNCHANGED <<now, run, hintsUsed, entry>>

\* Plausible slip: the hints charged are those of the last update.
CurrentScoreStale == score

\* ... charges the hints ...
CurrentScore == [score EXCEPT !.hints = hintsUsed]

\* ... and computes the score: the hint handlers have yet to store it in the
\* entry, getScenario does so before it unlocks.
ComputeScore(r) ==
  /\ req[r].pc = "stored"
  /\ score' = CurrentScore
  /\ LET s == Current(score'.elapsed, score'.hints) IN
       IF req[r].kind = "get"
         THEN /\ entry' = [entry EXCEPT !.score = s]
              /\ req' = [req EXCEPT ![r].pc = "refreshed"]
         ELSE /\ req' = [req EXCEPT ![r].pc = "scored", ![r].elapsed = score.elapsed,
                                    ![r].score = s]
              /\ entry' = entry
  /\ UNCHANGED <<now, run, hintsUsed>>

\* Plausible slip: the entry counts up to the hint it hands out.
StoreHintIndex(r) ==
  /\ req[r].pc = "scored" /\ ServerFree
  /\ entry' = [entry EXCEPT !.hints = req[r].idx + 1, !.score = req[r].score]
  /\ req' = [req EXCEPT ![r] = Answered(@.idx)]
  /\ UNCHANGED <<now, run, hintsUsed, score>>

\* The hint handlers update the entry and answer.
StoreHint(r) ==
  /\ req[r].pc = "scored" /\ ServerFree
  /\ entry' = [entry EXCEPT !.hints = @ + 1, !.score = req[r].score]
  /\ req' = [req EXCEPT ![r] = Answered(@.idx)]
  /\ UNCHANGED <<now, run, hintsUsed, score>>

\* getScenario and listScenarios encode the entry without any lock: they answer
\* with what it holds by then.
AnswerStatus(r) ==
  /\ req[r].pc = "refreshed" \/ (req[r].pc = "found" /\ req[r].kind = "list")
  /\ req' = [req EXCEPT ![r] = Answered(@.idx)]
  /\ UNCHANGED <<now, run, hintsUsed, score, entry>>

-----------------------------------------------------------------------------
RunStep ==
  \/ StartClock \/ StoreStart \/ ClockStarted \/ RunFails \/ Poll
  \/ \E solved \in BOOLEAN : Conclude(solved)
  \/ PrintElapsed \/ PrintScore \/ Finish

RequestStep(r) ==
  \/ \E route \in Routes : Arrive(r, route)
  \/ RequestHintText(r) \/ ReadClock(r) \/ StoreElapsed(r) \/ ComputeScore(r)
  \/ StoreHint(r) \/ AnswerStatus(r)

Next == Tick \/ Delete \/ RunStep \/ \E r \in Requests : RequestStep(r)

Spec == Init /\ [][Next]_vars

-----------------------------------------------------------------------------
(***************************************************************************)
(* Properties that hold.                                                   *)
(***************************************************************************)

\* The requests that were given a hint.
Drawn == {r \in Requests : req[r].idx >= 0}

\* However hint requests interleave, RequestHintText gives every one of them a
\* hint of its own, in order and without a gap.
HintsInOrder ==
  /\ {req[r].idx : r \in Drawn} = 0..(hintsUsed - 1)
  /\ Cardinality(Drawn) = hintsUsed

\* The two hint counters agree but for the requests between them: when no
\* request is under way the entry shows the number of hints that are charged.
HintsAccounted ==
  entry.hints + Cardinality({r \in Drawn : req[r].pc # "answered"}) = hintsUsed

\* The score a hint request answers with has the price of its own hint, and of
\* all before it, deducted, unless it was computed in the moment startAt is set.
ChargesOwnHint ==
  \A r \in Requests : req[r].pc = "scored" /\ req[r].elapsed >= 0 =>
    req[r].score <= Current(0, req[r].idx + 1)

\* While the scenario is monitored its score never rises, whoever updates it,
\* but for the correction of an elapsed time that CurrentScore measured before
\* the clock was started, and stored after that.
ScoreOnlyFalls ==
  [][phase = "monitor" /\ phase' \in {"monitor", "print"} /\ score.sound /\ score'.sound =>
       Current(score'.elapsed, score'.hints) <= Current(score.elapsed, score.hints)]_vars

\* The final score stands: although it is read without the lock, the score
\* printed for a solved scenario is never above the one due at its solution,
\* which charges every hint drawn, also those whose request is under way; and
\* no score that CurrentScore computes later is above the one that was printed.
FinalScoreStands ==
  [][/\ final'.solved /\ final'.score >= 0 => final'.score <= due'
     /\ \A r \in Requests :
          final.score >= 0 /\ req[r].pc = "stored" /\ req'[r].pc # "stored"
            => Current(score'.elapsed, score'.hints) <= final.score]_vars
=============================================================================
