-------------------------- MODULE SelfTestSequence --------------------------
(***************************************************************************)
(* What the self-test engine promises, whatever the state machines and the *)
(* threads below do: in each run the tests go in one fixed order, the next *)
(* begins only on a completion, and a run is reported complete once.       *)
(*                                                                         *)
(* A completion does not say which run it belongs to.  One that is still   *)
(* on its way when the next run begins, because a cancel ended the run it  *)
(* belongs to, passes for the first test of that next run: such a run is   *)
(* not its own.  A run that is its own reports all of its tests as passed  *)
(* since it began, and every run its last one.                             *)
(***************************************************************************)
VARIABLES
  phase,    \* "idle", or the test the current run is at
  passed,   \* the tests that passed since the run began
  reported, \* the run has been reported complete
  own,      \* no completion was on its way when the run began
  answer    \* a completion is on its way

sequenceVars == <<phase, passed, reported, own, answer>>

Tests == {"Centrifuge", "Pressure"}

Init ==
  /\ phase = "idle"
  /\ passed = {}
  /\ reported = FALSE
  /\ own = TRUE
  /\ answer = FALSE

Begin ==
  /\ phase = "idle"
  /\ phase' = "Centrifuge"
  /\ passed' = {}
  /\ reported' = FALSE
  /\ own' = ~answer
  /\ UNCHANGED answer

\* A test that a cancelled run left behind still ends, and its completion is sent like
\* any other.  A program that ends refuses it.
Pass(test) ==
  /\ test \notin passed
  /\ phase = test \/ (phase = "idle" /\ ~reported)
  /\ passed' = passed \cup {test}
  /\ answer' \in {answer, TRUE}
  /\ UNCHANGED <<phase, reported, own>>

Deliver ==
  /\ answer
  /\ answer' = FALSE
  /\ UNCHANGED <<phase, passed, reported, own>>

Advance ==
  /\ phase = "Centrifuge"
  /\ ~answer
  /\ own => "Centrifuge" \in passed
  /\ phase' = "Pressure"
  /\ UNCHANGED <<passed, reported, own, answer>>

Report ==
  /\ phase = "Pressure"
  /\ ~answer
  /\ "Pressure" \in passed
  /\ own => passed = Tests
  /\ phase' = "idle"
  /\ reported' = TRUE
  /\ UNCHANGED <<passed, own, answer>>

Cancel ==
  /\ phase # "idle"
  /\ phase' = "idle"
  /\ UNCHANGED <<passed, reported, own, answer>>

Next ==
  \/ Begin
  \/ \E test \in Tests : Pass(test)
  \/ Deliver
  \/ Advance
  \/ Report
  \/ Cancel

Spec == Init /\ [][Next]_sequenceVars
=============================================================================
