------------------------------ MODULE Placement ------------------------------
(***************************************************************************)
(* What running unit tests in parallel promises (the abstract              *)
(* specification of UnitTests): a test is started once, on as many idle    *)
(* ranks as it asks for, and a rank runs one test at a time.               *)
(***************************************************************************)
EXTENDS Integers, FiniteSets

CONSTANTS
  Ranks,
  Tests,
  Cores,  \* Cores[t]: how many ranks test t asks for
  Idle    \* not a test

VARIABLES
  runs,   \* runs[r]: the test rank r runs, or Idle
  begun   \* tests that have been started

pvars == <<runs, begun>>

PInit == runs = [r \in Ranks |-> Idle] /\ begun = {}

StartOn(t, group) ==
  /\ t \notin begun /\ begun' = begun \cup {t}
  /\ Cardinality(group) = Cores[t] /\ group # {}
  /\ \A r \in group : runs[r] = Idle
  /\ runs' = [r \in Ranks |-> IF r \in group THEN t ELSE runs[r]]

Stop(r) ==
  /\ runs[r] # Idle
  /\ runs' = [runs EXCEPT ![r] = Idle]
  /\ UNCHANGED begun

PNext == (\E t \in Tests, group \in SUBSET Ranks : StartOn(t, group)) \/ \E r \in Ranks : Stop(r)

PSpec == PInit /\ [][PNext]_pvars
=============================================================================
