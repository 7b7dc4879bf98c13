--------------------------- MODULE DecisionRecord ---------------------------
(***************************************************************************)
(* What the experiment component promises, with every handler left out:    *)
(* an experiment is opened on a block, may run once, and ends at most once *)
(* in a verdict.  Giving the verdict, closing the experiment and showing   *)
(* the winner are one step.  Apart from that a block changes only when its *)
(* author saves a version of his own, or one that won an experiment.       *)
(***************************************************************************)
CONSTANTS Block, Experiment, Version, NoVersion

VARIABLES
  shown,     \* the version each block shows
  phase,     \* "none", "open", "running" or "closed"
  home,      \* the block an experiment is about
  arms,      \* the versions it tries
  outcome    \* its verdict: "none", "no_improvement" or "winner"

vars == <<shown, phase, home, arms, outcome>>

Init ==
  /\ shown \in [Block -> Version]
  /\ phase = [e \in Experiment |-> "none"]
  /\ home \in [Experiment -> Block]
  /\ arms = [e \in Experiment |-> {}]
  /\ outcome = [e \in Experiment |-> "none"]

\* An experiment tries versions that neither a block nor another experiment uses.
Open(e, b, variants) ==
  /\ phase[e] = "none"
  /\ \A c \in Block : shown[c] \notin variants
  /\ \A f \in Experiment : arms[f] \cap variants = {}
  /\ phase' = [phase EXCEPT ![e] = "open"]
  /\ home' = [home EXCEPT ![e] = b]
  /\ arms' = [arms EXCEPT ![e] = variants]
  /\ UNCHANGED <<shown, outcome>>

Run(e) ==
  /\ phase[e] = "open"
  /\ \A f \in Experiment : phase[f] = "running" => home[f] # home[e]
  /\ phase' = [phase EXCEPT ![e] = "running"]
  /\ UNCHANGED <<shown, home, arms, outcome>>

\* Given up without a verdict; also when its document is deleted.
Close(e) ==
  /\ phase[e] # "none"
  /\ phase' = [phase EXCEPT ![e] = "closed"]
  /\ UNCHANGED <<shown, home, arms, outcome>>

CloseAll(E) ==
  /\ phase' = [e \in Experiment |->
                 IF e \in E /\ phase[e] # "none" THEN "closed" ELSE phase[e]]
  /\ UNCHANGED <<shown, home, arms, outcome>>

Conclude(e, v) ==
  /\ phase[e] = "running"
  /\ v \in arms[e] \cup {NoVersion}
  /\ phase' = [phase EXCEPT ![e] = "closed"]
  /\ outcome' = [outcome EXCEPT ![e] = IF v = NoVersion THEN "no_improvement" ELSE "winner"]
  /\ shown' = IF v = NoVersion THEN shown ELSE [shown EXCEPT ![home[e]] = v]
  /\ UNCHANGED <<home, arms>>

Edit(b, v) ==
  /\ \A e \in Experiment : v \in arms[e] => outcome[e] = "winner"
  /\ shown' = [shown EXCEPT ![b] = v]
  /\ UNCHANGED <<phase, home, arms, outcome>>

Next ==
  \/ \E e \in Experiment, b \in Block, variants \in SUBSET Version : Open(e, b, variants)
  \/ \E e \in Experiment : Run(e) \/ Close(e)
  \/ \E E \in SUBSET Experiment : CloseAll(E)
  \/ \E e \in Experiment, v \in Version \cup {NoVersion} : Conclude(e, v)
  \/ \E b \in Block, v \in Version : Edit(b, v)

Spec == Init /\ [][Next]_vars
=============================================================================
