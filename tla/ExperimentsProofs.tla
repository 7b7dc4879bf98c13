------------------------- MODULE ExperimentsProofs -------------------------
(***************************************************************************)
(* Theorems about Experiments, for any number of documents, blocks,        *)
(* experiments, versions, handlers and failures.                           *)
(***************************************************************************)
EXTENDS Experiments, SequenceTheorems, TLAPS

-----------------------------------------------------------------------------
(***************************************************************************)
(* The steps, sorted by what they do to the tables.                        *)
(***************************************************************************)

\* A handler is given the experiment it loaded and found running.
Loads ==
  /\ \E h \in Handler, o \in Op, e \in Experiment :
       Running(e) /\ tasks' = tasks \cup {LoadTask(h, o, e)}
  /\ todo' \subseteq todo
  /\ UNCHANGED <<blockVars, rowVars, failures>>

\* Handlers move on or die; the tables stay as they are.
Quiet ==
  /\ tasks' \subseteq tasks
  /\ todo' \subseteq Experiment
  /\ failures' = failures \/ (failures < MaxFailures /\ failures' = failures + 1)
  /\ UNCHANGED <<blockVars, rowVars>>

\* Every step is one of ten kinds, seven of them operations on the tables.
LEMMA StepCases ==
  ASSUME TypeOK, [Next]_vars
  PROVE  \/ \E e \in Experiment, b \in Block, variants \in SUBSET Fresh :
              CreateExperiment(e, b, variants)
         \/ \E e \in Experiment : StartExperiment(e)
         \/ \E e \in Experiment : StopExperiment(e)
         \/ \E e \in Experiment : PassDeadline(e)
         \/ \E b \in Block : \E v \in Fresh \cup Shown(b) : SaveBlock(b, v)
         \/ \E d \in Document : DeleteDocument(d)
         \/ \E t \in tasks : Conclude(t)
         \/ \E t \in tasks : Analyse(t)
         \/ Loads
         \/ Quiet
<1>1. CASE WorkerStep
  <2>1. CASE Tick
    BY <2>1 DEF Tick, Quiet, TypeOK
  <2>2. ASSUME NEW e \in Experiment, Visit(e) PROVE Loads \/ Quiet
    <3>1. CASE Running(e)
      BY <2>2, <3>1 DEF Visit, Loads, Handler, Op
    <3>2. CASE ~Running(e)
      BY <2>2, <3>2 DEF Visit, Quiet, TypeOK
    <3> QED BY <3>1, <3>2
  <2> QED BY <1>1, <2>1, <2>2 DEF WorkerStep
<1>2. CASE RequestStep
  <2>1. ASSUME NEW r \in Request, NEW o \in Op, NEW e \in Experiment, LoadRequest(r, o, e)
        PROVE Loads
    BY <2>1 DEF LoadRequest, LoadExperiment, Loads, Handler
  <2>2. ASSUME NEW t \in tasks, Abandon(t) PROVE Quiet
    BY <2>2 DEF Abandon, Finish, Quiet, TypeOK
  <2> QED BY <1>2, <2>1, <2>2 DEF RequestStep
<1>3. CASE AdminStep
  BY <1>3 DEF AdminStep
<1>4. ASSUME NEW t \in tasks, SkipFailed(t) PROVE Quiet
  BY <1>4 DEF SkipFailed, Finish, Fail, Quiet, TypeOK
<1>5. CASE Restart
  BY <1>5 DEF Restart, Fail, Quiet, TypeOK
<1>6. CASE UNCHANGED vars
  BY <1>6 DEF vars, blockVars, rowVars, handlerVars, Quiet, TypeOK
<1> QED BY <1>1, <1>2, <1>3, <1>4, <1>5, <1>6 DEF Next, ExperimentNext

-----------------------------------------------------------------------------
(***************************************************************************)
(* Types.                                                                  *)
(***************************************************************************)

LEMMA TypeInit == Init => TypeOK
  BY FailureAssumption DEF Init, TypeOK, Status, Decision, NullableVersion

\* Versions that nobody uses yet are versions.
LEMMA FreshVersions == Fresh \subseteq Version
  BY DEF Fresh

LEMMA RowType ==
  ASSUME NEW t \in Task
  PROVE  DecisionRow(t) \in Row
  BY DEF Task, DecisionRow, Row

LEMMA TypeStep == TypeOK /\ [Next]_vars => TypeOK'
<1> SUFFICES ASSUME TypeOK, [Next]_vars PROVE TypeOK'
  OBVIOUS
<1> USE DEF TypeOK, blockVars, rowVars, handlerVars
<1>1. ASSUME NEW e \in Experiment, NEW b \in Block, NEW variants \in SUBSET Fresh,
             CreateExperiment(e, b, variants)
      PROVE TypeOK'
  BY <1>1, FreshVersions DEF CreateExperiment, Status, NullableVersion
<1>2. ASSUME NEW e \in Experiment, StartExperiment(e) PROVE TypeOK'
  BY <1>2 DEF StartExperiment, Status, Decision, NullableVersion
<1>3. ASSUME NEW e \in Experiment, StopExperiment(e) PROVE TypeOK'
  BY <1>3 DEF StopExperiment, Status, Decision
<1>4. ASSUME NEW e \in Experiment, PassDeadline(e) PROVE TypeOK'
  BY <1>4 DEF PassDeadline
<1>5. ASSUME NEW b \in Block, NEW v \in Fresh \cup Shown(b), SaveBlock(b, v) PROVE TypeOK'
  BY <1>5, FreshVersions DEF SaveBlock, Shown
<1>6. ASSUME NEW d \in Document, DeleteDocument(d) PROVE TypeOK'
  BY <1>6 DEF DeleteDocument
<1>7. ASSUME NEW t \in tasks, Conclude(t) PROVE TypeOK'
  <2> t \in Task
    OBVIOUS
  <2> DEFINE e == t.exp
  <2>1. e \in Experiment /\ t.verdict \in NullableVersion
    BY DEF Task
  <2>2. tasks' \subseteq Task
    BY <1>7 DEF Conclude, Finish
  <2>3. CASE Latch(e)
    <3>1. DecisionRow(t) \in Row
      BY RowType
    <3>2. log' \in [Experiment -> Seq(Row)]
      <4>1. log' = [log EXCEPT ![e] = Append(@, DecisionRow(t))]
        BY <1>7, <2>3 DEF Conclude
      <4>2. log[e] \in Seq(Row)
        BY <2>1
      <4>3. Append(log[e], DecisionRow(t)) \in Seq(Row)
        BY <3>1, <4>2, AppendProperties
      <4> HIDE DEF e
      <4> QED BY <2>1, <4>1, <4>3
    <3>3. status' \in [Experiment -> Status]
      BY <1>7, <2>1, <2>3 DEF Conclude, Status
    <3>4. decision' \in [Experiment -> Decision]
      BY <1>7, <2>1, <2>3, <3>1 DEF Conclude, Decision, Row
    <3>5. winner' \in [Experiment -> NullableVersion]
      BY <1>7, <2>1, <2>3 DEF Conclude
    <3>6. current' \in [Block -> Version]
      BY <1>7, <2>1, <2>3 DEF Conclude, Repointed, NullableVersion
    <3> QED BY <1>7, <2>2, <3>2, <3>3, <3>4, <3>5, <3>6 DEF Conclude
  <2>4. CASE ~Latch(e)
    BY <1>7, <2>2, <2>4 DEF Conclude
  <2> QED BY <2>3, <2>4
<1>8. ASSUME NEW t \in tasks, Analyse(t) PROVE TypeOK'
  <2>1. t \in Task /\ arms[t.exp] \subseteq Version
    BY DEF Task
  <2>2. tasks' \subseteq Task
    <3>1. ASSUME NEW v \in Promotable(t),
                 tasks' = (tasks \ {t}) \cup {[t EXCEPT !.step = "analysed", !.verdict = v]}
          PROVE tasks' \subseteq Task
      <4>1. v \in NullableVersion
        BY <2>1 DEF Promotable, NullableVersion
      <4> QED BY <2>1, <3>1, <4>1 DEF Task
    <3>2. CASE tasks' = (tasks \ {t}) \cup {[t EXCEPT !.step = "analysed"]}
      BY <2>1, <3>2 DEF Task
    <3>3. CASE tasks' = tasks \ {t}
      BY <3>3
    <3> QED BY <1>8, <3>1, <3>2, <3>3 DEF Analyse, Advance, Finish
  <2> QED BY <1>8, <2>2 DEF Analyse
<1>9. CASE Loads
  BY <1>9 DEF Loads, LoadTask, Task, NullableVersion
<1>10. CASE Quiet
  BY <1>10, FailureAssumption DEF Quiet
<1> QED BY StepCases, <1>1, <1>2, <1>3, <1>4, <1>5, <1>6, <1>7, <1>8, <1>9, <1>10

\* The tables and the handlers' memory keep their types.
THEOREM TypeCorrect == Spec => []TypeOK
<1>1. Init => TypeOK
  BY TypeInit
<1>2. TypeOK /\ [Next]_vars => TypeOK'
  BY TypeStep
<1> QED BY <1>1, <1>2, PTL DEF Spec

-----------------------------------------------------------------------------
(***************************************************************************)
(* The decision log.  The latch is all it takes: while an experiment runs  *)
(* its log is empty, so the row that Conclude appends is the only one.     *)
(***************************************************************************)

\* A row that names a version is that of a winner.
RowsAreSound ==
  \A e \in Experiment :
    log[e] # <<>> /\ log[e][1].promoted # NoVersion => log[e][1].decision = "winner"

DecisionInv == TypeOK /\ LogMatchesStatus /\ AtMostOneDecision /\ RowsAreSound

LEMMA DecisionInit == Init => DecisionInv
<1> SUFFICES ASSUME Init PROVE LogMatchesStatus /\ AtMostOneDecision /\ RowsAreSound
  BY TypeInit DEF DecisionInv
<1>1. \A e \in Experiment : status[e] = "none" /\ log[e] = <<>>
  BY DEF Init
<1> QED BY <1>1 DEF LogMatchesStatus, AtMostOneDecision, RowsAreSound

LEMMA DecisionStep == DecisionInv /\ [Next]_vars => DecisionInv'
<1> SUFFICES ASSUME DecisionInv, [Next]_vars
             PROVE  LogMatchesStatus' /\ AtMostOneDecision' /\ RowsAreSound'
  BY TypeStep DEF DecisionInv
<1> TypeOK /\ LogMatchesStatus /\ AtMostOneDecision /\ RowsAreSound
  BY DEF DecisionInv
<1> USE DEF TypeOK, LogMatchesStatus, AtMostOneDecision, RowsAreSound, rowVars
<1>1. ASSUME NEW e \in Experiment, NEW b \in Block, NEW variants \in SUBSET Fresh,
             CreateExperiment(e, b, variants)
      PROVE LogMatchesStatus' /\ AtMostOneDecision' /\ RowsAreSound'
  BY <1>1 DEF CreateExperiment
<1>2. ASSUME NEW e \in Experiment, StartExperiment(e)
      PROVE LogMatchesStatus' /\ AtMostOneDecision' /\ RowsAreSound'
  BY <1>2 DEF StartExperiment, Startable
<1>3. ASSUME NEW e \in Experiment, StopExperiment(e)
      PROVE LogMatchesStatus' /\ AtMostOneDecision' /\ RowsAreSound'
  BY <1>3 DEF StopExperiment
<1>4. ASSUME NEW t \in tasks, Conclude(t)
      PROVE LogMatchesStatus' /\ AtMostOneDecision' /\ RowsAreSound'
  <2> DEFINE x == t.exp
  <2>1. x \in Experiment
    BY DEF Task
  <2>2. CASE Latch(x)
    <3>1. status[x] = "running" /\ log[x] = <<>>
      BY <2>1, <2>2 DEF Latch, Running
    <3>2. /\ log' = [log EXCEPT ![x] = Append(@, DecisionRow(t))]
          /\ status' = [status EXCEPT ![x] = "decided"]
          /\ decision' = [decision EXCEPT ![x] = DecisionRow(t).decision]
          /\ winner' = [winner EXCEPT ![x] = t.verdict]
      BY <1>4, <2>2 DEF Conclude
    <3>3. log'[x] = <<DecisionRow(t)>>
      BY <2>1, <3>1, <3>2
    <3>4. DecisionRow(t) = [decision |-> decision'[x], promoted |-> winner'[x]]
      BY <2>1, <3>2 DEF DecisionRow
    <3>5. ASSUME NEW e \in Experiment, e # x
          PROVE /\ log'[e] = log[e] /\ status'[e] = status[e]
                /\ decision'[e] = decision[e] /\ winner'[e] = winner[e]
      BY <3>2, <3>5
    <3>6. status'[x] = "decided"
      BY <2>1, <3>2
    <3>7. Len(log'[x]) <= 1
      BY <3>3
    <3> HIDE DEF x
    <3>8. ASSUME NEW e \in Experiment PROVE Len(log'[e]) <= 1
      <4>1. CASE e = x
        BY <3>7, <4>1
      <4>2. CASE e # x
        <5>1. Len(log[e]) <= 1
          OBVIOUS
        <5> QED BY <3>5, <4>2, <5>1
      <4> QED BY <4>1, <4>2
    <3>9. ASSUME NEW e \in Experiment
          PROVE /\ status'[e] = "decided" =>
                     log'[e] = <<[decision |-> decision'[e], promoted |-> winner'[e]]>>
                /\ log'[e] # <<>> => status'[e] \in {"decided", "stopped"}
      <4>1. CASE e = x
        BY <3>3, <3>4, <3>6, <4>1
      <4>2. CASE e # x
        BY <3>5, <4>2
      <4> QED BY <4>1, <4>2
    <3>10. log'[x][1].promoted # NoVersion => log'[x][1].decision = "winner"
      <4>1. log'[x][1] = DecisionRow(t)
        BY <3>3
      <4> QED BY <4>1 DEF DecisionRow
    <3>11. RowsAreSound'
      BY <3>5, <3>10
    <3> QED BY <3>8, <3>9, <3>11
  <2>3. CASE ~Latch(x)
    BY <1>4, <2>3 DEF Conclude
  <2> QED BY <2>2, <2>3
<1>5. ASSUME UNCHANGED <<status, decision, winner, log>>
      PROVE LogMatchesStatus' /\ AtMostOneDecision' /\ RowsAreSound'
  BY <1>5
<1> QED BY StepCases, <1>1, <1>2, <1>3, <1>4, <1>5
        DEF PassDeadline, SaveBlock, DeleteDocument, Analyse, Loads, Quiet

\* Whatever the races between handlers, and whatever dies on the way, an
\* experiment is decided at most once.
THEOREM AtMostOneDecisionCorrect == Spec => []AtMostOneDecision
<1>1. DecisionInv => AtMostOneDecision
  BY DEF DecisionInv
<1> QED BY <1>1, DecisionInit, DecisionStep, PTL DEF Spec

\* The row of an experiment always agrees with its decision log.
THEOREM LogMatchesStatusCorrect == Spec => []LogMatchesStatus
<1>1. DecisionInv => LogMatchesStatus
  BY DEF DecisionInv
<1> QED BY <1>1, DecisionInit, DecisionStep, PTL DEF Spec

-----------------------------------------------------------------------------
(***************************************************************************)
(* One running experiment per block: the unique index.                     *)
(***************************************************************************)

LEMMA OneRunningInit == Init => OneRunningPerBlock
  BY DEF Init, OneRunningPerBlock, Running, Exists

\* Only starting makes an experiment run, and no experiment changes its block
\* while it exists.
LEMMA OneRunningStep == TypeOK /\ OneRunningPerBlock /\ [Next]_vars => OneRunningPerBlock'
<1> SUFFICES ASSUME TypeOK, OneRunningPerBlock, [Next]_vars PROVE OneRunningPerBlock'
  OBVIOUS
<1> USE DEF TypeOK, OneRunningPerBlock, Running, Exists, Alive, rowVars, blockVars
<1>1. ASSUME NEW e \in Experiment, NEW b \in Block, NEW variants \in SUBSET Fresh,
             CreateExperiment(e, b, variants)
      PROVE OneRunningPerBlock'
  BY <1>1 DEF CreateExperiment
<1>2. ASSUME NEW e \in Experiment, StartExperiment(e) PROVE OneRunningPerBlock'
  BY <1>2 DEF StartExperiment, NoOtherRunning
<1>3. ASSUME NEW e \in Experiment, StopExperiment(e) PROVE OneRunningPerBlock'
  BY <1>3 DEF StopExperiment
<1>4. ASSUME NEW d \in Document, DeleteDocument(d) PROVE OneRunningPerBlock'
  BY <1>4 DEF DeleteDocument
<1>5. ASSUME NEW t \in tasks, Conclude(t) PROVE OneRunningPerBlock'
  <2>1. t.exp \in Experiment
    BY DEF Task
  <2> QED BY <1>5, <2>1 DEF Conclude
<1>6. ASSUME UNCHANGED <<documents, status, subject>> PROVE OneRunningPerBlock'
  BY <1>6
<1> QED BY StepCases, <1>1, <1>2, <1>3, <1>4, <1>5, <1>6
        DEF PassDeadline, SaveBlock, Analyse, Loads, Quiet

\* At most one experiment runs on a block, for any number of blocks and experiments.
THEOREM OneRunningPerBlockCorrect == Spec => []OneRunningPerBlock
<1>1. Init => TypeOK /\ OneRunningPerBlock
  BY TypeInit, OneRunningInit
<1>2. TypeOK /\ OneRunningPerBlock /\ [Next]_vars => (TypeOK /\ OneRunningPerBlock)'
  BY TypeStep, OneRunningStep
<1> QED BY <1>1, <1>2, PTL DEF Spec

-----------------------------------------------------------------------------
(***************************************************************************)
(* The pools of versions.                                                  *)
(***************************************************************************)

\* No version belongs to two blocks.
PoolsAreDisjoint == \A b, c \in Block : versions[b] \cap versions[c] # {} => b = c

\* A block shows a version of its own.
CurrentInPool == \A b \in Block : current[b] \in versions[b]

\* An experiment tries versions of its own block, and none before it exists.
ArmsInPool ==
  \A e \in Experiment :
    /\ arms[e] \subseteq versions[subject[e]]
    /\ status[e] = "none" => arms[e] = {}

\* No version is tried by two experiments.
ArmsAreDisjoint == \A e, f \in Experiment : arms[e] \cap arms[f] # {} => e = f

\* What a handler is about to promote is a variant of the experiment it loaded.
TasksAreSound ==
  \A t \in tasks :
    /\ status[t.exp] # "none"
    /\ t.verdict \in arms[t.exp] \cup {NoVersion}

PoolInv ==
  /\ PoolsAreDisjoint
  /\ CurrentInPool
  /\ ArmsInPool
  /\ ArmsAreDisjoint
  /\ TasksAreSound

LEMMA PoolInit == Init => PoolInv
<1> SUFFICES ASSUME Init PROVE PoolInv
  OBVIOUS
<1>1. \A b \in Block : versions[b] = {current[b]}
  BY DEF Init
<1>2. PoolsAreDisjoint /\ CurrentInPool
  BY <1>1 DEF Init, PoolsAreDisjoint, CurrentInPool
<1>3. ArmsInPool /\ ArmsAreDisjoint /\ TasksAreSound
  BY DEF Init, ArmsInPool, ArmsAreDisjoint, TasksAreSound
<1> QED BY <1>2, <1>3 DEF PoolInv

\* The tables of versions and variants grow, by versions nobody uses yet.
LEMMA PoolStep == TypeOK /\ PoolInv /\ [Next]_vars => PoolInv'
<1> SUFFICES ASSUME TypeOK, PoolInv, [Next]_vars PROVE PoolInv'
  OBVIOUS
<1> PoolsAreDisjoint /\ CurrentInPool /\ ArmsInPool /\ ArmsAreDisjoint /\ TasksAreSound
  BY DEF PoolInv
<1> USE DEF TypeOK, blockVars, rowVars, handlerVars
<1>0. ASSUME NEW v \in Fresh PROVE v \in Version /\ \A b \in Block : v \notin versions[b]
  BY DEF Fresh
<1>1. ASSUME NEW e \in Experiment, NEW b \in Block, NEW variants \in SUBSET Fresh,
             CreateExperiment(e, b, variants)
      PROVE PoolInv'
  <2>1. /\ versions' = [versions EXCEPT ![b] = @ \cup variants]
        /\ arms' = [arms EXCEPT ![e] = variants]
        /\ subject' = [subject EXCEPT ![e] = b]
        /\ status' = [status EXCEPT ![e] = "draft"]
        /\ status[e] = "none"
        /\ UNCHANGED <<current, tasks>>
    BY <1>1 DEF CreateExperiment
  <2>2. PoolsAreDisjoint'
    BY <1>0, <2>1 DEF PoolsAreDisjoint
  <2>3. CurrentInPool'
    BY <2>1 DEF CurrentInPool
  <2>4. ArmsInPool'
    BY <2>1 DEF ArmsInPool
  <2>5. ArmsAreDisjoint'
    BY <1>0, <2>1 DEF ArmsAreDisjoint, ArmsInPool
  <2>6. TasksAreSound'
    BY <2>1 DEF TasksAreSound, Task
  <2> QED BY <2>2, <2>3, <2>4, <2>5, <2>6 DEF PoolInv
<1>2. ASSUME NEW b \in Block, NEW v \in Fresh \cup Shown(b), SaveBlock(b, v) PROVE PoolInv'
  <2>1. /\ versions' = [versions EXCEPT ![b] = @ \cup {v}]
        /\ current' = [current EXCEPT ![b] = v]
        /\ UNCHANGED <<rowVars, tasks>>
    BY <1>2 DEF SaveBlock
  <2>2. PoolsAreDisjoint'
    BY <1>0, <2>1 DEF PoolsAreDisjoint, Shown
  <2>3. CurrentInPool'
    BY <2>1 DEF CurrentInPool
  <2>4. ArmsInPool'
    BY <2>1 DEF ArmsInPool
  <2>5. ArmsAreDisjoint' /\ TasksAreSound'
    BY <2>1 DEF ArmsAreDisjoint, TasksAreSound
  <2> QED BY <2>2, <2>3, <2>4, <2>5 DEF PoolInv
<1>3. ASSUME NEW t \in tasks, Conclude(t) PROVE PoolInv'
  <2>1. t.exp \in Experiment /\ t.verdict \in arms[t.exp] \cup {NoVersion}
    BY DEF Task, TasksAreSound
  <2>2. current' = current \/ current' = Repointed(t)
    BY <1>3 DEF Conclude
  <2>3. status' = status \/ status' = [status EXCEPT ![t.exp] = "decided"]
    BY <1>3 DEF Conclude
  <2>4. tasks' \subseteq tasks /\ UNCHANGED <<versions, subject, arms>>
    BY <1>3 DEF Conclude, Finish
  <2>5. CurrentInPool'
    BY <2>1, <2>2, <2>4 DEF CurrentInPool, Repointed, ArmsInPool
  <2>6. PoolsAreDisjoint' /\ ArmsAreDisjoint'
    BY <2>4 DEF PoolsAreDisjoint, ArmsAreDisjoint
  <2>7. ArmsInPool'
    BY <2>1, <2>3, <2>4 DEF ArmsInPool
  <2>8. TasksAreSound'
    BY <2>1, <2>3, <2>4 DEF TasksAreSound, Task
  <2> QED BY <2>5, <2>6, <2>7, <2>8 DEF PoolInv
<1>4. ASSUME NEW t \in tasks, Analyse(t) PROVE PoolInv'
  <2>1. UNCHANGED <<blockVars, rowVars>> /\ t \in Task
    BY <1>4 DEF Analyse
  <2>2. ASSUME NEW u \in tasks' PROVE status[u.exp] # "none" /\ u.verdict \in arms[u.exp] \cup {NoVersion}
    <3>1. CASE u \in tasks
      BY <3>1 DEF TasksAreSound
    <3>2. ASSUME NEW v \in Promotable(t), u = [t EXCEPT !.step = "analysed", !.verdict = v]
          PROVE  u.exp = t.exp /\ u.verdict \in arms[t.exp]
      BY <2>1, <3>2 DEF Promotable, Task
    <3>3. CASE u = [t EXCEPT !.step = "analysed"]
      BY <2>1, <3>3 DEF Task, TasksAreSound
    <3> QED BY <1>4, <3>1, <3>2, <3>3 DEF Analyse, Advance, Finish, TasksAreSound
  <2>3. TasksAreSound'
    BY <2>1, <2>2 DEF TasksAreSound
  <2> QED BY <2>1, <2>3 DEF PoolInv, PoolsAreDisjoint, CurrentInPool, ArmsInPool, ArmsAreDisjoint
<1>5. CASE Loads
  <2>1. TasksAreSound'
    BY <1>5 DEF Loads, LoadTask, TasksAreSound, Running, Exists
  <2> QED BY <1>5, <2>1
          DEF Loads, PoolInv, PoolsAreDisjoint, CurrentInPool, ArmsInPool, ArmsAreDisjoint
<1>6. ASSUME UNCHANGED <<versions, current, subject, arms>>, tasks' \subseteq tasks,
             \A e \in Experiment : status'[e] = "none" <=> status[e] = "none"
      PROVE PoolInv'
  BY <1>6 DEF PoolInv, PoolsAreDisjoint, CurrentInPool, ArmsInPool, ArmsAreDisjoint,
              TasksAreSound, Task
<1>7. ASSUME NEW e \in Experiment, StartExperiment(e) \/ StopExperiment(e) PROVE PoolInv'
  BY <1>6, <1>7 DEF StartExperiment, Startable, StopExperiment, Exists
<1> QED BY StepCases, <1>1, <1>2, <1>3, <1>4, <1>5, <1>6, <1>7
        DEF PassDeadline, DeleteDocument, Quiet

-----------------------------------------------------------------------------
(***************************************************************************)
(* Canonical content.                                                      *)
(***************************************************************************)

LEMMA CanonicalInit == Init => OnlyPromotedVariantsAreCanonical
  BY DEF Init, OnlyPromotedVariantsAreCanonical

LEMMA CanonicalStep ==
  TypeOK /\ PoolInv /\ OnlyPromotedVariantsAreCanonical /\ [Next]_vars
    => OnlyPromotedVariantsAreCanonical'
<1> SUFFICES ASSUME TypeOK, PoolInv, OnlyPromotedVariantsAreCanonical, [Next]_vars
             PROVE  OnlyPromotedVariantsAreCanonical'
  OBVIOUS
<1> PoolsAreDisjoint /\ CurrentInPool /\ ArmsInPool /\ ArmsAreDisjoint /\ TasksAreSound
  BY DEF PoolInv
<1> USE DEF TypeOK, blockVars, rowVars, handlerVars, OnlyPromotedVariantsAreCanonical
<1>0. ASSUME NEW v \in Fresh PROVE \A b \in Block : v \notin versions[b]
  BY DEF Fresh
<1>1. ASSUME NEW e \in Experiment, NEW b \in Block, NEW variants \in SUBSET Fresh,
             CreateExperiment(e, b, variants)
      PROVE OnlyPromotedVariantsAreCanonical'
  <2>1. arms' = [arms EXCEPT ![e] = variants] /\ UNCHANGED <<current, log>>
    BY <1>1 DEF CreateExperiment
  <2>2. \A c \in Block : current[c] \notin variants
    BY <1>0 DEF CurrentInPool
  <2> QED BY <2>1, <2>2
<1>2. ASSUME NEW b \in Block, NEW v \in Fresh \cup Shown(b), SaveBlock(b, v)
      PROVE OnlyPromotedVariantsAreCanonical'
  <2>1. current' = [current EXCEPT ![b] = v] /\ UNCHANGED <<arms, log>>
    BY <1>2 DEF SaveBlock
  <2>2. \A e \in Experiment :
          v \in arms[e] => \E i \in 1..Len(log[e]) : log[e][i].promoted = v
    BY <1>0 DEF ArmsInPool, Shown
  <2> QED BY <2>1, <2>2
<1>3. ASSUME NEW t \in tasks, Conclude(t) PROVE OnlyPromotedVariantsAreCanonical'
  <2> DEFINE x == t.exp
             row == DecisionRow(t)
  <2>1. x \in Experiment /\ t.verdict \in arms[x] \cup {NoVersion} /\ t \in Task
    BY DEF Task, TasksAreSound
  <2>2. CASE ~Latch(x)
    BY <1>3, <2>2 DEF Conclude
  <2>3. CASE Latch(x)
    <3>1. /\ log' = [log EXCEPT ![x] = Append(@, row)]
          /\ current' = Repointed(t)
          /\ arms' = arms
      BY <1>3, <2>3 DEF Conclude
    <3>2. row.promoted = t.verdict /\ row \in Row
      BY <2>1, RowType DEF DecisionRow
    <3>3. log[x] \in Seq(Row)
      BY <2>1
    <3>4. /\ Len(log'[x]) = Len(log[x]) + 1
          /\ log'[x][Len(log[x]) + 1] = row
          /\ \A i \in 1..Len(log[x]) : log'[x][i] = log[x][i]
      <4>1. log'[x] = Append(log[x], row)
        BY <2>1, <3>1
      <4> HIDE DEF x, row
      <4> QED BY <3>2, <3>3, <4>1, AppendProperties
    <3>5. Len(log[x]) \in Nat
      BY <3>3, LenProperties
    <3> HIDE DEF x, row
    <3>6. ASSUME NEW e \in Experiment, NEW b \in Block, current'[b] \in arms[e]
          PROVE  \E i \in 1..Len(log'[e]) : log'[e][i].promoted = current'[b]
      <4>1. CASE current'[b] = current[b]
        <5>1. PICK i \in 1..Len(log[e]) : log[e][i].promoted = current[b]
          BY <3>6, <4>1
        <5>2. CASE e = x
          <6>1. i \in 1..Len(log'[x]) /\ log'[x][i] = log[x][i]
            BY <3>4, <3>5, <5>1, <5>2
          <6> QED BY <4>1, <5>1, <5>2, <6>1
        <5>3. CASE e # x
          BY <3>1, <4>1, <5>1, <5>3
        <5> QED BY <5>2, <5>3
      <4>2. CASE current'[b] # current[b]
        <5>1. current'[b] = t.verdict /\ t.verdict # NoVersion
          BY <3>1, <4>2 DEF Repointed
        <5>2. e = x
          BY <2>1, <3>6, <5>1 DEF ArmsAreDisjoint
        <5>3. Len(log[x]) + 1 \in 1..Len(log'[x])
          BY <3>4, <3>5
        <5> QED BY <3>2, <3>4, <5>1, <5>2, <5>3
      <4> QED BY <4>1, <4>2
    <3> QED BY <3>1, <3>6
  <2> QED BY <2>2, <2>3
<1>4. ASSUME UNCHANGED <<current, arms, log>> PROVE OnlyPromotedVariantsAreCanonical'
  BY <1>4
<1> QED BY StepCases, <1>1, <1>2, <1>3, <1>4
        DEF StartExperiment, StopExperiment, PassDeadline, DeleteDocument, Analyse, Loads, Quiet

IInv == TypeOK /\ PoolInv /\ OnlyPromotedVariantsAreCanonical

LEMMA IInvCorrect == Spec => []IInv
<1>1. Init => IInv
  BY TypeInit, PoolInit, CanonicalInit DEF IInv
<1>2. IInv /\ [Next]_vars => IInv'
  BY TypeStep, PoolStep, CanonicalStep DEF IInv
<1> QED BY <1>1, <1>2, PTL DEF Spec

\* A variant becomes the article's content only by a recorded decision, however
\* experiments, edits and decisions interleave.
THEOREM OnlyPromotedVariantsAreCanonicalCorrect == Spec => []OnlyPromotedVariantsAreCanonical
<1>1. IInv => OnlyPromotedVariantsAreCanonical
  BY DEF IInv
<1> QED BY <1>1, IInvCorrect, PTL

-----------------------------------------------------------------------------
(***************************************************************************)
(* Atomic decisions.                                                       *)
(***************************************************************************)

LEMMA AtomicStep ==
  IInv /\ [Next]_vars => [\A e \in Experiment : AtomicDecision(e)]_vars
<1> SUFFICES ASSUME IInv, [Next]_vars, NEW e \in Experiment, log'[e] # log[e]
             PROVE  AtomicDecision(e)
  BY DEF AtomicDecision
<1> TypeOK /\ PoolInv
  BY DEF IInv
<1>1. PICK t \in tasks : Conclude(t)
  <2>1. log' # log
    OBVIOUS
  <2> QED BY <2>1, StepCases
          DEF CreateExperiment, StartExperiment, StopExperiment, PassDeadline, SaveBlock,
              DeleteDocument, Analyse, Loads, Quiet, rowVars
<1>2. t \in Task /\ t.exp \in Experiment /\ t.verdict \in arms[t.exp] \cup {NoVersion}
  BY DEF TypeOK, PoolInv, TasksAreSound, Task
<1>3. Latch(t.exp) /\ t.exp = e
  BY <1>1, <1>2 DEF Conclude, TypeOK
<1>4. /\ log' = [log EXCEPT ![e] = Append(@, DecisionRow(t))]
      /\ status' = [status EXCEPT ![e] = "decided"]
      /\ current' = Repointed(t)
  BY <1>1, <1>3 DEF Conclude
<1>5. log'[e][Len(log'[e])] = DecisionRow(t)
  <2>1. log[e] \in Seq(Row) /\ DecisionRow(t) \in Row
    BY <1>2, RowType DEF TypeOK
  <2>2. log'[e] = Append(log[e], DecisionRow(t))
    BY <1>4 DEF TypeOK
  <2> QED BY <2>1, <2>2, AppendProperties
<1>6. Running(e) /\ status'[e] = "decided"
  BY <1>3, <1>4 DEF Latch, TypeOK
<1>7. subject[e] \in Block /\ t.verdict \in versions[subject[e]] \cup {NoVersion}
  BY <1>2, <1>3 DEF TypeOK, PoolInv, ArmsInPool
<1>8. current'[subject[e]] =
        IF DecisionRow(t).decision = "winner" THEN DecisionRow(t).promoted
                                              ELSE current[subject[e]]
  BY <1>3, <1>4, <1>7 DEF Repointed, DecisionRow, TypeOK
<1>9. current'[subject[e]] \in versions[subject[e]]
  BY <1>3, <1>4, <1>7 DEF Repointed, PoolInv, CurrentInPool, TypeOK
<1> QED BY <1>5, <1>6, <1>8, <1>9 DEF AtomicDecision

\* Recording a decision, closing the experiment and repointing the block are one
\* step, and the block is left with a version of its own.
THEOREM DecisionIsAtomicCorrect == Spec => DecisionIsAtomic
  BY IInvCorrect, AtomicStep, PTL DEF Spec, DecisionIsAtomic

-----------------------------------------------------------------------------
(***************************************************************************)
(* Refinement.                                                             *)
(***************************************************************************)

Phases == [e \in Experiment |-> Phase(e)]
Outcomes == [e \in Experiment |-> IF log[e] = <<>> THEN "none" ELSE log[e][1].decision]

LEMMA RecordInit == Init => Record!Init
<1> SUFFICES ASSUME Init PROVE Record!Init
  OBVIOUS
<1>1. Phases = [e \in Experiment |-> "none"]
  <2>1. \A e \in Experiment : Phase(e) = "none"
    BY DEF Init, Phase, Exists, Running
  <2> QED BY <2>1, Zenon DEF Phases
<1>2. Outcomes = [e \in Experiment |-> "none"]
  BY DEF Init, Outcomes
<1>3. /\ current \in [Block -> Version]
      /\ subject \in [Experiment -> Block]
      /\ arms = [e \in Experiment |-> {}]
  BY TypeInit DEF Init, TypeOK
<1> QED BY <1>1, <1>2, <1>3 DEF Record!Init, Phases, Outcomes

\* Each step of the handlers is a step of DecisionRecord, or changes nothing there.
LEMMA RecordStep == IInv /\ DecisionInv /\ [Next]_vars => [Record!Next]_(Record!vars)
<1> SUFFICES ASSUME IInv, DecisionInv, [Next]_vars
             PROVE  Record!Next \/ UNCHANGED Record!vars
  OBVIOUS
<1> TypeOK /\ PoolInv /\ LogMatchesStatus
  BY DEF IInv, DecisionInv
<1> USE DEF TypeOK, Phase, Running, Exists, Alive
<1>0. ASSUME NEW v \in Fresh
      PROVE  /\ \A b \in Block : current[b] # v
             /\ \A e \in Experiment : v \notin arms[e]
  BY DEF Fresh, PoolInv, CurrentInPool, ArmsInPool
<1>w. ASSUME NEW b \in Block, NEW v \in Shown(b), NEW e \in Experiment, v \in arms[e]
       PROVE  log[e] # <<>> /\ log[e][1].decision = "winner"
  <2>1. PICK i \in 1..Len(log[e]) : log[e][i].promoted = v
    BY <1>w DEF Shown
  <2>2. v \in Version /\ v # NoVersion
    BY NullAssumption DEF Shown
  <2>3. Len(log[e]) <= 1 /\ log[e] \in Seq(Row)
    BY DEF DecisionInv, AtMostOneDecision
  <2>4. Len(log[e]) \in Nat
    BY <2>3, LenProperties
  <2>5. i = 1 /\ log[e] # <<>>
    BY <2>1, <2>3, <2>4
  <2> QED BY <2>1, <2>2, <2>5 DEF DecisionInv, RowsAreSound
<1>1. ASSUME NEW e \in Experiment, NEW b \in Block, NEW variants \in SUBSET Fresh,
             CreateExperiment(e, b, variants)
      PROVE Record!Open(e, b, variants)
  <2>1. \A f \in Experiment : Phase(f)' = IF f = e THEN "open" ELSE Phase(f)
    BY <1>1 DEF CreateExperiment
  <2>2. Phase(e) = "none"
    BY <1>1 DEF CreateExperiment
  <2>3. Phases' = [Phases EXCEPT ![e] = "open"]
    BY <2>1 DEF Phases
  <2> QED BY <1>0, <1>1, <2>2, <2>3 DEF CreateExperiment, Record!Open, Phases
<1>2. ASSUME NEW e \in Experiment, StartExperiment(e) PROVE Record!Run(e)
  <2>1. \A f \in Experiment : Phase(f)' = IF f = e THEN "running" ELSE Phase(f)
    BY <1>2 DEF StartExperiment, Startable, blockVars
  <2>2. Phase(e) = "open" /\ \A f \in Experiment : Phase(f) = "running" => subject[f] # subject[e]
    BY <1>2 DEF StartExperiment, Startable, NoOtherRunning
  <2>3. Phases' = [Phases EXCEPT ![e] = "running"]
    BY <2>1 DEF Phases
  <2> QED BY <1>2, <2>2, <2>3 DEF StartExperiment, Record!Run, Phases, blockVars
<1>3. ASSUME NEW e \in Experiment, StopExperiment(e) PROVE Record!Close(e)
  <2>1. \A f \in Experiment : Phase(f)' = IF f = e THEN "closed" ELSE Phase(f)
    BY <1>3 DEF StopExperiment, blockVars
  <2>2. Phase(e) # "none"
    BY <1>3 DEF StopExperiment
  <2>3. Phases' = [Phases EXCEPT ![e] = "closed"]
    BY <2>1 DEF Phases
  <2> QED BY <1>3, <2>2, <2>3 DEF StopExperiment, Record!Close, Phases, blockVars
<1>4. ASSUME NEW b \in Block, NEW v \in Fresh \cup Shown(b), SaveBlock(b, v)
      PROVE Record!Edit(b, v)
  <2>1. Phases' = Phases
    BY <1>4 DEF SaveBlock, Phases, rowVars
  <2>2. \A e \in Experiment : v \in arms[e] => Outcomes[e] = "winner"
    BY <1>0, <1>w DEF Outcomes
  <2> QED BY <1>4, <2>1, <2>2 DEF SaveBlock, Record!Edit, Phases, Outcomes, rowVars
<1>5. ASSUME NEW d \in Document, DeleteDocument(d)
      PROVE \E E \in SUBSET Experiment : Record!CloseAll(E)
  <2> DEFINE E == {e \in Experiment : DocumentOf[subject[e]] = d}
  <2>1. \A e \in Experiment :
          Phase(e)' = IF e \in E /\ Phase(e) # "none" THEN "closed" ELSE Phase(e)
    BY <1>5 DEF DeleteDocument, rowVars
  <2> HIDE DEF E, Phase
  <2>2. Phases' = [e \in Experiment |->
                     IF e \in E /\ Phases[e] # "none" THEN "closed" ELSE Phases[e]]
    BY <2>1 DEF Phases
  <2>3. UNCHANGED <<current, subject, arms, Outcomes>>
    BY <1>5 DEF DeleteDocument, rowVars, Outcomes
  <2>4. Record!CloseAll(E)
    BY <2>2, <2>3 DEF Record!CloseAll, Phases, Outcomes
  <2>5. E \in SUBSET Experiment
    BY DEF E
  <2> QED BY <2>4, <2>5
<1>6. ASSUME NEW t \in tasks, Conclude(t) PROVE Record!Next \/ UNCHANGED Record!vars
  <2> DEFINE x == t.exp
             row == DecisionRow(t)
  <2>1. x \in Experiment /\ t.verdict \in arms[x] \cup {NoVersion} /\ t \in Task
    BY DEF Task, PoolInv, TasksAreSound
  <2>2. CASE ~Latch(x)
    BY <1>6, <2>2 DEF Conclude, Record!vars
  <2>3. CASE Latch(x)
    <3>1. /\ log' = [log EXCEPT ![x] = Append(@, row)]
          /\ status' = [status EXCEPT ![x] = "decided"]
          /\ current' = Repointed(t)
          /\ UNCHANGED <<documents, subject, arms>>
      BY <1>6, <2>3 DEF Conclude
    <3>2. Phase(x) = "running" /\ log[x] = <<>>
      BY <2>1, <2>3 DEF Latch, LogMatchesStatus
    <3>3. \A f \in Experiment : Phase(f)' = IF f = x THEN "closed" ELSE Phase(f)
      BY <2>1, <3>1, <3>2
    <3>4. log'[x] = <<row>>
      BY <2>1, <3>1, <3>2
    <3>5. Outcomes' = [Outcomes EXCEPT ![x] = row.decision]
      <4>1. log'[x] # <<>> /\ log'[x][1] = row
        BY <3>4
      <4>2. \A f \in Experiment : f # x => log'[f] = log[f]
        BY <3>1
      <4> HIDE DEF x, row
      <4> QED BY <4>1, <4>2 DEF Outcomes
    <3>6. Phases' = [Phases EXCEPT ![x] = "closed"]
      BY <3>3 DEF Phases
    <3>7. row.decision = IF t.verdict = NoVersion THEN "no_improvement" ELSE "winner"
      BY DEF DecisionRow
    <3>8. Record!Conclude(x, t.verdict)
      BY <2>1, <3>1, <3>2, <3>5, <3>6, <3>7 DEF Record!Conclude, Phases, Outcomes, Repointed
    <3>9. t.verdict \in Version \cup {NoVersion}
      BY <2>1
    <3> QED BY <2>1, <3>8, <3>9 DEF Record!Next
  <2> QED BY <2>2, <2>3
<1>7. ASSUME UNCHANGED <<documents, current, status, subject, arms, log>>
      PROVE UNCHANGED Record!vars
  <2>1. \A e \in Experiment : Phase(e)' = Phase(e)
    BY <1>7
  <2> HIDE DEF Phase
  <2>2. Phases' = Phases
    BY <2>1 DEF Phases
  <2>3. Outcomes' = Outcomes
    BY <1>7 DEF Outcomes
  <2>4. UNCHANGED <<current, subject, arms>>
    BY <1>7
  <2> QED BY <2>2, <2>3, <2>4, Zenon DEF Record!vars, Phases, Outcomes
<1>8. ASSUME \/ \E e \in Experiment : PassDeadline(e)
             \/ \E t \in tasks : Analyse(t)
             \/ Loads
             \/ Quiet
      PROVE UNCHANGED <<documents, current, status, subject, arms, log>>
  BY <1>8 DEF PassDeadline, Analyse, Loads, Quiet, blockVars, rowVars
<1> HIDE DEF TypeOK, Phase, Running, Exists, Alive
<1>9. ASSUME NEW e \in Experiment, NEW b \in Block, NEW variants \in SUBSET Fresh,
             CreateExperiment(e, b, variants)
      PROVE Record!Next
  <2>1. variants \in SUBSET Version
    BY FreshVersions
  <2>2. Record!Open(e, b, variants)
    BY <1>1, <1>9
  <2> QED BY <2>1, <2>2 DEF Record!Next
<1>10. ASSUME NEW e \in Experiment, StartExperiment(e) \/ StopExperiment(e) PROVE Record!Next
  <2>1. Record!Run(e) \/ Record!Close(e)
    BY <1>2, <1>3, <1>10
  <2> QED BY <2>1 DEF Record!Next
<1>11. ASSUME NEW b \in Block, NEW v \in Fresh \cup Shown(b), SaveBlock(b, v)
       PROVE Record!Next
  <2>1. v \in Version
    BY FreshVersions DEF Shown, TypeOK
  <2>2. Record!Edit(b, v)
    BY <1>4, <1>11
  <2> QED BY <2>1, <2>2 DEF Record!Next
<1>12. ASSUME NEW d \in Document, DeleteDocument(d) PROVE Record!Next
  <2>1. \E E \in SUBSET Experiment : Record!CloseAll(E)
    BY <1>5, <1>12
  <2> QED BY <2>1 DEF Record!Next
<1> QED BY StepCases, <1>6, <1>7, <1>8, <1>9, <1>10, <1>11, <1>12

\* The experiment component keeps the promise of DecisionRecord.
THEOREM DecisionRecordImplemented == Spec => ImplementsDecisionRecord
<1>1. Init => IInv /\ DecisionInv
  BY TypeInit, PoolInit, CanonicalInit, DecisionInit DEF IInv
<1>2. IInv /\ DecisionInv /\ [Next]_vars => (IInv /\ DecisionInv)'
  BY TypeStep, PoolStep, CanonicalStep, DecisionStep DEF IInv
<1> QED BY <1>1, <1>2, RecordInit, RecordStep, PTL
        DEF Spec, ImplementsDecisionRecord, Record!Spec
=============================================================================
