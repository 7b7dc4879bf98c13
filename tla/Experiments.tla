---------------------------- MODULE Experiments ----------------------------
(***************************************************************************)
(* The life of a block experiment: the rows of the tables experiments,     *)
(* experiment_variants and experiment_decisions, the version pool and the  *)
(* version pointer of every block, and the handlers that work on them      *)
(* concurrently.                                                           *)
(*                                                                         *)
(* A step is one statement or one transaction of the SQLite repository:    *)
(* between two of them the handler awaits and any other handler may run.   *)
(* Creating, starting and stopping are one statement (the ownership check  *)
(* before it reads columns that never change, and the statement itself     *)
(* finds the row gone when the document was deleted in between).  Deciding *)
(* takes three: load the experiment, analyse its counts, record.           *)
(*                                                                         *)
(* The counts and their statistics are in module Measurement; here the     *)
(* analysis may come to any verdict the engine can reach.                  *)
(***************************************************************************)
EXTENDS Naturals, Sequences, FiniteSets

CONSTANTS
  Document,     \* the documents of the blog
  Block,        \* blocks of those documents
  DocumentOf,   \* the document each block belongs to
  Experiment,   \* identifiers of experiments
  Version,      \* identifiers of immutable block versions
  Request,      \* admin requests served concurrently
  Worker,       \* the background auto-decider
  NoVersion,    \* SQL NULL in a version column
  MaxFailures   \* bound on restarts and failed worker calls in a behaviour

ASSUME BlockAssumption == DocumentOf \in [Block -> Document]
ASSUME HandlerAssumption == Worker \notin Request
ASSUME NullAssumption == NoVersion \notin Version
ASSUME FailureAssumption == MaxFailures \in Nat

VARIABLES
  documents,    \* rows of documents: deleting one cascades to all that hangs on it
  versions,     \* block_versions: the versions in the pool of each block
  current,      \* blocks.current_version_id
  status,       \* experiments.status; "none" before the row is inserted
  subject,      \* experiments.block_id
  control,      \* experiments.control_version_id
  arms,         \* versions of the non-control rows of experiment_variants
  overdue,      \* has the experiment run longer than max_duration_ms?
  decision,     \* experiments.decision
  winner,       \* experiments.winning_variant_id, as the version of that variant
  log,          \* rows of experiment_decisions, oldest first
  tasks,        \* the decisions in flight, at most one per handler
  todo,         \* ids the worker still has to visit in this tick
  failures      \* restarts and failed worker calls so far

blockVars == <<documents, versions, current>>
rowVars == <<status, subject, control, arms, overdue, decision, winner, log>>
handlerVars == <<tasks, todo>>
vars == <<blockVars, rowVars, handlerVars, failures>>

Handler == Request \cup {Worker}
Status == {"none", "draft", "running", "decided", "stopped"}
Op == {"decide", "promote", "no_winner"}
Decision == {"none", "winner", "no_improvement", "stopped"}
NullableVersion == Version \cup {NoVersion}
Row == [decision : {"winner", "no_improvement"}, promoted : NullableVersion]

\* A handler between two of its awaits: the experiment it loaded and, once the
\* counts are analysed, the version it is about to promote (NULL: none).
Task == [handler : Handler, op : Op, exp : Experiment,
         step : {"loaded", "analysed"}, verdict : NullableVersion]

TypeOK ==
  /\ documents \subseteq Document
  /\ versions \in [Block -> SUBSET Version]
  /\ current \in [Block -> Version]
  /\ status \in [Experiment -> Status]
  /\ subject \in [Experiment -> Block]
  /\ control \in [Experiment -> NullableVersion]
  /\ arms \in [Experiment -> SUBSET Version]
  /\ overdue \in [Experiment -> BOOLEAN]
  /\ decision \in [Experiment -> Decision]
  /\ winner \in [Experiment -> NullableVersion]
  /\ log \in [Experiment -> Seq(Row)]
  /\ tasks \subseteq Task
  /\ todo \subseteq Experiment
  /\ failures \in 0..MaxFailures

-----------------------------------------------------------------------------

\* Deleting a document cascades to its blocks, versions, experiments and decisions.
Alive(b) == DocumentOf[b] \in documents
Exists(e) == status[e] # "none" /\ Alive(subject[e])
Running(e) == Exists(e) /\ status[e] = "running"

\* Uuid::new_v4 never returns an identifier that is in use.
Fresh == Version \ UNION {versions[b] : b \in Block}

Init ==
  /\ documents = Document
  /\ current \in [Block -> Version]
  /\ \A b, c \in Block : current[b] = current[c] => b = c
  /\ versions = [b \in Block |-> {current[b]}]
  /\ status = [e \in Experiment |-> "none"]
  /\ subject \in {[e \in Experiment |-> b] : b \in Block}
  /\ control = [e \in Experiment |-> NoVersion]
  /\ arms = [e \in Experiment |-> {}]
  /\ overdue = [e \in Experiment |-> FALSE]
  /\ decision = [e \in Experiment |-> "none"]
  /\ winner = [e \in Experiment |-> NoVersion]
  /\ log = [e \in Experiment |-> <<>>]
  /\ tasks = {}
  /\ todo = {}
  /\ failures = 0

-----------------------------------------------------------------------------
(***************************************************************************)
(* Operations that are one statement or one transaction.                   *)
(***************************************************************************)

\* POST /api/experiments: the control is whatever the block shows at that
\* moment; every variant is a new version of the block, and the block itself
\* is left alone.
CreateExperiment(e, b, variants) ==
  /\ status[e] = "none"
  /\ Alive(b)
  /\ variants # {}
  /\ versions' = [versions EXCEPT ![b] = @ \cup variants]
  /\ status' = [status EXCEPT ![e] = "draft"]
  /\ subject' = [subject EXCEPT ![e] = b]
  /\ control' = [control EXCEPT ![e] = current[b]]
  /\ arms' = [arms EXCEPT ![e] = variants]
  /\ UNCHANGED <<documents, current, overdue, decision, winner, log, handlerVars, failures>>

\* (mutant) Without the index.
AnyNumberRunning(e) == TRUE

\* The partial unique index idx_one_running_exp_per_block.
NoOtherRunning(e) ==
  \A f \in Experiment \ {e} : Running(f) => subject[f] # subject[e]

\* (mutant) Any experiment may be run again.
StartableAgain(e) == Exists(e) /\ status[e] # "running"

Startable(e) == Exists(e) /\ status[e] = "draft"

StartExperiment(e) ==
  /\ Startable(e)
  /\ NoOtherRunning(e)
  /\ status' = [status EXCEPT ![e] = "running"]
  /\ decision' = [decision EXCEPT ![e] = "none"]
  /\ winner' = [winner EXCEPT ![e] = NoVersion]
  /\ UNCHANGED <<blockVars, subject, control, arms, overdue, log, handlerVars, failures>>

\* UPDATE experiments SET status = 'stopped' ... WHERE id = ?: whatever the
\* status is, and the winner column keeps its value.
StopExperiment(e) ==
  /\ Exists(e)
  /\ status' = [status EXCEPT ![e] = "stopped"]
  /\ decision' = [decision EXCEPT ![e] = "stopped"]
  /\ UNCHANGED <<blockVars, subject, control, arms, overdue, winner, log, handlerVars, failures>>

\* The clock passes started_at_ms + max_duration_ms.
PassDeadline(e) ==
  /\ Running(e)
  /\ ~overdue[e]
  /\ overdue' = [overdue EXCEPT ![e] = TRUE]
  /\ UNCHANGED <<blockVars, status, subject, control, arms, decision, winner, log,
                 handlerVars, failures>>

\* The versions some save in flight may have loaded: what the block shows or
\* once showed, and so no variant unless it was promoted.
Shown(b) ==
  {v \in versions[b] : \A e \in Experiment :
     v \in arms[e] => \E i \in 1..Len(log[e]) : log[e][i].promoted = v}

\* An author saves an article: an edited block gets a new version and the pointer
\* follows it; a block that was not edited gets the pointer that was loaded.
SaveBlock(b, v) ==
  /\ Alive(b)
  /\ versions' = [versions EXCEPT ![b] = @ \cup {v}]
  /\ current' = [current EXCEPT ![b] = v]
  /\ UNCHANGED <<documents, rowVars, handlerVars, failures>>

DeleteDocument(d) ==
  /\ d \in documents
  /\ documents' = documents \ {d}
  /\ UNCHANGED <<versions, current, rowVars, handlerVars, failures>>

-----------------------------------------------------------------------------
(***************************************************************************)
(* Deciding an experiment: load, analyse, record, with an await between    *)
(* any two.                                                                *)
(***************************************************************************)

Idle(h) == \A t \in tasks : t.handler # h

Advance(t, u) == tasks' = (tasks \ {t}) \cup {u}
Finish(t) == tasks' = tasks \ {t}

\* The handler loads the experiment and goes on only if it is running.
LoadTask(h, o, e) ==
  [handler |-> h, op |-> o, exp |-> e, step |-> "loaded", verdict |-> NoVersion]

LoadExperiment(h, o, e) ==
  /\ Idle(h)
  /\ Running(e)
  /\ tasks' = tasks \cup {LoadTask(h, o, e)}

LoadRequest(r, o, e) ==
  /\ LoadExperiment(r, o, e)
  /\ UNCHANGED <<blockVars, rowVars, todo, failures>>

\* "promote" takes the best variant whatever the threshold, "no_winner" none,
\* "decide" what the engine recommends.
Promotable(t) == IF t.op = "no_winner" THEN {} ELSE arms[t.exp]
MayDecline(t) == t.op # "promote"

\* (mutant) The engine never gives up.
MayContinueForever(t) == t.op = "decide"

MayContinue(t) == t.op = "decide" /\ ~overdue[t.exp]

Analyse(t) ==
  /\ t.step = "loaded"
  /\ \/ \E v \in Promotable(t) :
          Advance(t, [t EXCEPT !.step = "analysed", !.verdict = v])
     \/ MayDecline(t) /\ Advance(t, [t EXCEPT !.step = "analysed"])
     \/ MayContinue(t) /\ Finish(t)
  /\ UNCHANGED <<blockVars, rowVars, todo, failures>>

\* (mutants) The operation in place of its decision; the promoted version left out.
DecisionRowOfOp(t) == [decision |-> t.op, promoted |-> t.verdict]
DecisionRowWithoutVersion(t) ==
  [decision |-> IF t.verdict = NoVersion THEN "no_improvement" ELSE "winner",
   promoted |-> NoVersion]

DecisionRow(t) ==
  [decision |-> IF t.verdict = NoVersion THEN "no_improvement" ELSE "winner",
   promoted |-> t.verdict]

\* (mutant) Not looking at the status again.
LatchOnExistence(e) == Exists(e)

\* The latch: the transaction finds its experiment still running.
Latch(e) == Running(e)

\* The version pointers once the winner is promoted.
Repointed(t) ==
  IF t.verdict = NoVersion THEN current ELSE [current EXCEPT ![subject[t.exp]] = t.verdict]

\* One transaction appends the decision, closes the experiment and repoints
\* the block.  When the latch is closed it is rolled back.
Conclude(t) ==
  LET e == t.exp IN
  /\ t.step = "analysed"
  /\ Finish(t)
  /\ IF Latch(e)
       THEN /\ log' = [log EXCEPT ![e] = Append(@, DecisionRow(t))]
            /\ status' = [status EXCEPT ![e] = "decided"]
            /\ decision' = [decision EXCEPT ![e] = DecisionRow(t).decision]
            /\ winner' = [winner EXCEPT ![e] = t.verdict]
            /\ current' = Repointed(t)
       ELSE UNCHANGED <<log, status, decision, winner, current>>
  /\ UNCHANGED <<documents, versions, subject, control, arms, overdue, todo, failures>>

-----------------------------------------------------------------------------
(***************************************************************************)
(* The background worker: a tick lists the running experiments, then       *)
(* decides them one at a time.                                             *)
(***************************************************************************)

Tick ==
  /\ Idle(Worker)
  /\ todo = {}
  /\ todo' = {e \in Experiment : Running(e)}
  /\ UNCHANGED <<blockVars, rowVars, tasks, failures>>

\* decide_experiment on the next id: loaded when it still runs, else skipped.
Visit(e) ==
  /\ Idle(Worker)
  /\ e \in todo
  /\ todo' = todo \ {e}
  /\ IF Running(e) THEN tasks' = tasks \cup {LoadTask(Worker, "decide", e)}
                   ELSE UNCHANGED tasks
  /\ UNCHANGED <<blockVars, rowVars, failures>>

-----------------------------------------------------------------------------
(***************************************************************************)
(* Failures.                                                               *)
(***************************************************************************)

Fail == failures < MaxFailures /\ failures' = failures + 1

\* The client hangs up, or a database call fails, between two awaits of a request.
Abandon(t) ==
  /\ t.handler # Worker
  /\ Finish(t)
  /\ UNCHANGED <<blockVars, rowVars, todo, failures>>

\* A database call of the worker fails: it logs that and goes on with the next id.
SkipFailed(t) ==
  /\ t.handler = Worker
  /\ Finish(t)
  /\ Fail
  /\ UNCHANGED <<blockVars, rowVars, todo>>

\* The process dies and is started again: only the tables survive.
Restart ==
  /\ Fail
  /\ tasks' = {}
  /\ todo' = {}
  /\ UNCHANGED <<blockVars, rowVars>>

-----------------------------------------------------------------------------

WorkerStep ==
  \/ Tick
  \/ \E e \in Experiment : Visit(e)
  \/ \E t \in tasks : t.handler = Worker /\ (Analyse(t) \/ Conclude(t))

RequestStep ==
  \/ \E r \in Request, o \in Op, e \in Experiment : LoadRequest(r, o, e)
  \/ \E t \in tasks : t.handler \in Request /\ (Analyse(t) \/ Conclude(t) \/ Abandon(t))

AdminStep ==
  \/ \E e \in Experiment, b \in Block, variants \in SUBSET Fresh :
       CreateExperiment(e, b, variants)
  \/ \E e \in Experiment : StartExperiment(e) \/ StopExperiment(e)
  \/ \E d \in Document : DeleteDocument(d)

\* Everything but the author's edits, which other modules refine.
ExperimentNext ==
  \/ WorkerStep \/ RequestStep \/ AdminStep
  \/ \E e \in Experiment : PassDeadline(e)
  \/ \E t \in tasks : SkipFailed(t)
  \/ Restart

Next == ExperimentNext \/ \E b \in Block : \E v \in Fresh \cup Shown(b) : SaveBlock(b, v)

Spec == Init /\ [][Next]_vars

\* The interval of the worker keeps ticking, and a task that was spawned runs on.
FairSpec == Spec /\ WF_vars(WorkerStep)

-----------------------------------------------------------------------------
(***************************************************************************)
(* Properties.                                                             *)
(***************************************************************************)

\* However decide, promote, no-winner and the worker race, an experiment gets at
\* most one row in the append-only table experiment_decisions.
AtMostOneDecision == \A e \in Experiment : Len(log[e]) <= 1

\* The row of experiments and the decision log tell one story: a decided
\* experiment has its row in the log, with the same decision and winner; an
\* experiment in the log was closed and never runs again.
LogMatchesStatus ==
  \A e \in Experiment :
    /\ status[e] = "decided" =>
         log[e] = <<[decision |-> decision[e], promoted |-> winner[e]]>>
    /\ log[e] # <<>> => status[e] \in {"decided", "stopped"}

\* The render overlay and the event endpoint may take the first running
\* experiment of a block for the only one.
OneRunningPerBlock ==
  \A e, f \in Experiment :
    Running(e) /\ Running(f) /\ subject[e] = subject[f] => e = f

\* An experiment is an overlay: a block never shows a variant as its canonical
\* content unless a recorded decision promoted exactly that version.
OnlyPromotedVariantsAreCanonical ==
  \A e \in Experiment, b \in Block :
    current[b] \in arms[e] =>
      \E i \in 1..Len(log[e]) : log[e][i].promoted = current[b]

\* Deciding is atomic: the step that records a decision closes a running
\* experiment and, when it names a winner, repoints the tested block in the same
\* step to a version of that block.
AtomicDecision(e) ==
  log'[e] # log[e] =>
    LET row == log'[e][Len(log'[e])]
        b == subject[e] IN
    /\ Running(e) /\ status'[e] = "decided"
    /\ current'[b] = IF row.decision = "winner" THEN row.promoted ELSE current[b]
    /\ current'[b] \in versions[b]

DecisionIsAtomic == [][\A e \in Experiment : AtomicDecision(e)]_vars

\* The worker concludes every experiment that is past its maximum duration,
\* unless somebody closes or deletes it first.
OverdueIsConcluded ==
  \A e \in Experiment : Running(e) /\ overdue[e] ~> ~Running(e)

\* The refinement of DecisionRecord: an experiment that was decided, stopped or
\* deleted is closed, and its verdict is the row in the decision log.
Phase(e) ==
  CASE status[e] = "none" -> "none"
    [] status[e] # "none" /\ ~Alive(subject[e]) -> "closed"
    [] Exists(e) /\ status[e] = "draft" -> "open"
    [] Running(e) -> "running"
    [] OTHER -> "closed"

Record == INSTANCE DecisionRecord WITH
  shown <- current, home <- subject,
  phase <- [e \in Experiment |-> Phase(e)],
  outcome <- [e \in Experiment |-> IF log[e] = <<>> THEN "none" ELSE log[e][1].decision]

\* Every behaviour of the handlers is one of DecisionRecord.
ImplementsDecisionRecord == Record!Spec
=============================================================================
