--------------------------- MODULE ProgressLedger ---------------------------
(***************************************************************************)
(* The progress ledger of one run (packages/autopilot/src/progress-        *)
(* ledger.ts) with the hooks that feed it and the patrol that reads it:    *)
(* tool calls collect in a buffer, agent_end turns the buffer into an      *)
(* entry, old entries are folded into an aggregate, and the patrol pauses  *)
(* a run whose last counted entry is too many continuations ago.           *)
(* Commands are kept exactly as files are and are left out, as are the     *)
(* cleaning of names and the ledgers of older schemas.  The run is         *)
(* configured as WorkflowConfig says and judged by EvidenceGate.  Each     *)
(* hook is one step: what may happen across an await is the subject of     *)
(* Autopilot.                                                              *)
(***************************************************************************)
EXTENDS WorkflowConfig, EvidenceGate, Subsequences

CONSTANTS
    Files,          \* what tool calls touch
    MaxDetail,      \* LEDGER_MAX_DETAIL: entries kept verbatim
    MaxPerEntry,    \* MAX_FILES_PER_ENTRY
    MaxSummary,     \* MAX_SUMMARY_FILES: files kept in the aggregate
    Activations,    \* what a run may be activated with: see WorkflowConfig
    MaxTotal,       \* bound: continuations
    MaxHistory      \* bound: recorded turns

ASSUME LedgerAssumption ==
    /\ {MaxDetail, MaxPerEntry, MaxSummary, MaxTotal, MaxHistory} \subseteq Nat \ {0}
    /\ \A a \in Activations :
          /\ a.detected \in Seq(Command)
          /\ \A f \in {a.workspace, a.base} : f.reads = "section" =>
                /\ f.section.commands \in Seq(Command)
                /\ f.section.noProgressTurns \in SUBSET Int

Statuses == {"undefined", "failed", "skipped", "passed"}
Reasons == {"undefined", "not_configured", "not_executed"}

VARIABLES
    workflow,   \* state.workflow
    mode,       \* "running", "done" or what blocks the run
    total,      \* totalContinuations
    buffer,     \* turnAccumulator: what the tool calls of the turn touched
    evidence,   \* state.evidence: the last verdict of the gate and its results
    ledgered,   \* state.ledger is defined
    ledger,     \* state.ledger
    history     \* history variable: every entry ever recorded

(* What a run may be configured with.                                      *)
Workflows == {ApplyWorkflowConfig(a) : a \in Activations}

vars == <<workflow, mode, total, buffer, evidence, ledgered, ledger, history>>

EmptyLedger == [folded |-> [turns |-> 0, files |-> <<>>, last |-> 0], entries |-> <<>>]

-----------------------------------------------------------------------------
(* progress-ledger.ts                                                      *)

\* Each element once, where it first occurs.
Dedup(s) == Subsequence(s, {i \in DOMAIN s : \A j \in 1..(i - 1) : s[j] # s[i]})

\* A turn counts unless its evidence failed or was meant to run and did not.
CountsAsProgress(status, reason) ==
    \/ status \in {"undefined", "passed"}
    \/ status = "skipped" /\ reason # "not_executed"

Counts(e) == CountsAsProgress(e.status, e.reason)

\* Fault: the entry keeps every file.
Uncapped(turn, files, status, reason) ==
    [turn |-> turn, files |-> Dedup(files), status |-> status, reason |-> reason]

BuildEntry(turn, files, status, reason) ==
    [turn |-> turn, files |-> FirstOf(Dedup(files), MaxPerEntry),
     status |-> status, reason |-> reason]

\* Fault: the aggregate forgets the progress it folded before.
FoldForgets(l) ==
    LET oldest == Head(l.entries) IN
    [folded |-> [turns |-> l.folded.turns + 1,
                 files |-> LastOf(Dedup(l.folded.files \o oldest.files), MaxSummary),
                 last  |-> IF Counts(oldest) THEN oldest.turn ELSE 0],
     entries |-> Tail(l.entries)]

FoldOldest(l) ==
    LET oldest == Head(l.entries)
        carried == IF Counts(oldest) THEN oldest.turn ELSE 0
    IN  [folded |-> [turns |-> l.folded.turns + 1,
                     files |-> LastOf(Dedup(l.folded.files \o oldest.files), MaxSummary),
                     last  |-> Max({l.folded.last, carried})],
         entries |-> Tail(l.entries)]

\* Fault: the new entry takes the place of the one that should be folded.
RecordDrops(l, e) == [l EXCEPT !.entries = LastOf(Append(@, e), MaxDetail)]

RecordTurn(l, e) ==
    LET next == [l EXCEPT !.entries = Append(@, e)]
    IN  IF Len(next.entries) > MaxDetail THEN FoldOldest(next) ELSE next

LastProgressTurn(l) ==
    LET counted == {i \in DOMAIN l.entries : Counts(l.entries[i])}
    IN  IF counted = {} THEN l.folded.last ELSE l.entries[Max(counted)].turn

\* Fault: a file of the aggregate that the last turn touched counts twice.
HeadlineSums(l) ==
    Len(l.folded.files) + (IF l.entries = <<>> THEN 0 ELSE Len(Last(l.entries).files))

\* The number of files in the headline the status call shows.
HeadlineFiles(l) ==
    Cardinality(Range(l.folded.files) \cup
                (IF l.entries = <<>> THEN {} ELSE Range(Last(l.entries).files)))

-----------------------------------------------------------------------------
(* The hooks and the patrol.                                               *)

Init ==
    /\ workflow \in Workflows
    /\ mode = "running"
    /\ total = 0
    /\ buffer = <<>>
    /\ evidence = [status |-> "undefined", reason |-> "undefined", results |-> <<>>]
    /\ ledgered = FALSE
    /\ ledger = EmptyLedger
    /\ history = <<>>

\* after_tool_call: a successful call of a running run joins the buffer.  The
\* buffer is bounded here by one occurrence more than an entry keeps.
ToolCall(f) ==
    /\ mode = "running"
    /\ Len(buffer) <= MaxPerEntry
    /\ buffer' = Append(buffer, f)
    /\ UNCHANGED <<workflow, mode, total, evidence, ledgered, ledger, history>>

\* A revision or a cross turn, within the agent's turn or at its end.
Continue ==
    /\ mode = "running"
    /\ total < MaxTotal
    /\ total' = total + 1
    /\ UNCHANGED <<workflow, mode, buffer, evidence, ledgered, ledger, history>>

\* The gate at a completion runs the commands, however they end, and keeps the
\* verdict with the results; the commands dropped at activation are not passed
\* to it.  A failure leaves the run enabled whether it retries or is blocked;
\* commands that gave no answer block and disable it; everything else ends it.
\* The results of a verdict that does not end the run are only shown, and are
\* left out here.
Gate ==
    /\ mode = "running"
    /\ \E ends \in [DOMAIN workflow.commands -> Ends] :
          LET results == RunValidationCommands(workflow.commands, ends)
              verdict == EvaluateEvidence(workflow.commands, results, 0, workflow.failOnOptional)
          IN  /\ mode' \in CASE verdict.status = "failed"       -> {"running", "validation_failed"}
                             [] verdict.reason = "not_executed" -> {"evidence_missing"}
                             [] OTHER                           -> {"done"}
              /\ evidence' = [status |-> verdict.status, reason |-> verdict.reason,
                              results |-> IF mode' = "done" THEN results ELSE <<>>]
    /\ UNCHANGED <<workflow, total, buffer, ledgered, ledger, history>>

\* agent_end of an enabled run.  A turn without output leaves no entry; the
\* entry is stamped with the gate's last status, and never with its reason.
AgentEnd ==
    /\ mode \in {"running", "validation_failed"}
    /\ ledgered' = TRUE
    /\ buffer' = <<>>
    /\ IF buffer = <<>>
       THEN UNCHANGED <<ledger, history>>
       ELSE LET entry == BuildEntry(total, buffer, evidence.status, "undefined") IN
            /\ Len(history) < MaxHistory
            /\ ledger' = RecordTurn(ledger, entry)
            /\ history' = Append(history, entry)
    /\ UNCHANGED <<workflow, mode, total, evidence>>

NoProgress == total - LastProgressTurn(ledger) >= workflow.noProgressTurns

Patrol ==
    /\ mode = "running"
    /\ workflow.noProgressTurns > 0 /\ total > 0 /\ ledgered
    /\ NoProgress
    /\ mode' = "no_progress"
    /\ UNCHANGED <<workflow, total, buffer, evidence, ledgered, ledger, history>>

\* autopilot.resume keeps the continuations, the ledger, the verdict and the
\* buffer of the interrupted turn.
Resume ==
    /\ mode \in {"validation_failed", "evidence_missing", "no_progress"}
    /\ mode' = "running"
    /\ UNCHANGED <<workflow, total, buffer, evidence, ledgered, ledger, history>>

Next ==
    \/ \E f \in Files : ToolCall(f)
    \/ Continue
    \/ Gate
    \/ AgentEnd
    \/ Patrol
    \/ Resume

Spec == Init /\ [][Next]_vars

-----------------------------------------------------------------------------
(* Properties.                                                             *)

Entry == [turn : 0..MaxTotal, files : Seq(Files), status : Statuses, reason : Reasons]

\* Types, and the caps that keep the ledger small in every checkpoint and
\* injection however long the run is.
TypeOK ==
    /\ mode \in {"running", "validation_failed", "evidence_missing", "no_progress", "done"}
    /\ total \in 0..MaxTotal
    /\ buffer \in Seq(Files)
    /\ workflow \in Workflows
    /\ evidence.status \in Statuses /\ evidence.reason \in Reasons
    /\ ledgered \in BOOLEAN
    /\ ledger.folded \in [turns : Nat, files : Seq(Files), last : 0..MaxTotal]
    /\ ledger.entries \in Seq(Entry)
    /\ history \in Seq(Entry)
    /\ Len(ledger.entries) <= MaxDetail
    /\ Len(ledger.folded.files) <= MaxSummary
    /\ \A i \in DOMAIN ledger.entries : Len(ledger.entries[i].files) <= MaxPerEntry

\* Folding loses no turn: the detail is the end of the whole history and the
\* aggregate stands for exactly the rest of it.
FoldingIsLossless ==
    /\ ledger.folded.turns + Len(ledger.entries) = Len(history)
    /\ ledger.entries = LastOf(history, Len(ledger.entries))

\* A run that is done on passed evidence had commands, and each required one of
\* them, or a later one that goes by the same id, ran to its end and succeeded,
\* whatever the optional ones did.
VerifiedMeansRun ==
    mode = "done" /\ evidence.status = "passed" =>
        /\ workflow.commands # <<>>
        /\ \A i \in DOMAIN workflow.commands : workflow.commands[i].required =>
              \E j \in DOMAIN workflow.commands :
                 /\ j >= i
                 /\ workflow.commands[j].id = workflow.commands[i].id
                 /\ evidence.results[j].status = "passed"

\* The headline never claims more files than the run touched, also when a file
\* is both in the aggregate and in the last turn.
HeadlineIsHonest ==
    HeadlineFiles(ledger) <= Cardinality(UNION {Range(history[i].files) : i \in DOMAIN history})

\* The patrol pauses a run only when none of the turns it recorded in the last
\* noProgressTurns continuations counts, those that left the detail window included.
PauseIsDeserved ==
    [][mode # "no_progress" /\ mode' = "no_progress" =>
        \A i \in DOMAIN history :
            Counts(history[i]) => history[i].turn + workflow.noProgressTurns <= total]_vars
=============================================================================
