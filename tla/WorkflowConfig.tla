---------------------------- MODULE WorkflowConfig ----------------------------
(***************************************************************************)
(* What a run is configured with at activation: WORKFLOW.md of the         *)
(* workspace and of the gateway's directory (src/workflow-config.ts), the  *)
(* trust of the operator and the commands found in the project             *)
(* (applyWorkflowConfig in index.ts).                                      *)
(*                                                                         *)
(* A file is what reading it came to: "missing", "unreadable", "plain"     *)
(* (no autopilot section), "empty" (a section without fields) or           *)
(* "section".  A field of a section is the set of the value it has, empty  *)
(* when it is absent or of the wrong type.  A command has an id, the class *)
(* of its binary, whether it hands an interpreter text to run, and whether *)
(* it is required.                                                         *)
(***************************************************************************)
EXTENDS Integers, Sequences, SequencesExt, FiniteSets, FiniteSetsExt, Subsequences

Binaries == {"listed", "interpreter", "other"}

Command == [id : STRING, binary : Binaries, evals : BOOLEAN, required : BOOLEAN]

(* filterValidationCommands keeps the allowlisted binaries, and the        *)
(* interpreters among them only without an eval flag.                      *)
Allowed(c) == c.binary = "listed" \/ (c.binary = "interpreter" /\ ~c.evals)

FilterValidationCommands(commands) ==
    Subsequence(commands, {i \in DOMAIN commands : Allowed(commands[i])})

(* typeof x === 'number' ? x : default; the defaults are within the clamps. *)
Field(given, default) == IF given = {} THEN default ELSE CHOOSE v \in given : TRUE

AtLeastZero(v) == Max({0, v})

InUnit(percent) == Min({Max({percent, 0}), 100})

DefaultWorkflow ==
    [maxRetries |-> 3, retryJitter |-> 20, noProgressTurns |-> 3, midrunInterval |-> 5,
     commands |-> <<>>, dropped |-> 0, failOnOptional |-> FALSE, destructiveGit |-> FALSE]

(* parseAutopilotSection, merged over the defaults.                        *)
ParseAutopilotSection(raw) ==
    LET kept == FilterValidationCommands(raw.commands)
    IN  [maxRetries      |-> Field(raw.maxRetries, DefaultWorkflow.maxRetries),
         retryJitter     |-> InUnit(Field(raw.retryJitter, DefaultWorkflow.retryJitter)),
         noProgressTurns |-> AtLeastZero(Field(raw.noProgressTurns, DefaultWorkflow.noProgressTurns)),
         midrunInterval  |-> AtLeastZero(Field(raw.midrunInterval, DefaultWorkflow.midrunInterval)),
         commands        |-> kept,
         dropped         |-> Len(raw.commands) - Len(kept),
         failOnOptional  |-> raw.failOnOptional,
         destructiveGit  |-> raw.destructiveGit]

(* loadWorkflowConfig: the first file with a section counts, an unreadable *)
(* one is passed over with a warning.                                      *)
LoadWorkflowConfig(files) ==
    LET usable == {i \in DOMAIN files : files[i].reads \in {"empty", "section"}}
        first  == files[Min(usable)]
    IN  IF usable = {} \/ first.reads = "empty"
        THEN DefaultWorkflow ELSE ParseAutopilotSection(first.section)

SearchPaths(a) == IF a.explicit THEN <<a.workspace, a.base>> ELSE <<a.base>>

(* applyWorkflowConfig: nothing the workspace brings is run unless the     *)
(* operator trusts it; a trusted workspace named in the call that          *)
(* configures no command gets those its project files suggest.             *)
ApplyWorkflowConfig(a) ==
    LET loaded == LoadWorkflowConfig(SearchPaths(a))
    IN  [loaded EXCEPT !.commands =
           IF ~a.trusted THEN <<>>
           ELSE IF @ = <<>> /\ a.explicit THEN a.detected ELSE @]
=============================================================================
