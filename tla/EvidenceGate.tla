----------------------------- MODULE EvidenceGate -----------------------------
(***************************************************************************)
(* The evidence gate (src/evidence-gate.ts) and the runner that feeds it   *)
(* (src/command-runner.ts).  How a command ends is one of "ok", "exit" (an *)
(* error of any kind), "killed" (by the timeout or from outside) and       *)
(* "overflow" (killed because it wrote too much).                          *)
(***************************************************************************)
EXTENDS Naturals, Sequences, FiniteSets, FiniteSetsExt

Ends == {"ok", "exit", "killed", "overflow"}

(* A command that overflows is killed too: overflow is tested first.       *)
StatusOf(end) ==
    CASE end = "ok"       -> "passed"
      [] end = "exit"     -> "failed"
      [] end = "killed"   -> "timeout"
      [] end = "overflow" -> "output_overflow"

(* One after the other; a failure neither throws nor stops the rest.       *)
RunValidationCommands(commands, ends) ==
    [i \in DOMAIN commands |-> [id |-> commands[i].id, status |-> StatusOf(ends[i])]]

(* Results are looked up by id, and the last one of an id counts.          *)
VerdictOn(c, results) ==
    LET mine == {i \in DOMAIN results : results[i].id = c.id}
    IN  IF mine = {} THEN "skipped" ELSE results[Max(mine)].status

Verdict(status, reason) == [status |-> status, reason |-> reason]

(* Fault: a command that never gave an answer does not count.              *)
EvaluateAnswersOnly(commands, results, dropped, failOnOptional) ==
    IF \E i \in DOMAIN commands :
          commands[i].required /\ VerdictOn(commands[i], results) \in {"failed", "output_overflow"}
    THEN Verdict("failed", "undefined") ELSE Verdict("passed", "undefined")

(* A failure of a required command comes first, then required commands     *)
(* that gave no answer, then optional failures if they are to count.       *)
EvaluateEvidence(commands, results, dropped, failOnOptional) ==
    LET With(required, some) ==
            \E i \in DOMAIN commands : /\ commands[i].required = required
                                       /\ VerdictOn(commands[i], results) \in some
        failing == {"failed", "output_overflow"}
    IN  CASE commands = <<>> /\ dropped > 0 -> Verdict("skipped", "not_executed")
          [] commands = <<>> /\ dropped = 0 -> Verdict("skipped", "not_configured")
          [] OTHER ->
               CASE With(TRUE, failing) -> Verdict("failed", "undefined")
                 [] ~With(TRUE, failing) /\ With(TRUE, {"skipped", "timeout"}) ->
                      Verdict("skipped", "not_executed")
                 [] OTHER -> IF failOnOptional /\ With(FALSE, failing)
                             THEN Verdict("failed", "undefined")
                             ELSE Verdict("passed", "undefined")
=============================================================================
