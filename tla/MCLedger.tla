------------------------------ MODULE MCLedger ------------------------------
(* What a run is activated with when ProgressLedger is checked: a trusted  *)
(* workspace whose file has a required, an optional and a refused command; *)
(* an untrusted one whose file cannot be read, so that the gateway's       *)
(* counts; a project without files whose command is detected; and a file   *)
(* with two required commands of one id.                                   *)
EXTENDS ProgressLedger, TLC

Test == [id |-> "test", binary |-> "listed", evals |-> FALSE, required |-> TRUE]
Lint == [id |-> "lint", binary |-> "interpreter", evals |-> FALSE, required |-> FALSE]
Again == [Test EXCEPT !.binary = "interpreter"]
Eval == [id |-> "eval", binary |-> "interpreter", evals |-> TRUE, required |-> TRUE]

Section(commands, turns, strict) ==
    [maxRetries |-> {}, retryJitter |-> {150}, noProgressTurns |-> turns, midrunInterval |-> {},
     commands |-> commands, failOnOptional |-> strict, destructiveGit |-> FALSE]

File(section) == [reads |-> "section", section |-> section]
NoFile == [reads |-> "missing"]

Activation(trusted, explicit, workspace, base, detected) ==
    [trusted |-> trusted, explicit |-> explicit, workspace |-> workspace, base |-> base,
     detected |-> detected]

MCActivations ==
    LET strict == File(Section(<<Eval, Test, Lint>>, {1}, TRUE))
        loose  == File(Section(<<Test>>, {-1}, FALSE))
        twice  == File(Section(<<Test, Again>>, {}, FALSE))
    IN  {Activation(TRUE, TRUE, strict, loose, <<>>),
         Activation(FALSE, TRUE, [reads |-> "unreadable"], loose, <<Test>>),
         Activation(TRUE, TRUE, NoFile, NoFile, <<Test>>),
         Activation(TRUE, TRUE, twice, NoFile, <<>>)}

Symmetry == Permutations(Files)
=============================================================================
