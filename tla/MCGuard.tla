------------------------------- MODULE MCGuard -------------------------------
(* Calls on which Guard is checked: a command whose second part removes    *)
(* files, one that discards work in another directory, an unknown program, *)
(* a write to two places, a granted tool, and a shell substitution.        *)
EXTENDS Guard

Home1 == At(<<"gateway">>)
Work == At(<<"gateway", "work">>)
Inner == At(<<"gateway", "work", "inner">>)

Segment(program) ==
    [program |-> program, handsString |-> FALSE, sub |-> "", flags |-> {}, args |-> {},
     dir |-> Nowhere, targets |-> <<>>]

Shell(segments) ==
    [tool |-> "exec", segments |-> segments, workdir |-> Nowhere, feature |-> FALSE, paths |-> <<>>]

Tool(name, paths) ==
    [tool |-> name, segments |-> <<>>, workdir |-> Nowhere, feature |-> FALSE, paths |-> paths]

Relative(names) == [kind |-> "relative", at |-> names]

MCCalls ==
    {Shell(<<Segment("cat"), Segment("rm")>>),
     Shell(<<[Segment("git") EXCEPT !.sub = "reset", !.flags = {"--hard"}, !.dir = Inner]>>),
     [Shell(<<Segment("make")>>) EXCEPT !.workdir = Work],
     Tool("write", <<Relative(<<"a">>), Relative(<<"..", "b">>)>>),
     Tool("browser", <<>>),
     [Shell(<<Segment("echo")>>) EXCEPT !.feature = TRUE]}

MCSetups == {[workspace |-> Work, destructiveGit |-> TRUE]}
=============================================================================
