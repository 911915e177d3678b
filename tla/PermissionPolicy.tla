--------------------------- MODULE PermissionPolicy ---------------------------
(***************************************************************************)
(* The permission policy both plugins ask before a tool call               *)
(* (packages/permission-policy/src/permission-policy.ts): how a command    *)
(* is classified, and which classes may run in which directory.            *)
(*                                                                         *)
(* A call is a tool, the segments its shell command splits into (none for  *)
(* a tool without one), the working directory it names, whether it uses a  *)
(* shell feature the tokenizer cannot parse, and the paths among its       *)
(* parameters.  A segment is its program without the wrappers in front of  *)
(* it (env, npx, npm exec and shells, which are transparent), whether one  *)
(* of those shells is handed a string, the subcommand, the flags and the   *)
(* number of other arguments, the directory it names (cd, git -C), and the *)
(* write targets found among its arguments: the parsing of cmdlet          *)
(* parameters is left out, what it cannot make out is the target           *)
(* "unverifiable".                                                         *)
(*                                                                         *)
(* A directory is the sequence of its names; symbolic links are left out.  *)
(***************************************************************************)
EXTENDS Integers, Sequences, SequencesExt, FiniteSets, FiniteSetsExt

CommandClasses ==
    {"credential_access", "system_write", "destructive_git", "workspace_cleanup", "network",
     "workspace_write", "worktree_create", "safe_git", "validation", "read_only", "unknown"}

(* CLASS_DANGER_RANK, the most dangerous first.                            *)
DangerRank ==
    <<"credential_access", "system_write", "destructive_git", "workspace_cleanup", "network",
      "workspace_write", "worktree_create", "safe_git", "validation", "read_only", "unknown">>

Path == [kind : {"none", "unverifiable", "home", "at", "relative"}, at : Seq(STRING)]

CommandSegment ==
    [program : STRING, handsString : BOOLEAN, sub : STRING, flags : SUBSET STRING,
     args : SUBSET STRING, dir : Path, targets : Seq(Path)]

ToolCall ==
    [tool : STRING, segments : Seq(CommandSegment), workdir : Path, feature : BOOLEAN,
     paths : Seq(Path)]

GenericExecTools == {"code_mode_exec", "shell_exec", "terminal", "bash", "sh", "exec"}

UnintrospectableWriteTools == {"apply_patch", "apply_diff"}

-----------------------------------------------------------------------------
(* classifyCommand                                                         *)

SystemPrograms ==
    {"sudo", "chmod", "chown", "launchctl", "dd", "mkfs", "fdisk", "parted", "wipefs", "runas",
     "icacls", "cacls", "takeown", "sc", "schtasks", "net", "format", "diskpart", "reg", "regedit"}

\* The names that contain one of these.
CredentialPrograms == {"credential", "keychain", "ssh-key"}

NetworkPrograms ==
    {"curl", "wget", "web_fetch", "web_search", "node", "python", "python3", "pip", "pip3", "uv"}

CleanupPrograms == {"rm", "rmdir", "shred", "del", "erase", "rd"}

WritePrograms ==
    {"set-content", "new-item", "copy-item", "write", "edit", "write_file", "code_editor"}
        \cup UnintrospectableWriteTools

ReadPrograms ==
    {"get-item", "get-content", "get-childitem", "rg", "grep", "ls", "find", "cat", "head", "tail",
     "wc", "sort", "uniq", "file", "stat", "which", "echo", "pwd", "env", "dir", "type", "where",
     "findstr", "more", "read_file", "read", "view", "get_file", "open_file", "list_files",
     "list_directory", "glob", "search_files", "cd", "process", "update_plan", "sessions_spawn",
     "sessions_yield", "sessions_get", "sessions_list", "sessions_view", "todo_write"}

PackageManagers == {"npm", "pnpm", "yarn"}

SafeGit ==
    {"status", "diff", "log", "branch", "show", "rev-parse", "remote", "stash", "tag", "add",
     "commit", "reset", "checkout"}

(* What discards work or rewrites history, by subcommand and flags.        *)
DiscardsByFlag ==
    [sub \in {"reset", "checkout", "push", "commit", "branch", "tag"} |->
        CASE sub = "reset"    -> {"--hard"}
          [] sub = "checkout" -> {"--", "-B", "-f", "--force"}
          [] sub = "push"     -> {"--force", "-f", "--force-with-lease"}
          [] sub = "commit"   -> {"--amend"}
          [] sub = "branch"   -> {"-D", "-d", "--delete"}
          [] sub = "tag"      -> {"-d", "--delete"}]

DestructiveGit(s) ==
    \/ s.sub \in {"clean", "restore", "rebase"}
    \/ s.sub \in DOMAIN DiscardsByFlag /\ s.flags \cap DiscardsByFlag[s.sub] # {}
    \/ s.sub = "checkout" /\ "all" \in s.args
    \/ s.sub = "checkout" /\ "-b" \notin s.flags /\ Cardinality(s.args) >= 2
    \/ s.sub = "stash" /\ s.args \cap {"clear", "drop"} # {}

ClassifyGit(s) ==
    CASE s.sub = "worktree" -> IF "add" \in s.args THEN "worktree_create"
                               ELSE IF "remove" \in s.args THEN "workspace_cleanup" ELSE "unknown"
      [] DestructiveGit(s) -> "destructive_git"
      [] s.sub \in {"push", "fetch", "pull", "clone"} /\ ~DestructiveGit(s) -> "network"
      [] s.sub \in SafeGit /\ ~DestructiveGit(s) -> "safe_git"
      [] OTHER -> "unknown"

(* A program by its name alone, as a tool without a command is classified. *)
ClassOfName(name) ==
    CASE name \in SystemPrograms     -> "system_write"
      [] name \in CredentialPrograms -> "credential_access"
      [] name \in NetworkPrograms    -> "network"
      [] name \in CleanupPrograms    -> "workspace_cleanup"
      [] name \in WritePrograms      -> "workspace_write"
      [] name \in ReadPrograms       -> "read_only"
      [] name = "npx"                -> "validation"
      [] OTHER                       -> "unknown"

ClassifyPackageManager(s) ==
    CASE s.sub \in {"install", "add", "update", "dlx"} -> "network"
      [] s.sub \in {"test", "exec"}                    -> "validation"
      [] OTHER                                         -> "unknown"

ClassifyCommand(tool, s) ==
    CASE tool \notin GenericExecTools -> ClassOfName(tool)
      [] tool \in GenericExecTools /\ s.handsString -> "unknown"
      [] OTHER ->
           CASE s.program = "git"             -> ClassifyGit(s)
             [] s.program \in PackageManagers -> ClassifyPackageManager(s)
             [] s.program = "find" /\ s.flags \cap {"-delete", "-exec", "-ok"} # {} ->
                    "workspace_cleanup"
             [] OTHER -> ClassOfName(s.program)
-----------------------------------------------------------------------------
(* Paths.                                                                  *)

Nowhere == [kind |-> "none", at |-> <<>>]
Unverifiable == [kind |-> "unverifiable", at |-> <<>>]
Home == [kind |-> "home", at |-> <<>>]
At(dir) == [kind |-> "at", at |-> dir]

(* path.resolve: ".." goes up, and nowhere at the root.                    *)
Enter(dir, name) == IF name # ".." THEN Append(dir, name) ELSE IF dir = <<>> THEN dir ELSE Front(dir)

(* A relative path is taken from the working directory of the call.        *)
ResolveWriteTarget(path, cwd) ==
    IF path.kind = "relative" THEN At(FoldLeft(Enter, cwd.at, path.at)) ELSE path

IsWithinWorkspace(candidate, workspace) ==
    /\ candidate.kind = "at" /\ workspace.kind = "at"
    /\ IsPrefix(workspace.at, candidate.at)

(* Where a call takes place: what the last git -C of its command says,     *)
(* else its own working directory, else its first cd.                      *)
CwdOf(call) ==
    LET moves(program) == {i \in DOMAIN call.segments : /\ call.segments[i].program = program
                                                       /\ call.segments[i].dir # Nowhere}
    IN  IF moves("git") # {} THEN call.segments[Max(moves("git"))].dir
        ELSE IF call.workdir # Nowhere THEN call.workdir
        ELSE IF moves("cd") # {} THEN call.segments[Min(moves("cd"))].dir
        ELSE Nowhere

-----------------------------------------------------------------------------
(* decidePermission.  opts: the workspace, whether the workflow allows     *)
(* destructive git, and whether the session is untrusted (defaultDeny).    *)

(* The paths among the parameters or the arguments are all fenced; without *)
(* any, the directory of the call is.                                      *)
Escapes(targets, cwd, workspace) ==
    IF targets = <<>> THEN ~IsWithinWorkspace(cwd, workspace)
    ELSE \E i \in DOMAIN targets :
            ~IsWithinWorkspace(ResolveWriteTarget(targets[i], cwd), workspace)

Blocks(tool, class, targets, cwd, opts) ==
    \/ class \in {"credential_access", "system_write", "workspace_cleanup"}
    \/ class = "destructive_git" /\ ~(opts.destructiveGit /\ IsWithinWorkspace(cwd, opts.workspace))
    \/ class = "workspace_write" /\ opts.defaultDeny
       /\ (tool \in UnintrospectableWriteTools \/ Escapes(targets, cwd, opts.workspace))
    \/ class = "unknown" /\ opts.defaultDeny

BlocksSegment(tool, s, cwd, opts) ==
    Blocks(tool, ClassifyCommand(tool, s), s.targets, cwd, opts)

(* Fault: a command is judged by the segment it starts with.               *)
BlockingFirst(call, cwd, opts) ==
    {i \in DOMAIN call.segments \cap {1} : BlocksSegment(call.tool, call.segments[i], cwd, opts)}

(* decidePermissionForEvent: the segments of a call that block it.         *)
BlockingSegments(call, cwd, opts) ==
    {i \in DOMAIN call.segments : BlocksSegment(call.tool, call.segments[i], cwd, opts)}

BlocksCall(call, cwd, opts) ==
    \/ call.feature /\ opts.defaultDeny
    \/ IF call.segments = <<>>
       THEN Blocks(call.tool, ClassOfName(call.tool), call.paths, cwd, opts)
       ELSE BlockingSegments(call, cwd, opts) # {}

(* The class in the audit entry: of the first segment that blocks, or the  *)
(* worst of all; a call blocked for a shell feature goes by its tool.      *)
WorstClass(classes) == DangerRank[Min({r \in DOMAIN DangerRank : DangerRank[r] \in classes})]

ClassOfCall(call, cwd, opts) ==
    LET blocking == BlockingSegments(call, cwd, opts)
    IN  IF call.segments = <<>> \/ (call.feature /\ opts.defaultDeny) THEN ClassOfName(call.tool)
        ELSE IF blocking # {} THEN ClassifyCommand(call.tool, call.segments[Min(blocking)])
        ELSE WorstClass({ClassifyCommand(call.tool, call.segments[i]) : i \in DOMAIN call.segments})
=============================================================================
