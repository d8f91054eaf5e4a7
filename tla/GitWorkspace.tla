---------------------------- MODULE GitWorkspace ----------------------------
(***************************************************************************)
(* The repository one trial works on, as git-workspace.ts sees and changes *)
(* it.  A commit carries the tree it records and who made it; a tree is a  *)
(* set of items.  An item is either the number of the modifier turn whose  *)
(* work it is, or BaseFile, which stands for the files that were untracked *)
(* when the trial began ("baseline" in the code).                          *)
(*                                                                         *)
(*   r.head    the commit HEAD names                                       *)
(*   r.index   the tree staged for the next commit                         *)
(*   r.work    what is on disk, tracked or not (ignored files left out)    *)
(***************************************************************************)
EXTENDS Naturals

CONSTANTS
    BaseFile,   \* the files untracked at the start
    Habits      \* what agents do with git, of the list in AgentEffects

ASSUME BaseFileAssumption == BaseFile \notin Nat
ASSUME HabitsAssumption ==
    Habits \subseteq {"edit", "add", "commit", "commit-fresh", "rewind"}

Item == Nat \union {BaseFile}
Tree == SUBSET Item
Commit == [by : {"base", "modifier", "harness"}, turn : Nat, tree : Tree]
Repository == [head : Commit, index : Tree, work : Tree]

\* A commit not known yet (the empty string or null of the code).
NoCommit == [by |-> "none", turn |-> 0, tree |-> {}]

\* The commit the task image is checked out at.
RootCommit == [by |-> "base", turn |-> 0, tree |-> {}]

\* A trial starts on a clean checkout, with or without untracked files.
CleanCheckouts ==
    {[head |-> RootCommit, index |-> {}, work |-> w] : w \in {{}, {BaseFile}}}

\* Staging adds tracked changes and fresh untracked files.  A baseline file is
\* staged only where it is tracked already: `git add -u` follows the index.
StageAllExcept(r) ==
    [r EXCEPT !.index = {i \in r.work : i = BaseFile => i \in r.index}]

HasStagedChanges(r) == r.index # r.head.tree

\* `git commit` of the index, by the harness, after modifier turn t.
CommitIndex(r, t) ==
    [r EXCEPT !.head = [by |-> "harness", turn |-> t, tree |-> r.index]]

HardResetStaysMutant(r, c) ==
    [head |-> r.head, index |-> c.tree, work |-> c.tree \union (r.work \ r.index)]
HardResetSoftMutant(r, c) == [r EXCEPT !.head = c]

\* `git reset --hard c`: what the index tracks is replaced by c's tree, what is
\* untracked stays on disk.
HardReset(r, c) ==
    [head |-> c, index |-> c.tree, work |-> c.tree \union (r.work \ r.index)]

RemoveFreshMutant(r) == r

\* The second half of resetTo: delete the untracked files that are not baseline.
RemoveFresh(r) ==
    [r EXCEPT !.work = {i \in r.work : i \in r.index \/ i = BaseFile}]

\* What one modifier turn t may leave behind.  The agent is told not to commit but
\* nothing stops it: it may leave the tree alone, add work of its own or wipe it,
\* then stage everything, commit everything or all but the baseline files; or it may
\* move HEAD back to the root.  Habits says which of these a run considers.
AgentEffects(r, t) ==
    LET disk == {r.work, r.work \union {t}, {}}
        own(tree) == [by |-> "modifier", turn |-> t, tree |-> tree]
        after(habit) ==
          CASE habit = "edit" -> {[r EXCEPT !.work = w] : w \in disk}
            [] habit = "add" -> {[r EXCEPT !.index = w, !.work = w] : w \in disk}
            [] habit = "commit" -> {[head |-> own(w), index |-> w, work |-> w] : w \in disk}
            [] habit = "commit-fresh" ->
                 {[head |-> own(w \ {BaseFile}), index |-> w \ {BaseFile}, work |-> w] :
                    w \in disk}
            [] habit = "rewind" -> {HardReset(r, RootCommit)}
    IN  UNION {after(habit) : habit \in Habits}

\* A process that outlived modifier turn t writes to the working tree.
StrayWrite(r, t) == [r EXCEPT !.work = @ \union {t}]
=============================================================================
