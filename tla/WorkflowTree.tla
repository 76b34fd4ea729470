---------------------------- MODULE WorkflowTree ----------------------------
(***************************************************************************)
(* Workflows that start child workflows and wait for their results. A      *)
(* workflow calls its children one after the other; every call checks the  *)
(* parent's checkpoint, inserts the child's row, records the child as a    *)
(* checkpoint of the parent, waits for the child's result and records that *)
(* too, each in a transaction of its own. Meanwhile processes crash and    *)
(* workflows are recovered, cancelled (with their children, or not),       *)
(* resumed and garbage-collected. A workflow has one execution at a time   *)
(* (WorkflowExecution has several).                                        *)
(***************************************************************************)
EXTENDS Naturals, Sequences

CONSTANTS
    Workflows,
    Root,
    Kids,           \* workflow -> the sequence of its children
    MaxCrashes,     \* bound: crashes
    MaxCancels,     \* bound: cancellations of a single workflow
    MaxResumes,     \* bound: resumptions
    MaxCascades,    \* bound: cancellations of the root with its children
    GC,             \* whether ended workflows are garbage-collected
    None

Children(w) == {Kids[w][i] : i \in DOMAIN Kids[w]}

ParentOf(w) == {p \in Workflows : w \in Children(p)}

TreeAssumption ==
    /\ Root \in Workflows /\ ParentOf(Root) = {}
    /\ \A w \in Workflows :
          /\ Kids[w] \in Seq(Workflows)
          /\ \A p, q \in ParentOf(w) : p = q
    /\ \A tree \in SUBSET Workflows :         \* all descend from the root
          Root \in tree /\ (\A w \in tree : Children(w) \subseteq tree) => tree = Workflows
    /\ None \notin {"PENDING", "SUCCESS", "ERROR", "CANCELLED"}
    /\ {MaxCrashes, MaxCancels, MaxResumes, MaxCascades} \subseteq Nat
    /\ GC \in BOOLEAN

VARIABLES
    row,        \* workflow -> its status, None if there is no row
    link,       \* workflow -> which children are recorded as started
    got,        \* workflow -> child -> the result recorded for it
    exec,       \* workflow -> its execution: the call it is at, and where
    saw,        \* workflow -> child -> the result its execution has in hand
    cascade,    \* the cancellation with children in progress
    crashes, cancels, resumes,
    cascades,
    target,     \* history: the workflows that existed when the cascade began
    revived,    \* history: the workflows that were resumed since
    collected   \* history: the workflows that were garbage-collected

db == <<row, link, got>>
bounds == <<crashes, cancels, resumes, cascades>>
history == <<target, revived, collected>>
vars == <<db, exec, saw, cascade, bounds, history>>

Ended == {"SUCCESS", "ERROR", "CANCELLED"}
NoExec == [pc |-> "none", at |-> 1]
NoCascade == [pc |-> "none", frontier |-> {}, visited |-> {}]

Begin == [pc |-> "call", at |-> 1]

Init ==
    /\ row = [w \in Workflows |-> IF w = Root THEN "PENDING" ELSE None]
    /\ link = [w \in Workflows |-> {}]
    /\ got = [w \in Workflows |-> [c \in Children(w) |-> None]]
    /\ exec = [w \in Workflows |-> IF w = Root THEN Begin ELSE NoExec]
    /\ saw = [w \in Workflows |-> [c \in Children(w) |-> None]]
    /\ cascade = NoCascade
    /\ crashes = 0 /\ cancels = 0 /\ resumes = 0 /\ cascades = 0
    /\ target = {} /\ revived = {} /\ collected = {}

Child(w) == Kids[w][exec[w].at]

Goto(w, pc) == exec' = [exec EXCEPT ![w].pc = pc]

\* The call begins with check_operation_execution: a cancelled parent aborts,
\* a recorded child is waited for, any other is started. With no call left,
\* the function returns; if the parent's own row is gone, it fails.
CheckChild(w) ==
    /\ exec[w].pc = "call"
    /\ IF exec[w].at > Len(Kids[w]) \/ row[w] = None THEN Goto(w, "return")
       ELSE IF row[w] = "CANCELLED" THEN Goto(w, "none")
       ELSE IF Child(w) \in link[w] THEN Goto(w, "wait")
       ELSE Goto(w, "init")
    /\ UNCHANGED <<db, saw, cascade, bounds, history>>

\* _init_workflow inserts the child's row, and says whether to execute it:
\* not if the row is there already. The parent's status is not looked at.
InitChild(w) ==
    /\ exec[w].pc = "init"
    /\ IF row[Child(w)] = None
       THEN row' = [row EXCEPT ![Child(w)] = "PENDING"] /\ Goto(w, "link")
       ELSE UNCHANGED row /\ Goto(w, "relink")
    /\ UNCHANGED <<link, got, saw, cascade, bounds, history>>

\* record_child_workflow, whereupon the child's thread is started. A record
\* of a parent whose row is gone violates the foreign key, which is raised.
LinkChild(w) ==
    /\ exec[w].pc \in {"link", "relink"}
    /\ \/ /\ row[w] # None
          /\ link' = [link EXCEPT ![w] = @ \cup {Child(w)}]
          /\ exec' = [exec EXCEPT ![w].pc = "wait",
                                  ![Child(w)] = IF exec[w].pc = "link" THEN Begin ELSE @]
       \/ row[w] = None /\ UNCHANGED link /\ Goto(w, "return")
    /\ UNCHANGED <<row, got, saw, cascade, bounds, history>>

\* await_workflow_result polls until the child's row is found and ended. A
\* row that is not there is waited for, too.
PollAgain(w) == exec[w].pc = "wait" /\ row[Child(w)] \notin Ended /\ UNCHANGED vars

AwaitChild(w) ==
    /\ exec[w].pc = "wait" /\ row[Child(w)] \in Ended
    /\ saw' = [saw EXCEPT ![w][Child(w)] = row[Child(w)]]
    /\ Goto(w, "got")
    /\ UNCHANGED <<db, cascade, bounds, history>>

\* record_get_result: the first record stays, and is never read back. The
\* function goes on, unless it lets out what a failed child raised, or what
\* the foreign key does if its own row is gone.
RecordGetResult(w) ==
    /\ exec[w].pc = "got"
    /\ got' = [got EXCEPT ![w][Child(w)] =
                  IF @ = None /\ row[w] # None THEN saw[w][Child(w)] ELSE @]
    /\ \/ row[w] # None /\ exec' = [exec EXCEPT ![w] = [pc |-> "call", at |-> @.at + 1]]
       \/ (row[w] = None \/ saw[w][Child(w)] # "SUCCESS") /\ Goto(w, "return")
    /\ UNCHANGED <<row, link, saw, cascade, bounds, history>>

\* get_result of the four kinds of handle.
GetResult(w) == AwaitChild(w) \/ RecordGetResult(w)

\* Mutant: a cancelled execution records its outcome.
FinishCancelled(w) ==
    /\ exec[w].pc = "return"
    /\ \E s \in {"SUCCESS", "ERROR"} :
          row' = [row EXCEPT ![w] = IF @ = None THEN @ ELSE s]
    /\ Goto(w, "none")
    /\ UNCHANGED <<link, got, saw, cascade, bounds, history>>

\* update_workflow_outcome writes the outcome unless the workflow was
\* cancelled.
Finish(w) ==
    /\ exec[w].pc = "return"
    /\ \E s \in {"SUCCESS", "ERROR"} :
          row' = [row EXCEPT ![w] = IF @ \in {"CANCELLED", None} THEN @ ELSE s]
    /\ Goto(w, "none")
    /\ UNCHANGED <<link, got, saw, cascade, bounds, history>>

\* The process dies with all its threads.
Crash ==
    /\ crashes < MaxCrashes /\ crashes' = crashes + 1
    /\ \E w \in Workflows : exec[w].pc # "none"
    /\ exec' = [w \in Workflows |-> NoExec]
    /\ saw' = [w \in Workflows |-> [c \in Children(w) |-> None]]
    /\ UNCHANGED <<db, cascade, cancels, resumes, cascades, history>>

\* Recovery executes a pending workflow, and so does the queue one that was
\* resumed; either begins from the start of the function. A workflow whose
\* row its parent has inserted and not yet linked is about to be executed.
Recover(w) ==
    /\ row[w] = "PENDING" /\ exec[w].pc = "none"
    /\ \A p \in ParentOf(w) : ~(exec[p].pc = "link" /\ Child(p) = w)
    /\ exec' = [exec EXCEPT ![w] = Begin]
    /\ saw' = [saw EXCEPT ![w] = [c \in Children(w) |-> None]]
    /\ UNCHANGED <<db, cascade, bounds, history>>

\* What _cancel_workflows does to the rows of a set of workflows.
Cancelled(ws) ==
    [w \in Workflows |-> IF w \in ws /\ row[w] = "PENDING" THEN "CANCELLED" ELSE row[w]]

CancelWorkflow(w) ==
    /\ cancels < MaxCancels /\ cancels' = cancels + 1
    /\ row[w] = "PENDING" /\ row' = Cancelled({w})
    /\ UNCHANGED <<link, got, exec, saw, cascade, crashes, resumes, cascades, history>>

ResumeWorkflow(w) ==
    /\ resumes < MaxResumes /\ resumes' = resumes + 1
    /\ row[w] = "CANCELLED" /\ row' = [row EXCEPT ![w] = "PENDING"]
    /\ revived' = revived \cup {w}
    /\ UNCHANGED <<link, got, exec, saw, cascade, crashes, cancels, cascades,
                   target, collected>>

\* cancel_workflows with cancel_children: cancels a level of the tree, then
\* asks for the next one, until there is none.
CascadeStart ==
    /\ cascades < MaxCascades /\ cascades' = cascades + 1
    /\ cascade.pc \in {"none", "done"}
    /\ cascade' = [pc |-> "cancel", frontier |-> {Root}, visited |-> {Root}]
    /\ target' = {w \in Workflows : row[w] # None} /\ revived' = {}
    /\ UNCHANGED <<db, exec, saw, crashes, cancels, resumes, collected>>

CascadeCancel ==
    /\ cascade.pc = "cancel"
    /\ row' = Cancelled(cascade.frontier)
    /\ cascade' = [cascade EXCEPT !.pc = "list"]
    /\ UNCHANGED <<link, got, exec, saw, bounds, history>>

\* Mutant: the cascade follows the links of operation_outputs.
LinkedChildren(ws) == UNION {link[w] : w \in ws}

\* _get_direct_children: by the parent_workflow_id in the children's rows.
DirectChildren(ws) == {c \in Workflows : row[c] # None /\ ParentOf(c) \cap ws # {}}

CascadeList ==
    /\ cascade.pc = "list"
    /\ LET next == DirectChildren(cascade.frontier) \ cascade.visited
       IN  cascade' = [pc |-> IF next = {} THEN "done" ELSE "cancel",
                       frontier |-> next, visited |-> cascade.visited \cup next]
    /\ UNCHANGED <<db, exec, saw, bounds, history>>

\* garbage_collect deletes a workflow that has ended, with its checkpoints:
\* oldest first, so no child before a parent that has ended too.
Collect(w) ==
    /\ GC /\ row[w] \in Ended
    /\ \A p \in ParentOf(w) : row[p] \notin Ended
    /\ row' = [row EXCEPT ![w] = None]
    /\ link' = [link EXCEPT ![w] = {}]
    /\ got' = [got EXCEPT ![w] = [c \in Children(w) |-> None]]
    /\ collected' = collected \cup {w}
    /\ UNCHANGED <<exec, saw, cascade, bounds, target, revived>>

Step(w) ==
    \/ CheckChild(w) \/ InitChild(w) \/ LinkChild(w)
    \/ GetResult(w) \/ Finish(w)

Over == (\A w \in Workflows : row[w] # "PENDING" /\ exec[w].pc = "none") /\ UNCHANGED vars

Next ==
    \/ \E w \in Workflows :
          \/ Step(w) \/ PollAgain(w) \/ Recover(w) \/ Collect(w)
          \/ CancelWorkflow(w) \/ ResumeWorkflow(w)
    \/ Crash \/ CascadeStart \/ CascadeCancel \/ CascadeList \/ Over

Spec == Init /\ [][Next]_vars

-----------------------------------------------------------------------------

\* Type invariant.
TypeOK ==
    /\ row \in [Workflows -> {None, "PENDING"} \cup Ended]
    /\ \A w \in Workflows :
          /\ link[w] \subseteq Children(w)
          /\ got[w] \in [Children(w) -> {None} \cup Ended]
          /\ saw[w] \in [Children(w) -> {None} \cup Ended]
          /\ exec[w].pc \in {"none", "call", "init", "link", "relink", "wait", "got", "return"}
          /\ exec[w].at \in 1..Len(Kids[w]) + 1
    /\ cascade.pc \in {"none", "cancel", "list", "done"}
    /\ cascade.frontier \subseteq cascade.visited /\ cascade.visited \subseteq Workflows

\* A workflow that is still to end. (execution and recovery of a tree)
Pending(w) == row[w] = "PENDING"

\* A child that is recorded as started has its row until that is collected,
\* wherever the parent crashed, so a replay never waits for a workflow that was
\* never inserted. (start_workflow: _init_workflow before
\* record_child_workflow)
LinkedExists == \A w \in DOMAIN link : \A c \in link[w] : row[c] # None \/ c \in collected

\* When a parent is executed again and asks for a child's result that it has
\* recorded before, it gets the recorded result, as long as no workflow is
\* resumed or collected. (record_get_result, which has no corresponding check)
ReplaySame ==
    resumes = 0 /\ collected = {} =>
        \A w \in DOMAIN got : \A c \in DOMAIN got[w] :
            saw[w][c] # None /\ got[w][c] # None => saw[w][c] = got[w][c]

\* A parent that is executed again finds the children that it has recorded,
\* and gets the results that it got before (record_child_workflow,
\* record_get_result).
ChildrenReplayed == LinkedExists /\ ReplaySame

\* When a cancellation with children is over, the workflows of the tree that
\* existed when it began are cancelled or had ended, except for those that
\* were resumed since. With garbage collection, a child whose parent is gone
\* is not reached. (cancel_workflows, _get_direct_children)
CascadeReaches ==
    cascade.pc = "done" /\ collected = {} =>
        \A w \in target : row[w] = "PENDING" => w \in revived
=============================================================================
