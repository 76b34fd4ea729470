------------------------- MODULE WorkflowTreeProofs -------------------------
(***************************************************************************)
(* Families of workflows, for any tree and any number of crashes, cancels, *)
(* resumptions and cascades: a parent that is executed again finds the     *)
(* children it has recorded and the results it got from them, and a        *)
(* cancellation with children reaches all of the tree that was there when  *)
(* it began. The argument for the cascade is over the tree: what is there  *)
(* has a parent that was there, and the children of what the cascade has   *)
(* listed are listed.                                                      *)
(***************************************************************************)
EXTENDS WorkflowTree, TLAPS

PCs == {"none", "call", "init", "link", "relink", "wait", "got", "return"}

\* The variables have their types, and an execution that is at a call is at one
\* of the calls that its function makes.
Types ==
    /\ row \in [Workflows -> {None, "PENDING"} \cup Ended]
    /\ link \in [Workflows -> SUBSET Workflows]
    /\ exec \in [Workflows -> [pc : PCs, at : Nat]]
    /\ got = [w \in Workflows |-> got[w]] /\ saw = [w \in Workflows |-> saw[w]]
    /\ \A w \in Workflows :
          /\ link[w] \subseteq Children(w)
          /\ got[w] \in [Children(w) -> {None} \cup Ended]
          /\ saw[w] \in [Children(w) -> {None} \cup Ended]
          /\ exec[w].at \in 1..Len(Kids[w]) + 1
          /\ exec[w].pc \in {"init", "link", "relink", "wait", "got"} =>
                exec[w].at \in 1..Len(Kids[w])
    /\ cascade \in [pc : {"none", "cancel", "list", "done"},
                    frontier : SUBSET Workflows, visited : SUBSET Workflows]
    /\ cascade.frontier \subseteq cascade.visited
    /\ target \subseteq Workflows /\ collected \subseteq Workflows /\ resumes \in Nat

\* A child is recorded as started after its row was inserted.
LinkInv ==
    \A w \in Workflows :
        /\ \A c \in link[w] : row[c] # None \/ c \in collected
        /\ exec[w].pc \in {"link", "relink"} =>
              row[Child(w)] # None \/ Child(w) \in collected

\* What executes has a row that has not ended, and is not about to be started a
\* second time by its parent.
SingleInv ==
    \A w \in Workflows :
        /\ exec[w].pc # "none" => row[w] \in {"PENDING", "CANCELLED"}
        /\ exec[w].pc = "link" =>
              exec[Child(w)].pc = "none" /\ row[Child(w)] \in {"PENDING", "CANCELLED"}

\* The results an execution has in hand, and those recorded, are what the
\* children ended with.
ResultInv ==
    \A w \in Workflows : \A c \in Children(w) :
        /\ got[w][c] # None => row[c] \in Ended /\ got[w][c] = row[c]
        /\ saw[w][c] # None => row[c] \in Ended /\ saw[w][c] = row[c]

\* A workflow has a row only if its parent has one.
Rooted(ws) == \A w \in ws : w = Root \/ ParentOf(w) \cap ws # {}
Present == {w \in Workflows : row[w] # None}
PresentInv == Root \in Present /\ Rooted(Present) /\ target \subseteq Present /\ Rooted(target)

\* The part of the tree that the cascade has cancelled, and what it knows of the
\* rest: all children, of those that were there at first, of what it has listed.
Done == IF cascade.pc = "cancel" THEN cascade.visited \ cascade.frontier ELSE cascade.visited
CascadeInv ==
    cascade.pc # "none" =>
        /\ Root \in cascade.visited /\ cascade.visited \subseteq Present
        /\ \A w \in Done : row[w] = "PENDING" => w \in revived
        /\ \A w \in cascade.visited \ cascade.frontier :
              Children(w) \cap target \subseteq cascade.visited
        /\ cascade.pc = "done" => cascade.frontier = {}

TreeInv ==
    /\ Types /\ LinkInv
    /\ collected = {} => SingleInv /\ PresentInv /\ CascadeInv
    /\ collected = {} /\ resumes = 0 => ResultInv

-----------------------------------------------------------------------------

LEMMA ChildrenOf ==
  ASSUME TreeAssumption, NEW w \in Workflows
  PROVE  /\ Children(w) \subseteq Workflows
         /\ \A c \in Children(w) : w \in ParentOf(c)
         /\ \A i \in 1..Len(Kids[w]) : Kids[w][i] \in Children(w)
<1>1. Kids[w] \in Seq(Workflows)
  BY DEF TreeAssumption
<1>2. DOMAIN Kids[w] = 1..Len(Kids[w]) /\ \A i \in 1..Len(Kids[w]) : Kids[w][i] \in Workflows
  BY <1>1
<1> QED
  BY <1>2 DEF Children, ParentOf

LEMMA LenKids ==
  ASSUME TreeAssumption
  PROVE  \A w \in Workflows : Len(Kids[w]) \in Nat
<1> TAKE w \in Workflows
<1>1. Kids[w] \in Seq(Workflows)
  BY DEF TreeAssumption
<1> QED
  BY <1>1

LEMMA OneParent ==
  ASSUME TreeAssumption, NEW c \in Workflows, NEW p \in ParentOf(c), NEW q \in ParentOf(c)
  PROVE  p = q
  BY DEF TreeAssumption

LEMMA NoneDiffers ==
  ASSUME TreeAssumption
  PROVE  /\ None # "PENDING" /\ None # "SUCCESS" /\ None # "ERROR" /\ None # "CANCELLED"
         /\ None \notin Ended /\ "PENDING" \notin Ended
  BY DEF TreeAssumption, Ended

\* The child of the call an execution is at.
LEMMA AtChild ==
  ASSUME TreeAssumption, Types, NEW w \in Workflows,
         exec[w].pc \in {"init", "link", "relink", "wait", "got"}
  PROVE  Child(w) \in Children(w) /\ Child(w) \in Workflows /\ w \in ParentOf(Child(w))
<1>1. exec[w].at \in 1..Len(Kids[w])
  BY DEF Types
<1>2. Child(w) \in Children(w)
  BY <1>1, ChildrenOf DEF Child
<1> QED
  BY <1>2, ChildrenOf

LEMMA TypesInit ==
  ASSUME TreeAssumption, Init
  PROVE  Types
<1>1. \A w \in Workflows : Len(Kids[w]) \in Nat
  BY LenKids
<1>2. exec \in [Workflows -> [pc : PCs, at : Nat]]
  BY DEF Init, Begin, NoExec, PCs
<1>3. \A w \in Workflows : exec[w].at = 1 /\ exec[w].pc \in {"none", "call"}
  BY DEF Init, Begin, NoExec
<1>4. cascade = NoCascade /\ target = {} /\ collected = {} /\ resumes = 0
  BY DEF Init
<1>5. row \in [Workflows -> {None, "PENDING"} \cup Ended] /\ link \in [Workflows -> SUBSET Workflows]
  BY DEF Init
<1>6. \A w \in Workflows :
          /\ link[w] \subseteq Children(w)
          /\ got[w] \in [Children(w) -> {None} \cup Ended]
          /\ saw[w] \in [Children(w) -> {None} \cup Ended]
  BY DEF Init
<1>7. got = [w \in Workflows |-> got[w]] /\ saw = [w \in Workflows |-> saw[w]]
  BY DEF Init
<1> QED
  BY <1>1, <1>2, <1>3, <1>4, <1>5, <1>6, <1>7 DEF Types, NoCascade

LEMMA TypesStep ==
  ASSUME TreeAssumption, Types, [Next]_vars
  PROVE  Types'
<1> USE DEF db, bounds, history
<1>0. \A w \in Workflows : Len(Kids[w]) \in Nat
  BY LenKids
<1>1. ASSUME NEW w \in Workflows, CheckChild(w)
      PROVE  Types'
  <2>1. exec[w].at > Len(Kids[w]) \/ exec[w].at \in 1..Len(Kids[w])
    BY <1>0 DEF Types
  <2>2. PICK pc \in {"return", "none", "wait", "init"} :
          Goto(w, pc) /\ (pc \in {"wait", "init"} => exec[w].at \in 1..Len(Kids[w]))
    BY <1>1, <2>1, <1>0 DEF CheckChild, Types
  <2> QED
    BY <1>1, <2>2 DEF CheckChild, Goto, Types, PCs
<1>2. ASSUME NEW w \in Workflows, InitChild(w)
      PROVE  Types'
  <2>1. Child(w) \in Workflows
    BY <1>2, AtChild DEF InitChild
  <2>2. PICK pc \in {"link", "relink"} : exec' = [exec EXCEPT ![w].pc = pc]
    BY <1>2 DEF InitChild, Goto
  <2>3. row' \in [Workflows -> {None, "PENDING"} \cup Ended]
    BY <1>2, <2>1 DEF InitChild, Types
  <2>4. exec[w].pc = "init"
    BY <1>2 DEF InitChild
  <2> QED
    BY <1>2, <2>2, <2>3, <2>4 DEF InitChild, Types, PCs
<1>3. ASSUME NEW w \in Workflows, LinkChild(w)
      PROVE  Types'
  <2>1. Child(w) \in Workflows /\ Child(w) \in Children(w)
    BY <1>3, AtChild DEF LinkChild
  <2>2. CASE row[w] = None /\ UNCHANGED link /\ Goto(w, "return")
    BY <1>3, <2>2 DEF LinkChild, Goto, Types, PCs
  <2>3. CASE /\ row[w] # None
             /\ link' = [link EXCEPT ![w] = @ \cup {Child(w)}]
             /\ exec' = [exec EXCEPT ![w].pc = "wait",
                                     ![Child(w)] = IF exec[w].pc = "link" THEN Begin ELSE @]
    <3> DEFINE waits == [exec[w] EXCEPT !.pc = "wait"]
    <3>a. waits \in [pc : PCs, at : Nat] /\ waits.at = exec[w].at /\ waits.pc = "wait"
      BY DEF Types, PCs
    <3>b. exec' = [exec EXCEPT ![w] = waits,
                               ![Child(w)] = IF exec[w].pc = "link" THEN Begin ELSE @]
      BY <2>3
    <3> HIDE DEF waits
    <3>0. /\ exec' \in [Workflows -> [pc : PCs, at : Nat]]
          /\ \A v \in Workflows :
                exec'[v] = exec[v] \/ exec'[v] = Begin \/ (v = w /\ exec'[v] = waits)
      <4> DEFINE c == Child(w)
                 R == [pc : PCs, at : Nat]
      <4>1. exec \in [Workflows -> R] /\ c \in Workflows /\ Begin \in R /\ waits \in R
        BY <2>1, <3>a DEF Types, Begin, PCs
      <4>2. exec' = [exec EXCEPT ![w] = waits, ![c] = IF exec[w].pc = "link" THEN Begin ELSE @]
        BY <3>b
      <4> HIDE DEF c, R
      <4>3. exec' \in [Workflows -> R]
        BY <4>1, <4>2
      <4>4. ASSUME NEW v \in Workflows
            PROVE  exec'[v] = exec[v] \/ exec'[v] = Begin \/ (v = w /\ exec'[v] = waits)
        BY <4>1, <4>2
      <4> QED
        BY <4>3, <4>4 DEF R
    <3>2. \A v \in Workflows :
            /\ exec'[v].at \in 1..Len(Kids[v]) + 1
            /\ exec'[v].pc \in {"init", "link", "relink", "wait", "got"} =>
                  exec'[v].at \in 1..Len(Kids[v])
      <4>1. exec[w].at \in 1..Len(Kids[w])
        BY <1>3 DEF Types, LinkChild
      <4> TAKE v \in Workflows
      <4>2. CASE exec'[v] = exec[v]
        BY <4>2 DEF Types
      <4>3. CASE exec'[v] = Begin
        BY <1>0, <4>3 DEF Begin
      <4>4. CASE v = w /\ exec'[v] = waits
        BY <1>0, <3>a, <4>1, <4>4
      <4> QED
        BY <3>0, <4>2, <4>3, <4>4
    <3>3. link' \in [Workflows -> SUBSET Workflows]
          /\ \A v \in Workflows : link'[v] \subseteq Children(v)
      BY <2>1, <2>3 DEF Types
    <3> QED
      BY <1>3, <3>0, <3>2, <3>3 DEF LinkChild, Types
  <2> QED
    BY <1>3, <2>2, <2>3 DEF LinkChild
<1>4. ASSUME NEW w \in Workflows, AwaitChild(w)
      PROVE  Types'
  <2>1. Child(w) \in Workflows /\ Child(w) \in Children(w)
    BY <1>4, AtChild DEF AwaitChild
  <2>2. saw' = [saw EXCEPT ![w] = [saw[w] EXCEPT ![Child(w)] = row[Child(w)]]]
    BY <1>4 DEF AwaitChild
  <2>3. saw' = [v \in Workflows |-> saw'[v]]
    BY <2>2 DEF Types
  <2>4. \A v \in Workflows : saw'[v] \in [Children(v) -> {None} \cup Ended]
    BY <1>4, <2>1, <2>2 DEF AwaitChild, Types
  <2>5. exec' = [exec EXCEPT ![w].pc = "got"] /\ exec[w].pc = "wait"
    BY <1>4 DEF AwaitChild, Goto
  <2> QED
    BY <1>4, <2>3, <2>4, <2>5 DEF AwaitChild, Types, PCs
<1>5. ASSUME NEW w \in Workflows, RecordGetResult(w)
      PROVE  Types'
  <2>1. Child(w) \in Workflows /\ Child(w) \in Children(w)
    BY <1>5, AtChild DEF RecordGetResult
  <2>2. got' = [got EXCEPT ![w] = [got[w] EXCEPT ![Child(w)] =
              IF @ = None /\ row[w] # None THEN saw[w][Child(w)] ELSE @]]
    BY <1>5 DEF RecordGetResult
  <2>3. got' = [v \in Workflows |-> got'[v]]
    BY <2>2 DEF Types
  <2>4. \A v \in Workflows : got'[v] \in [Children(v) -> {None} \cup Ended]
    BY <2>1, <2>2 DEF Types
  <2>5. \/ exec' = [exec EXCEPT ![w] = [pc |-> "call", at |-> exec[w].at + 1]]
        \/ exec' = [exec EXCEPT ![w].pc = "return"]
    BY <1>5 DEF RecordGetResult, Goto
  <2>6. exec[w].at \in 1..Len(Kids[w])
    BY <1>5 DEF RecordGetResult, Types
  <2>7. exec' \in [Workflows -> [pc : PCs, at : Nat]]
    BY <1>0, <2>5, <2>6 DEF Types, PCs
  <2>8. \A v \in Workflows :
          /\ exec'[v].at \in 1..Len(Kids[v]) + 1
          /\ exec'[v].pc \in {"init", "link", "relink", "wait", "got"} =>
                exec'[v].at \in 1..Len(Kids[v])
    <3>1. CASE exec' = [exec EXCEPT ![w] = [pc |-> "call", at |-> exec[w].at + 1]]
      BY <1>0, <2>6, <3>1 DEF Types, PCs
    <3>2. CASE exec' = [exec EXCEPT ![w].pc = "return"]
      BY <1>0, <2>6, <3>2 DEF Types, PCs
    <3> QED
      BY <2>5, <3>1, <3>2
  <2> QED
    BY <1>5, <2>3, <2>4, <2>7, <2>8 DEF RecordGetResult, Types
<1>6. ASSUME NEW w \in Workflows, Finish(w)
      PROVE  Types'
  <2>1. row' \in [Workflows -> {None, "PENDING"} \cup Ended]
    BY <1>6 DEF Finish, Types, Ended
  <2>2. exec' = [exec EXCEPT ![w].pc = "none"]
    BY <1>6 DEF Finish, Goto
  <2> QED
    BY <1>6, <2>1, <2>2 DEF Finish, Types, PCs
<1>7. ASSUME NEW w \in Workflows, Recover(w)
      PROVE  Types'
  <2>1. exec' = [exec EXCEPT ![w] = Begin] /\ saw' = [saw EXCEPT ![w] = [c \in Children(w) |-> None]]
    BY <1>7 DEF Recover
  <2>2. saw' = [v \in Workflows |-> saw'[v]]
        /\ \A v \in Workflows : saw'[v] \in [Children(v) -> {None} \cup Ended]
    BY <2>1 DEF Types
  <2>3. exec' \in [Workflows -> [pc : PCs, at : Nat]]
    BY <2>1 DEF Types, PCs, Begin
  <2>4. \A v \in Workflows :
          /\ exec'[v].at \in 1..Len(Kids[v]) + 1
          /\ exec'[v].pc \in {"init", "link", "relink", "wait", "got"} =>
                exec'[v].at \in 1..Len(Kids[v])
    BY <1>0, <2>1 DEF Types, PCs, Begin
  <2> QED
    BY <1>7, <2>2, <2>3, <2>4 DEF Recover, Types
<1>8. ASSUME NEW w \in Workflows, Collect(w)
      PROVE  Types'
  <2>1. got' = [got EXCEPT ![w] = [c \in Children(w) |-> None]]
    BY <1>8 DEF Collect
  <2>2. got' = [v \in Workflows |-> got'[v]]
        /\ \A v \in Workflows : got'[v] \in [Children(v) -> {None} \cup Ended]
    BY <2>1 DEF Types
  <2> QED
    BY <1>8, <2>2 DEF Collect, Types
<1>9. ASSUME NEW w \in Workflows, CancelWorkflow(w)
      PROVE  Types'
  BY <1>9 DEF CancelWorkflow, Cancelled, Types, Ended
<1>10. ASSUME NEW w \in Workflows, ResumeWorkflow(w)
       PROVE  Types'
  BY <1>10 DEF ResumeWorkflow, Types
<1>11. ASSUME Crash
       PROVE  Types'
  BY <1>0, <1>11 DEF Crash, NoExec, Types, PCs
<1>12. ASSUME CascadeStart
       PROVE  Types'
  BY <1>12 DEF CascadeStart, Types, TreeAssumption
<1>13. ASSUME CascadeCancel
       PROVE  Types'
  BY <1>13 DEF CascadeCancel, Cancelled, Types, Ended
<1>14. ASSUME CascadeList
       PROVE  Types'
  <2> DEFINE next == DirectChildren(cascade.frontier) \ cascade.visited
  <2>1. next \subseteq Workflows
    BY DEF DirectChildren
  <2>2. cascade' = [pc |-> IF next = {} THEN "done" ELSE "cancel",
                    frontier |-> next, visited |-> cascade.visited \cup next]
    BY <1>14 DEF CascadeList
  <2> HIDE DEF next
  <2> QED
    BY <1>14, <2>1, <2>2 DEF CascadeList, Types
<1>15. CASE UNCHANGED vars
  BY <1>15 DEF vars, Types
<1> QED
  BY <1>1, <1>2, <1>3, <1>4, <1>5, <1>6, <1>7, <1>8, <1>9, <1>10, <1>11, <1>12, <1>13, <1>14,
     <1>15 DEF Next, Step, GetResult, PollAgain, Over

-----------------------------------------------------------------------------

\* What a step does to the row of a workflow.
RowMove(v) ==
    \/ row'[v] = row[v]
    \/ row[v] = None /\ row'[v] = "PENDING" /\ \E w \in Workflows : InitChild(w) /\ Child(w) = v
    \/ row[v] = "PENDING" /\ row'[v] = "CANCELLED"
    \/ row[v] \notin {"CANCELLED", None} /\ exec[v].pc = "return" /\ exec'[v].pc = "none"
       /\ row'[v] \in {"SUCCESS", "ERROR"}
    \/ row[v] = "CANCELLED" /\ row'[v] = "PENDING" /\ v \in revived' /\ resumes' # 0
    \/ v \in collected'

\* And to its execution.
ExecMove(v) ==
    \/ exec'[v] = exec[v]
    \/ exec'[v].pc = "none"
    \/ exec[v].pc # "none" /\ exec'[v].pc \in {"call", "init", "wait", "got", "return"}
    \/ exec'[v] = Begin /\ Recover(v)
    \/ /\ exec'[v] = Begin
       /\ \E p \in Workflows : /\ exec[p].pc = "link" /\ Child(p) = v
                               /\ exec'[p].pc = "wait" \/ p = v
    \/ /\ InitChild(v) /\ exec'[v].at = exec[v].at
       /\ exec'[v].pc = IF row[Child(v)] = None THEN "link" ELSE "relink"
       /\ \A u \in Workflows \ {v} : exec'[u] = exec[u]

LEMMA Moves ==
  ASSUME TreeAssumption, Types, [Next]_vars
  PROVE  /\ \A v \in Workflows : RowMove(v) /\ ExecMove(v)
         /\ collected \subseteq collected'
         /\ resumes' = 0 => resumes = 0
         /\ \/ UNCHANGED <<cascade, target>> /\ revived \subseteq revived'
            \/ CascadeStart \/ CascadeCancel \/ CascadeList
<1> USE DEF db, bounds, history
<1> DEFINE Goal ==
        /\ \A v \in Workflows : RowMove(v) /\ ExecMove(v)
        /\ collected \subseteq collected'
        /\ resumes' = 0 => resumes = 0
        /\ \/ UNCHANGED <<cascade, target>> /\ revived \subseteq revived'
           \/ CascadeStart \/ CascadeCancel \/ CascadeList
<1>1. ASSUME NEW w \in Workflows, CheckChild(w)
      PROVE  Goal
  <2>1. PICK pc \in {"return", "none", "wait", "init"} : exec' = [exec EXCEPT ![w].pc = pc]
    BY <1>1 DEF CheckChild, Goto
  <2> QED
    BY <1>1, <2>1 DEF CheckChild, Types, RowMove, ExecMove
<1>2. ASSUME NEW w \in Workflows, InitChild(w)
      PROVE  Goal
  <2>1. exec' = [exec EXCEPT ![w].pc = IF row[Child(w)] = None THEN "link" ELSE "relink"]
    BY <1>2 DEF InitChild, Goto
  <2>2. \A v \in Workflows : ExecMove(v)
    BY <1>2, <2>1 DEF ExecMove, Types
  <2>3. \A v \in Workflows : RowMove(v)
    BY <1>2, AtChild DEF RowMove, InitChild, Types
  <2> QED
    BY <1>2, <2>2, <2>3 DEF InitChild
<1>3. ASSUME NEW w \in Workflows, LinkChild(w)
      PROVE  Goal
  <2>1. Child(w) \in Workflows
    BY <1>3, AtChild DEF LinkChild
  <2>2. \A v \in Workflows : RowMove(v)
    BY <1>3 DEF LinkChild, RowMove
  <2>3. \A v \in Workflows : ExecMove(v)
    <3>1. CASE Goto(w, "return")
      BY <1>3, <3>1 DEF LinkChild, Goto, ExecMove, Types
    <3>2. CASE exec' = [exec EXCEPT ![w].pc = "wait",
                                    ![Child(w)] = IF exec[w].pc = "link" THEN Begin ELSE @]
      <4> DEFINE waits == [exec[w] EXCEPT !.pc = "wait"]
                 c == Child(w)
                 R == [pc : PCs, at : Nat]
      <4>1. exec \in [Workflows -> R] /\ waits.pc = "wait" /\ c \in Workflows
        BY <2>1 DEF Types
      <4>2. exec' = [exec EXCEPT ![w] = waits, ![c] = IF exec[w].pc = "link" THEN Begin ELSE @]
        BY <3>2
      <4>3. exec[w].pc \in {"link", "relink"}
        BY <1>3 DEF LinkChild
      <4> HIDE DEF waits, c, R
      <4>4. ASSUME NEW v \in Workflows
            PROVE  \/ exec'[v] = exec[v]
                   \/ v = w /\ exec'[v] = waits
                   \/ v = c /\ exec[w].pc = "link" /\ exec'[v] = Begin
        BY <4>1, <4>2
      <4>5. w # c => exec'[w] = waits
        BY <4>1, <4>2
      <4> QED
        BY <4>1, <4>3, <4>4, <4>5 DEF ExecMove, c
    <3> QED
      BY <1>3, <3>1, <3>2 DEF LinkChild
  <2> QED
    BY <1>3, <2>2, <2>3 DEF LinkChild
<1>4. ASSUME NEW w \in Workflows, AwaitChild(w)
      PROVE  Goal
  BY <1>4 DEF AwaitChild, Goto, Types, RowMove, ExecMove
<1>5. ASSUME NEW w \in Workflows, RecordGetResult(w)
      PROVE  Goal
  BY <1>5 DEF RecordGetResult, Goto, Types, RowMove, ExecMove
<1>6. ASSUME NEW w \in Workflows, Finish(w)
      PROVE  Goal
  <2>1. exec' = [exec EXCEPT ![w].pc = "none"] /\ exec[w].pc = "return"
    BY <1>6 DEF Finish, Goto
  <2>2. PICK s \in {"SUCCESS", "ERROR"} :
          row' = [row EXCEPT ![w] = IF @ \in {"CANCELLED", None} THEN @ ELSE s]
    BY <1>6 DEF Finish
  <2>3. \A v \in Workflows : ExecMove(v)
    BY <2>1 DEF ExecMove, Types
  <2>4. \A v \in Workflows : RowMove(v)
    BY <2>1, <2>2 DEF RowMove, Types
  <2> QED
    BY <1>6, <2>3, <2>4 DEF Finish
<1>7. ASSUME NEW w \in Workflows, Recover(w)
      PROVE  Goal
  <2>1. exec' = [exec EXCEPT ![w] = Begin]
    BY <1>7 DEF Recover
  <2>2. \A v \in Workflows : ExecMove(v)
    BY <1>7, <2>1 DEF ExecMove, Types
  <2> QED
    BY <1>7, <2>2 DEF Recover, RowMove
<1>8. ASSUME NEW w \in Workflows, Collect(w)
      PROVE  Goal
  BY <1>8 DEF Collect, Types, RowMove, ExecMove
<1>9. ASSUME NEW w \in Workflows, CancelWorkflow(w)
      PROVE  Goal
  BY <1>9 DEF CancelWorkflow, Cancelled, Types, RowMove, ExecMove
<1>10. ASSUME NEW w \in Workflows, ResumeWorkflow(w)
       PROVE  Goal
  BY <1>10 DEF ResumeWorkflow, Types, RowMove, ExecMove
<1>11. ASSUME Crash
       PROVE  Goal
  BY <1>11 DEF Crash, NoExec, Types, RowMove, ExecMove
<1>12. ASSUME CascadeStart
       PROVE  Goal
  BY <1>12 DEF CascadeStart, RowMove, ExecMove
<1>13. ASSUME CascadeCancel
       PROVE  Goal
  BY <1>13 DEF CascadeCancel, Cancelled, Types, RowMove, ExecMove
<1>14. ASSUME CascadeList
       PROVE  Goal
  BY <1>14 DEF CascadeList, RowMove, ExecMove
<1>15. CASE UNCHANGED vars
  BY <1>15 DEF vars, RowMove, ExecMove
<1> QED
  BY <1>1, <1>2, <1>3, <1>4, <1>5, <1>6, <1>7, <1>8, <1>9, <1>10, <1>11, <1>12, <1>13, <1>14,
     <1>15 DEF Next, Step, GetResult, PollAgain, Over

-----------------------------------------------------------------------------

LEMMA LinkStep ==
  ASSUME TreeAssumption, Types, LinkInv, [Next]_vars
  PROVE  LinkInv'
<1>1. Types'
  BY TypesStep
<1>2. \A v \in Workflows : row[v] # None \/ v \in collected => row'[v] # None \/ v \in collected'
  BY Moves, NoneDiffers DEF RowMove
<1>3. ASSUME NEW w \in Workflows, NEW c \in link'[w]
      PROVE  row'[c] # None \/ c \in collected'
  <2>1. c \in link[w] \/ (LinkChild(w) /\ c = Child(w) /\ exec[w].pc \in {"link", "relink"})
    <3>1. UNCHANGED link \/ \E u \in Workflows : LinkChild(u) \/ Collect(u)
      BY DEF Next, vars, db, Step, GetResult, CheckChild, InitChild, AwaitChild,
             RecordGetResult, Finish, PollAgain, Recover, CancelWorkflow, ResumeWorkflow, Crash,
             CascadeStart, CascadeCancel, CascadeList, Over
    <3>2. ASSUME NEW u \in Workflows, LinkChild(u)
          PROVE  c \in link[w] \/ (u = w /\ c = Child(w) /\ exec[w].pc \in {"link", "relink"})
      BY <1>3, <3>2 DEF LinkChild, Types
    <3>3. ASSUME NEW u \in Workflows, Collect(u)
          PROVE  c \in link[w]
      BY <1>3, <3>3 DEF Collect, Types
    <3> QED
      BY <1>3, <3>1, <3>2, <3>3
  <2>2. row[c] # None \/ c \in collected
    BY <2>1 DEF LinkInv
  <2>3. c \in Workflows
    BY <1>1, <1>3 DEF Types
  <2> QED
    BY <1>2, <2>2, <2>3
<1>4. ASSUME NEW w \in Workflows, exec'[w].pc \in {"link", "relink"}
      PROVE  row'[Child(w)'] # None \/ Child(w)' \in collected'
  <2>1. \/ exec'[w] = exec[w]
        \/ InitChild(w) /\ exec'[w].at = exec[w].at
    BY <1>4, Moves DEF ExecMove, Begin
  <2>2. Child(w)' = Child(w)
    BY <2>1 DEF Child
  <2>3. exec[w].pc \in {"init", "link", "relink"}
    BY <1>4, <2>1 DEF InitChild
  <2>4. Child(w) \in Workflows
    BY <2>3, AtChild
  <2>5. CASE exec'[w] = exec[w]
    <3>1. row[Child(w)] # None \/ Child(w) \in collected
      BY <1>4, <2>5 DEF LinkInv
    <3> QED
      BY <1>2, <2>2, <2>4, <3>1
  <2>6. CASE InitChild(w)
    BY <2>2, <2>4, <2>6, NoneDiffers DEF InitChild, Types
  <2> QED
    BY <2>1, <2>5, <2>6
<1> QED
  BY <1>3, <1>4 DEF LinkInv

LEMMA SingleStep ==
  ASSUME TreeAssumption, Types, SingleInv, [Next]_vars, collected' = {}
  PROVE  SingleInv'
<1>1. /\ \A v \in Workflows : RowMove(v) /\ ExecMove(v)
      /\ collected' = {}
  BY Moves
<1>2. ASSUME NEW v \in Workflows, row[v] \in {"PENDING", "CANCELLED"}, exec[v].pc # "return" \/ exec'[v].pc # "none"
      PROVE  row'[v] \in {"PENDING", "CANCELLED"}
  BY <1>1, <1>2, NoneDiffers DEF RowMove
<1>3. ASSUME NEW v \in Workflows, exec'[v].pc # "none"
      PROVE  row'[v] \in {"PENDING", "CANCELLED"}
  <2>1. row[v] \in {"PENDING", "CANCELLED"}
    <3>1. CASE exec[v].pc # "none"
      BY <3>1 DEF SingleInv
    <3>2. CASE Recover(v)
      BY <3>2 DEF Recover
    <3>3. CASE \E p \in Workflows : exec[p].pc = "link" /\ Child(p) = v
      BY <3>3 DEF SingleInv
    <3>4. CASE InitChild(v)
      BY <3>4, <3>1 DEF InitChild
    <3> QED
      BY <1>1, <1>3, <3>1, <3>2, <3>3, <3>4 DEF ExecMove
  <2> QED
    BY <1>2, <1>3, <2>1
<1>4. ASSUME NEW v \in Workflows, exec'[v].pc = "link"
      PROVE  exec'[Child(v)'].pc = "none" /\ row'[Child(v)'] \in {"PENDING", "CANCELLED"}
  <2>1. \/ exec'[v] = exec[v]
        \/ /\ InitChild(v) /\ exec'[v].at = exec[v].at /\ row[Child(v)] = None
           /\ \A u \in Workflows \ {v} : exec'[u] = exec[u]
    BY <1>1, <1>4 DEF ExecMove, Begin
  <2>2. Child(v)' = Child(v)
    BY <2>1 DEF Child
  <2>3. Child(v) \in Workflows /\ v \in ParentOf(Child(v))
    BY <1>4, <2>1, AtChild DEF InitChild
  <2>4. CASE exec'[v] = exec[v]
    <3>1. exec[Child(v)].pc = "none" /\ row[Child(v)] \in {"PENDING", "CANCELLED"}
      BY <1>4, <2>4 DEF SingleInv
    <3>2. ~Recover(Child(v))
      BY <1>4, <2>3, <2>4 DEF Recover
    <3>3. ~InitChild(Child(v))
      BY <3>1 DEF InitChild
    <3>4. ASSUME NEW p \in Workflows, exec[p].pc = "link", Child(p) = Child(v)
          PROVE  exec'[p].pc = "link" /\ p # Child(v)
      <4>1. p \in ParentOf(Child(v))
        BY <3>4, AtChild
      <4>2. p = v
        BY <2>3, <4>1, OneParent
      <4> QED
        BY <1>4, <2>4, <3>1, <4>2
    <3>5. ExecMove(Child(v))
      BY <1>1, <2>3
    <3>6. exec'[Child(v)].pc = "none"
      BY <3>1, <3>2, <3>3, <3>4, <3>5 DEF ExecMove
    <3> QED
      BY <1>2, <2>2, <2>3, <3>1, <3>6
  <2>5. CASE /\ InitChild(v) /\ row[Child(v)] = None
             /\ \A u \in Workflows \ {v} : exec'[u] = exec[u]
    <3>1. exec[v].pc = "init" /\ row[v] \in {"PENDING", "CANCELLED"}
      BY <2>5 DEF InitChild, SingleInv
    <3>2. Child(v) # v /\ exec[Child(v)].pc = "none"
      BY <2>3, <2>5, <3>1, NoneDiffers DEF SingleInv
    <3>3. row'[Child(v)] = "PENDING"
      BY <2>3, <2>5 DEF InitChild, Types
    <3> QED
      BY <2>2, <2>3, <2>5, <3>2, <3>3
  <2> QED
    BY <2>1, <2>4, <2>5
<1> QED
  BY <1>3, <1>4 DEF SingleInv

LEMMA PresentStep ==
  ASSUME TreeAssumption, Types, SingleInv, PresentInv, [Next]_vars, collected' = {}
  PROVE  PresentInv' /\ Present \subseteq Present'
<1>1. \A v \in Workflows : RowMove(v)
  BY Moves
<1>2. Present \subseteq Present'
  BY <1>1, NoneDiffers DEF Present, RowMove
<1>3. ASSUME NEW v \in Present'
      PROVE  v = Root \/ ParentOf(v) \cap Present' # {}
  <2>1. CASE v \in Present
    BY <1>2, <2>1 DEF PresentInv, Rooted
  <2>2. CASE v \notin Present
    <3>1. PICK w \in Workflows : InitChild(w) /\ Child(w) = v
      BY <1>1, <1>3, <2>2, NoneDiffers DEF Present, RowMove
    <3>2. w \in ParentOf(v) /\ exec[w].pc # "none"
      BY <3>1, AtChild DEF InitChild
    <3>3. w \in Present
      BY <3>2, NoneDiffers DEF SingleInv, Present
    <3> QED
      BY <1>2, <3>2, <3>3
  <2> QED
    BY <2>1, <2>2
<1>4. target' \subseteq Present' /\ Rooted(target)'
  <2>1. CASE target' = target
    BY <1>2, <2>1 DEF PresentInv, Rooted
  <2>2. CASE CascadeStart
    <3>1. target' = Present
      BY <2>2 DEF CascadeStart, Present
    <3> QED
      BY <1>2, <3>1 DEF PresentInv, Rooted
  <2>3. target' = target \/ CascadeStart
    BY Moves DEF CascadeCancel, CascadeList, history
  <2> QED
    BY <2>1, <2>2, <2>3
<1> QED
  BY <1>2, <1>3, <1>4 DEF PresentInv, Rooted

LEMMA CascadeStep ==
  ASSUME TreeAssumption, Types, SingleInv, PresentInv, CascadeInv, [Next]_vars, collected' = {}
  PROVE  CascadeInv'
<1>1. \A v \in Workflows : RowMove(v)
  BY Moves
<1>2. Present \subseteq Present' /\ PresentInv'
  BY PresentStep
<1>3. CASE UNCHANGED <<cascade, target>> /\ revived \subseteq revived'
  <2>1. ASSUME NEW w \in Done, cascade.pc # "none", row'[w] = "PENDING"
        PROVE  w \in revived'
    <3>1. w \in Present /\ w \in Workflows /\ row[w] # None
      BY <2>1 DEF Done, CascadeInv, Present
    <3>2. row[w] = "PENDING" \/ w \in revived'
      BY <1>1, <2>1, <3>1 DEF RowMove
    <3> QED
      BY <1>3, <2>1, <3>2 DEF CascadeInv
  <2>2. Done' = Done
    BY <1>3 DEF Done
  <2> QED
    BY <1>2, <1>3, <2>1, <2>2 DEF CascadeInv
<1>4. CASE CascadeStart
  <2>1. cascade' = [pc |-> "cancel", frontier |-> {Root}, visited |-> {Root}]
    BY <1>4 DEF CascadeStart
  <2>2. Done' = {}
    BY <2>1 DEF Done
  <2> QED
    BY <1>2, <2>1, <2>2 DEF CascadeInv, PresentInv
<1>5. CASE CascadeCancel
  <2>1. /\ cascade.pc = "cancel" /\ cascade' = [cascade EXCEPT !.pc = "list"]
        /\ UNCHANGED <<target, revived>>
    BY <1>5 DEF CascadeCancel, history
  <2>2. /\ cascade'.pc = "list" /\ cascade'.frontier = cascade.frontier
        /\ cascade'.visited = cascade.visited
    BY <2>1 DEF Types
  <2>3. Done' = cascade.visited /\ Done = cascade.visited \ cascade.frontier
    BY <2>1, <2>2 DEF Done
  <2>4. ASSUME NEW w \in Done', row'[w] = "PENDING"
        PROVE  w \in revived
    <3>1. w \in Workflows
      BY <2>3 DEF Types
    <3>2. row[w] = "PENDING" /\ w \notin cascade.frontier
      BY <1>5, <2>4, <3>1 DEF CascadeCancel, Cancelled
    <3> QED
      BY <2>1, <2>3, <3>2 DEF CascadeInv
  <2> QED
    BY <1>2, <2>1, <2>2, <2>4 DEF CascadeInv
<1>6. CASE CascadeList
  <2> DEFINE next == DirectChildren(cascade.frontier) \ cascade.visited
  <2>1. /\ cascade.pc = "list" /\ UNCHANGED <<row, target, revived>>
        /\ cascade' = [pc |-> IF next = {} THEN "done" ELSE "cancel",
                       frontier |-> next, visited |-> cascade.visited \cup next]
    BY <1>6 DEF CascadeList, history, db
  <2>2. next \subseteq Present
    BY DEF DirectChildren, Present
  <2>3. ASSUME NEW w \in cascade.visited
        PROVE  Children(w) \cap target \subseteq cascade.visited \cup next
    <3>1. CASE w \notin cascade.frontier
      BY <2>1, <3>1 DEF CascadeInv
    <3>2. CASE w \in cascade.frontier
      <4>1. w \in Workflows
        BY DEF Types
      <4>2. ASSUME NEW c \in Children(w) \cap target
            PROVE  c \in DirectChildren(cascade.frontier)
        <5>1. c \in Workflows /\ row[c] # None
          BY <4>2 DEF PresentInv, Present
        <5>2. w \in ParentOf(c)
          BY <4>1, <4>2, ChildrenOf
        <5> QED
          BY <3>2, <5>1, <5>2 DEF DirectChildren
      <4> QED
        BY <4>2
    <3> QED
      BY <3>1, <3>2
  <2>4. next \cap cascade.visited = {}
    OBVIOUS
  <2> HIDE DEF next
  <2>5. Done = cascade.visited
    BY <2>1 DEF Done
  <2>6. Done' = cascade.visited
    BY <2>1, <2>4 DEF Done
  <2>7. cascade'.visited \ cascade'.frontier = cascade.visited
    BY <2>1, <2>4
  <2>8. Present' = Present
    BY <2>1 DEF Present
  <2> QED
    BY <2>1, <2>2, <2>3, <2>5, <2>6, <2>7, <2>8 DEF CascadeInv
<1> QED
  BY <1>3, <1>4, <1>5, <1>6, Moves

LEMMA ResultStep ==
  ASSUME TreeAssumption, Types, SingleInv, ResultInv, [Next]_vars, collected' = {}, resumes' = 0
  PROVE  ResultInv'
<1>1. \A v \in Workflows : RowMove(v)
  BY Moves
<1>2. ASSUME NEW v \in Workflows, row[v] \in Ended
      PROVE  row'[v] = row[v]
  BY <1>1, <1>2, NoneDiffers DEF RowMove, SingleInv
<1>3. ASSUME NEW w \in Workflows, NEW c \in Children(w)
      PROVE  /\ got'[w][c] \in {None, got[w][c], saw[w][c]}
             /\ \/ saw'[w][c] \in {None, saw[w][c]}
                \/ row[c] \in Ended /\ saw'[w][c] = row[c]
  <2>1. \/ UNCHANGED <<got, saw>>
        \/ \E u \in Workflows : AwaitChild(u) \/ RecordGetResult(u) \/ Recover(u) \/ Collect(u)
        \/ Crash
    BY DEF Next, vars, db, Step, GetResult, CheckChild, InitChild, LinkChild,
           Finish, PollAgain, CancelWorkflow, ResumeWorkflow,
           CascadeStart, CascadeCancel, CascadeList, Over
  <2>2. ASSUME NEW u \in Workflows, AwaitChild(u)
        PROVE  /\ got' = got
               /\ saw'[w][c] = saw[w][c] \/ (row[c] \in Ended /\ saw'[w][c] = row[c])
    <3>1. saw' = [saw EXCEPT ![u] = [saw[u] EXCEPT ![Child(u)] = row[Child(u)]]]
          /\ row[Child(u)] \in Ended /\ got' = got
      BY <2>2 DEF AwaitChild, db
    <3>2. CASE u = w
      <4>1. saw'[w] = [saw[w] EXCEPT ![Child(w)] = row[Child(w)]]
        BY <3>1, <3>2 DEF Types
      <4> QED
        BY <1>3, <3>1, <3>2, <4>1 DEF Types
    <3>3. CASE u # w
      BY <3>1, <3>3 DEF Types
    <3> QED
      BY <3>2, <3>3
  <2>3. ASSUME NEW u \in Workflows, RecordGetResult(u)
        PROVE  saw' = saw /\ got'[w][c] \in {got[w][c], saw[w][c]}
    <3>1. /\ saw' = saw
          /\ got' = [got EXCEPT ![u] = [got[u] EXCEPT ![Child(u)] =
                IF @ = None /\ row[u] # None THEN saw[u][Child(u)] ELSE @]]
      BY <2>3 DEF RecordGetResult
    <3>2. CASE u = w
      <4>1. got'[w] = [got[w] EXCEPT ![Child(w)] =
                IF @ = None /\ row[w] # None THEN saw[w][Child(w)] ELSE @]
        BY <3>1, <3>2 DEF Types
      <4> QED
        BY <1>3, <3>1, <4>1 DEF Types
    <3>3. CASE u # w
      BY <3>1, <3>3 DEF Types
    <3> QED
      BY <3>2, <3>3
  <2>4. ASSUME NEW u \in Workflows, Recover(u)
        PROVE  got' = got /\ saw'[w][c] \in {None, saw[w][c]}
    BY <1>3, <2>4 DEF Recover, db, Types
  <2>5. ASSUME NEW u \in Workflows, Collect(u)
        PROVE  saw' = saw /\ got'[w][c] \in {None, got[w][c]}
    BY <1>3, <2>5 DEF Collect, Types
  <2>6. ASSUME Crash
        PROVE  got' = got /\ saw'[w][c] = None
    BY <1>3, <2>6 DEF Crash, db
  <2> QED
    BY <2>1, <2>2, <2>3, <2>4, <2>5, <2>6
<1>4. \A w \in Workflows : Children(w) \subseteq Workflows
  BY ChildrenOf
<1> QED
  BY <1>2, <1>3, <1>4 DEF ResultInv

LEMMA TreeInit ==
  ASSUME TreeAssumption, Init
  PROVE  TreeInv
<1>1. Types
  BY TypesInit
<1>2. \A w \in Workflows : exec[w].pc \in {"none", "call"} /\ (exec[w].pc = "call" => row[w] = "PENDING")
  BY DEF Init, Begin, NoExec
<1>3. LinkInv /\ SingleInv
  BY <1>2 DEF Init, LinkInv, SingleInv
<1>4. Root \in Workflows /\ Present = {Root} /\ target = {}
  <2>1. Root \in Workflows
    BY DEF TreeAssumption
  <2>2. \A w \in Workflows : row[w] # None <=> w = Root
    BY NoneDiffers DEF Init
  <2> QED
    BY <2>1, <2>2 DEF Init, Present
<1>5. PresentInv
  BY <1>4 DEF PresentInv, Rooted
<1>6. CascadeInv
  BY DEF Init, NoCascade, CascadeInv
<1>7. ResultInv
  BY DEF Init, ResultInv
<1> QED
  BY <1>1, <1>3, <1>5, <1>6, <1>7 DEF TreeInv

LEMMA TreeStep ==
  ASSUME TreeAssumption, TreeInv, [Next]_vars
  PROVE  TreeInv'
<1>1. collected' = {} => collected = {}
  BY Moves DEF TreeInv
<1>2. resumes' = 0 => resumes = 0
  BY Moves DEF TreeInv
<1> QED
  BY <1>1, <1>2, TypesStep, LinkStep, SingleStep, PresentStep, CascadeStep, ResultStep DEF TreeInv

LEMMA TreeInvariant ==
  ASSUME TreeAssumption
  PROVE  Spec => []TreeInv
<1>1. Init => TreeInv
  BY TreeInit
<1>2. TreeInv /\ [Next]_vars => TreeInv'
  BY TreeStep
<1> QED
  BY <1>1, <1>2, PTL DEF Spec

\* Rows, links, recorded results, executions and the walk of a cancellation keep
\* their types in a family of any shape (start_workflow, cancel_workflows).
THEOREM TypeCorrect ==
  ASSUME TreeAssumption
  PROVE  Spec => []TypeOK
<1>1. TreeInv => TypeOK
  BY DEF TreeInv, Types, TypeOK, PCs
<1> QED
  BY <1>1, TreeInvariant, PTL

\* A parent that is executed again finds the children it has recorded, whatever
\* crashed (start_workflow inserts before it records), and gets the results it
\* got before, as long as none is resumed or collected (record_get_result).
THEOREM Replayed ==
  ASSUME TreeAssumption
  PROVE  Spec => []ChildrenReplayed
<1>1. TreeInv => ChildrenReplayed
  <2> SUFFICES ASSUME TreeInv
               PROVE  ChildrenReplayed
    OBVIOUS
  <2>1. DOMAIN link = Workflows /\ DOMAIN got = Workflows
    BY DEF TreeInv, Types
  <2>2. LinkedExists
    BY <2>1 DEF TreeInv, LinkInv, LinkedExists
  <2>3. \A w \in Workflows : DOMAIN got[w] = Children(w)
    BY DEF TreeInv, Types
  <2>4. ReplaySame
    BY <2>1, <2>3 DEF TreeInv, ResultInv, ReplaySame
  <2> QED
    BY <2>2, <2>4 DEF ChildrenReplayed
<1> QED
  BY <1>1, TreeInvariant, PTL

\* When a cancellation with children is over, no workflow of the tree that was
\* there when it began is left to run, but for those resumed since; however the
\* tree grew, crashed and was cancelled meanwhile (cancel_workflows).
THEOREM CascadeComplete ==
  ASSUME TreeAssumption
  PROVE  Spec => []CascadeReaches
<1>1. TreeInv => CascadeReaches
  <2> SUFFICES ASSUME TreeInv, cascade.pc = "done", collected = {}
               PROVE  \A w \in target : row[w] = "PENDING" => w \in revived
    BY DEF CascadeReaches
  <2>1. /\ Root \in cascade.visited /\ cascade.frontier = {}
        /\ \A w \in cascade.visited : row[w] = "PENDING" => w \in revived
        /\ \A w \in cascade.visited : Children(w) \cap target \subseteq cascade.visited
        /\ target \subseteq Workflows /\ Rooted(target)
    BY DEF TreeInv, CascadeInv, Done, PresentInv, Types
  <2> DEFINE reached == {w \in Workflows : w \in target => w \in cascade.visited}
  <2>2. Root \in reached
    BY <2>1 DEF TreeAssumption
  <2>3. ASSUME NEW w \in reached, NEW c \in Children(w)
        PROVE  c \in reached
    <3>1. c \in Workflows /\ w \in ParentOf(c)
      BY ChildrenOf
    <3>2. CASE c \in target /\ c # Root
      <4>1. PICK p \in ParentOf(c) : p \in target
        BY <2>1, <3>2 DEF Rooted
      <4>2. p = w
        BY <3>1, OneParent
      <4> QED
        BY <2>1, <3>1, <3>2, <4>1, <4>2
    <3> QED
      BY <2>1, <3>1, <3>2
  <2>4. reached = Workflows
    BY <2>2, <2>3 DEF TreeAssumption
  <2> QED
    BY <2>1, <2>4
<1> QED
  BY <1>1, TreeInvariant, PTL
=============================================================================
