---------------------- MODULE ServiceComponents_proofs ----------------------
(***************************************************************************)
(* Theorems about services of the main process: a project's infrastructure, *)
(* deployments, terminals, certificates and pipelines of Jenkins, each for  *)
(* any values of its constants.  The components share nothing; each has its *)
(* own inductive invariant.                                                 *)
(***************************************************************************)
EXTENDS InfrastructureStack, Deployments, SshTerminals, Certificates,
        JenkinsPipelines, FiniteSetTheorems, SequenceTheorems, TLAPS

------------------------------------------------------------------------------
(* A project's infrastructure: servers, targets, calls, previews.           *)

ShownPlans == (SUBSET Servers) \cup {NoPlan}
StackStages == {"idle", "load", "check", "engine", "spend", "outputs", "plan", "sync", "next",
           "find", "save", "destroy", "targets", "forget"}
StackOperations == {"none", "preview", "apply", "outputs", "destroy", "destroy stack"}
StackWork ==
  [op : StackOperations, stage : StackStages, plan : ShownPlans, token : Nat,
   outputs : [Servers -> Nat],
   left : SUBSET UNION ShownPlans, server : Servers \cup {"none"}, found : Nat]

StackTypeOK ==
  /\ plan \in ShownPlans /\ stack \in [Servers -> Nat]
  /\ run \in [Calls -> StackWork]
  /\ hosts \in Nat /\ rows \in Nat

\* Tokens are numbered, and the approval is one of what a preview showed.
ApprovalIsShown ==
  /\ \E n \in Nat : DOMAIN shown = 1 .. n
  /\ approval = NoApproval \/ /\ approval.token \in DOMAIN shown
                              /\ approval.plan = shown[approval.token]

\* An apply presents a token that was shown, and past the check its plan is that of it.
Presents(work, previews) ==
  work.op = "apply" =>
    /\ work.token \in DOMAIN previews
    /\ work.stage \in {"engine", "spend"} => work.plan = previews[work.token]

\* Rows are numbered.
RowsAreNumbered ==
  /\ \A t \in targets : t.id \in 1 .. rows
  /\ \A t, u \in targets : t.id = u.id => t = u

\* The row that was looked up is of the server it is about to be updated for, or gone.
Found(work, catalog, last) ==
  work.stage = "save" /\ work.found # 0 =>
    /\ work.found \in 1 .. last
    /\ \A t \in catalog : t.id = work.found => t.resource = work.server

StackIInv ==
  /\ StackTypeOK
  /\ ApprovalIsShown
  /\ RowsAreNumbered /\ OneTargetPerServer
  /\ \A c \in Calls : Presents(run[c], shown) /\ Found(run[c], targets, rows)

------------------------------------------------------------------------------

(* A call that has not begun is well typed and promises nothing.             *)
LEMMA IdleWork ==
  /\ Idle \in StackWork
  /\ \A previews, catalog, last : Presents(Idle, previews) /\ Found(Idle, catalog, last)
<1>1. Idle \in StackWork
  <2>1. NoPlan \in ShownPlans /\ {} \in SUBSET UNION ShownPlans
    BY DEF ShownPlans
  <2>2. [s \in Servers |-> NoHost] \in [Servers -> Nat]
    BY DEF NoHost
  <2>3. QED
    BY <2>1, <2>2 DEF Idle, StackWork, StackOperations, StackStages
<1>2. QED
  BY <1>1 DEF Idle, Presents, Found

(* Nothing is shown or stored at first.                                      *)
LEMMA StackInitIInv == StackInit => StackIInv
<1>1. SUFFICES ASSUME StackInit PROVE StackIInv
  OBVIOUS
<1>2. StackTypeOK
  <2>1. run \in [Calls -> StackWork]
    BY <1>1, IdleWork DEF StackInit
  <2>2. QED
    BY <1>1, <2>1 DEF StackInit, StackTypeOK, ShownPlans, NoHost
<1>3. ApprovalIsShown
  <2>1. DOMAIN shown = 1 .. 0
    BY <1>1 DEF StackInit
  <2>2. QED
    BY <1>1, <2>1 DEF StackInit, ApprovalIsShown
<1>4. QED
  BY <1>1, <1>2, <1>3, IdleWork DEF StackInit, StackIInv, RowsAreNumbered, OneTargetPerServer

(* A step of one call that shows and stores nothing.                         *)
LEMMA OneMoves ==
  ASSUME StackIInv, NEW c \in Calls, NEW work \in StackWork,
         run' = [run EXCEPT ![c] = work],
         shown' = shown, rows' = rows, targets' \subseteq targets,
         approval' = approval \/ approval' = NoApproval,
         plan' \in ShownPlans, stack' \in [Servers -> Nat], hosts' \in Nat,
         Presents(work, shown), Found(work, targets, rows)
  PROVE  StackIInv'
<1>1. StackTypeOK'
  BY DEF StackIInv, StackTypeOK
<1>2. ApprovalIsShown'
  BY DEF StackIInv, ApprovalIsShown
<1>3. RowsAreNumbered' /\ OneTargetPerServer'
  BY DEF StackIInv, RowsAreNumbered, OneTargetPerServer
<1>4. ASSUME NEW d \in Calls
      PROVE  Presents(run[d], shown)' /\ Found(run[d], targets, rows)'
  <2>1. run'[d] = work \/ run'[d] = run[d]
    BY DEF StackIInv, StackTypeOK
  <2>2. Presents(run'[d], shown) /\ Found(run'[d], targets, rows)
    BY <2>1 DEF StackIInv
  <2>3. QED
    BY <2>2 DEF Presents, Found
<1>5. QED
  BY <1>1, <1>2, <1>3, <1>4 DEF StackIInv

(* A call that begins presents a token that was shown, if it is an apply.    *)
LEMMA BeginIInv ==
  ASSUME StackIInv, NEW c \in Calls, NEW op \in StackOperations, NEW stage \in StackStages,
         NEW token \in Nat,
         Begin(c, op, stage, token),
         op = "apply" => token \in DOMAIN shown,
         stage \notin {"engine", "spend", "save"}
  PROVE  StackIInv'
<1> DEFINE work == [Idle EXCEPT !.op = op, !.stage = stage, !.token = token]
<1>1. work \in StackWork
  BY IdleWork DEF StackWork
<1>2. work.op = op /\ work.stage = stage /\ work.token = token
  BY DEF Idle
<1>3. Presents(work, shown) /\ Found(work, targets, rows)
  BY <1>2 DEF Presents, Found
<1>4. QED
  BY <1>1, <1>3, OneMoves DEF Begin, StackIInv, StackTypeOK

(* The first steps of previews and applies.                                  *)
LEMMA ApplyIInv ==
  ASSUME StackIInv, NEW c \in Calls,
         LoadPlan(c) \/ Fails(c) \/ CheckApproval(c) \/ Up(c) \/ Spend(c)
  PROVE  StackIInv'
<1> DEFINE work == run[c]
<1>a. work \in StackWork /\ Presents(work, shown) /\ StackTypeOK
  BY DEF StackIInv, StackTypeOK
<1>b. ASSUME Return(c), shown' = shown, rows' = rows, targets' \subseteq targets,
             approval' = approval, plan' \in ShownPlans, stack' \in [Servers -> Nat],
              hosts' \in Nat
      PROVE  StackIInv'
  BY <1>b, IdleWork, OneMoves DEF Return
<1>1. CASE LoadPlan(c)
  <2> DEFINE next == [work EXCEPT !.plan = plan,
                        !.stage = IF work.op = "preview" THEN "engine" ELSE "check"]
  <2>1. next \in StackWork
    BY <1>a DEF StackWork, StackStages, StackTypeOK
  <2>2. Presents(next, shown) /\ Found(next, targets, rows)
    BY <1>a DEF Presents, Found, StackWork
  <2>3. CASE run' = [run EXCEPT ![c] = next]
    BY <1>1, <1>a, <2>1, <2>2, <2>3, OneMoves DEF LoadPlan, StackTypeOK
  <2>4. CASE run' = [run EXCEPT ![c] = Idle]
    BY <1>1, <1>a, <1>b, <2>4 DEF LoadPlan, StackTypeOK, Return
  <2>5. QED
    BY <1>1, <2>3, <2>4 DEF LoadPlan
<1>2. CASE Fails(c)
  BY <1>2, <1>a, <1>b DEF Fails, StackTypeOK
<1>3. CASE CheckApproval(c)
  <2>1. CASE Approved(c) /\ Goto(c, "engine")
    <3> DEFINE next == [work EXCEPT !.stage = "engine"]
    <3>1. next \in StackWork
      BY <1>a DEF StackWork, StackStages
    <3>2. work.op = "apply" => work.plan = shown[work.token]
      BY <1>a, <2>1 DEF Approved, StackIInv, ApprovalIsShown, NoApproval, Presents
    <3>3. Presents(next, shown) /\ Found(next, targets, rows)
      BY <1>a, <3>2 DEF Presents, Found, StackWork
    <3>4. QED
      BY <1>3, <1>a, <2>1, <3>1, <3>3, OneMoves DEF CheckApproval, Goto, StackTypeOK
  <2>2. QED
    BY <1>3, <1>a, <1>b, <2>1 DEF CheckApproval, StackTypeOK
<1>4. CASE Up(c)
  <2>1. hosts' \in Nat /\ stack' \in [Servers -> Nat]
    BY <1>4, <1>a DEF Up, StackTypeOK, NoHost
  <2> DEFINE next == [work EXCEPT !.stage = "spend", !.outputs = stack']
  <2>2. next \in StackWork
    BY <1>a, <2>1 DEF StackWork, StackStages
  <2>3. Presents(next, shown) /\ Found(next, targets, rows)
    BY <1>a, <1>4 DEF Up, At, Presents, Found, StackWork
  <2>4. CASE run' = [run EXCEPT ![c] = next]
    BY <1>4, <1>a, <2>1, <2>2, <2>3, <2>4, OneMoves DEF Up, StackTypeOK
  <2>5. CASE Return(c)
    BY <1>4, <1>a, <1>b, <2>1, <2>5 DEF Up, StackTypeOK
  <2>6. QED
    BY <1>4, <2>4, <2>5 DEF Up
<1>5. CASE Spend(c)
  <2> DEFINE next == [work EXCEPT !.stage = "sync", !.left = work.plan]
  <2>1. next \in StackWork
    BY <1>a DEF StackWork, StackStages
  <2>2. Presents(next, shown) /\ Found(next, targets, rows)
    BY <1>a DEF Presents, Found, StackWork
  <2>3. QED
    BY <1>5, <1>a, <2>1, <2>2, OneMoves DEF Spend, StackTypeOK
<1>6. QED
  BY <1>1, <1>2, <1>3, <1>4, <1>5

(* A preview shows its plan under the next token, and approves it.           *)
LEMMA PreviewedIInv ==
  ASSUME StackIInv, NEW c \in Calls, Previewed(c)
  PROVE  StackIInv'
<1>1. PICK n \in Nat : DOMAIN shown = 1 .. n
  BY DEF StackIInv, ApprovalIsShown
<1> DEFINE token == Cardinality(DOMAIN shown) + 1
<1>2. token = n + 1
  <2>1. Cardinality(1 .. n) = n
    BY FS_Interval
  <2>2. QED
    BY <1>1, <2>1
<1>3. /\ approval' = [token |-> token, plan |-> run[c].plan]
      /\ shown' = [t \in 1 .. token |-> IF t = token THEN run[c].plan ELSE shown[t]]
      /\ run' = [run EXCEPT ![c] = Idle]
      /\ UNCHANGED <<plan, stack, targets, hosts, rows>>
  BY DEF Previewed, Return
<1> HIDE DEF token
<1>4. /\ DOMAIN shown' = 1 .. n + 1 /\ shown'[n + 1] = run[c].plan
      /\ \A t \in 1 .. n : shown'[t] = shown[t]
  BY <1>2, <1>3
<1>5. ApprovalIsShown'
  BY <1>2, <1>3, <1>4 DEF ApprovalIsShown
<1>6. StackTypeOK'
  BY <1>3, IdleWork DEF StackIInv, StackTypeOK
<1>7. ASSUME NEW d \in Calls
      PROVE  Presents(run[d], shown)' /\ Found(run[d], targets, rows)'
  <2>1. CASE run'[d] = Idle
    BY <2>1, IdleWork
  <2>2. CASE run'[d] = run[d]
    <3>1. Presents(run[d], shown) /\ Found(run[d], targets, rows)
      BY DEF StackIInv
    <3>2. Presents(run[d], shown')
      BY <1>1, <1>4, <3>1 DEF Presents
    <3>3. QED
      BY <1>3, <2>2, <3>1, <3>2
  <2>3. QED
    BY <1>3, <2>1, <2>2 DEF StackIInv, StackTypeOK
<1>8. RowsAreNumbered' /\ OneTargetPerServer'
  BY <1>3 DEF StackIInv, RowsAreNumbered, OneTargetPerServer
<1>9. QED
  BY <1>5, <1>6, <1>7, <1>8 DEF StackIInv

(* The steps of the calls that read or destroy, and what they take from the  *)
(* catalog.                                                                  *)
LEMMA OthersIInv ==
  ASSUME StackIInv, NEW c \in Calls,
         \/ ReadOutputs(c) \/ LoadForOutputs(c) \/ RemoveStale(c) \/ Synchronized(c)
         \/ FindManaged(c) \/ (\E s \in Servers : NextServer(c, s))
         \/ DestroyStack(c) \/ RemoveTargets(c) \/ DeletePlan(c)
  PROVE  StackIInv'
<1> DEFINE work == run[c]
<1>a. work \in StackWork /\ Presents(work, shown) /\ StackTypeOK
  BY DEF StackIInv, StackTypeOK
<1>b. ASSUME Return(c), shown' = shown, rows' = rows, targets' \subseteq targets,
             approval' = approval \/ approval' = NoApproval,
             plan' \in ShownPlans, stack' \in [Servers -> Nat], hosts' = hosts
      PROVE  StackIInv'
  BY <1>a, <1>b, IdleWork, OneMoves DEF Return, StackTypeOK
<1>c. ASSUME NEW stage \in StackStages \ {"engine", "spend", "save"}, Goto(c, stage),
             shown' = shown, rows' = rows, targets' \subseteq targets,
             approval' = approval, plan' = plan, stack' \in [Servers -> Nat], hosts' = hosts
      PROVE  StackIInv'
  <2> DEFINE next == [work EXCEPT !.stage = stage]
  <2>1. next \in StackWork
    BY <1>a DEF StackWork
  <2>2. Presents(next, shown) /\ Found(next, targets, rows)
    BY <1>a, <1>c DEF Presents, Found, StackWork
  <2>3. QED
    BY <1>a, <1>c, <2>1, <2>2, OneMoves DEF Goto, StackTypeOK
<1>1. CASE ReadOutputs(c)
  <2> DEFINE next == [work EXCEPT !.outputs = stack, !.stage = "plan"]
  <2>1. next \in StackWork
    BY <1>a DEF StackWork, StackStages, StackTypeOK
  <2>2. Presents(next, shown) /\ Found(next, targets, rows)
    BY <1>a DEF Presents, Found, StackWork
  <2>3. QED
    BY <1>1, <1>a, <2>1, <2>2, OneMoves DEF ReadOutputs, StackTypeOK
<1>2. CASE LoadForOutputs(c)
  <2> DEFINE next == [work EXCEPT !.plan = plan, !.left = plan, !.stage = "sync"]
  <2>1. next \in StackWork
    BY <1>a DEF StackWork, StackStages, StackTypeOK
  <2>2. Presents(next, shown) /\ Found(next, targets, rows)
    BY <1>a DEF Presents, Found, StackWork
  <2>3. CASE run' = [run EXCEPT ![c] = next]
    BY <1>2, <1>a, <2>1, <2>2, <2>3, OneMoves DEF LoadForOutputs, StackTypeOK
  <2>4. QED
    BY <1>2, <1>a, <1>b, <2>3 DEF LoadForOutputs, StackTypeOK
<1>3. CASE RemoveStale(c)
  BY <1>3, <1>a, <1>c DEF RemoveStale, StackTypeOK, StackStages
<1>4. CASE Synchronized(c)
  BY <1>4, <1>a, <1>b DEF Synchronized, StackTypeOK
<1>5. CASE FindManaged(c)
  <2> DEFINE ids == {t.id : t \in {u \in targets : u.resource = work.server}}
             found == IF ids = {} THEN 0 ELSE CHOOSE id \in ids : TRUE
             next == [work EXCEPT !.stage = "save", !.found = found]
  <2>1. found = 0 \/ found \in ids
    OBVIOUS
  <2>2. \A id \in ids : /\ id \in 1 .. rows
                        /\ \A t \in targets : t.id = id => t.resource = work.server
    BY DEF StackIInv, RowsAreNumbered
  <2> HIDE DEF ids
  <2>3. found \in Nat
    BY <1>a, <2>1, <2>2 DEF StackTypeOK
  <2>4. run' = [run EXCEPT ![c] = next]
    BY <1>5 DEF FindManaged, ids
  <2> HIDE DEF found
  <2>5. next \in StackWork /\ next.found = found /\ next.server = work.server
        /\ next.op = work.op /\ next.stage = "save" /\ next.token = work.token
    BY <1>a, <2>3 DEF StackWork, StackStages
  <2>6. Presents(next, shown)
    BY <1>a, <2>5 DEF Presents
  <2>7. Found(next, targets, rows)
    BY <2>1, <2>2, <2>5 DEF Found
  <2>8. QED
    BY <1>5, <1>a, <2>4, <2>5, <2>6, <2>7, OneMoves DEF FindManaged, StackTypeOK
<1>6. ASSUME NEW s \in Servers, NextServer(c, s) PROVE StackIInv'
  <2> DEFINE skip == [work EXCEPT !.left = @ \ {s}]
             next == [skip EXCEPT !.server = s, !.stage = "find"]
  <2>1. skip \in StackWork /\ next \in StackWork
    BY <1>a DEF StackWork, StackStages
  <2>2. /\ skip.op = work.op /\ skip.token = work.token /\ skip.stage = work.stage
        /\ next.op = work.op /\ next.token = work.token /\ next.stage = "find"
    BY <1>a DEF StackWork
  <2>3. work.stage = "next"
    BY <1>6 DEF NextServer, At
  <2>4. /\ Presents(skip, shown) /\ Found(skip, targets, rows)
        /\ Presents(next, shown) /\ Found(next, targets, rows)
    BY <1>a, <2>2, <2>3 DEF Presents, Found
  <2>5. CASE run' = [run EXCEPT ![c] = skip]
    <3>1. targets' \subseteq targets
      BY <1>6 DEF NextServer
    <3>2. QED
      BY <1>6, <1>a, <2>1, <2>4, <2>5, <3>1, OneMoves DEF NextServer, StackTypeOK
  <2>6. CASE run' = [run EXCEPT ![c] = next]
    <3>1. targets' \subseteq targets
      BY <1>6 DEF NextServer
    <3>2. QED
      BY <1>6, <1>a, <2>1, <2>4, <2>6, <3>1, OneMoves DEF NextServer, StackTypeOK
  <2>7. run' = [run EXCEPT ![c] = skip] \/ run' = [run EXCEPT ![c] = next]
    BY <1>6, <1>a DEF NextServer, StackWork, StackTypeOK
  <2>8. QED
    BY <2>5, <2>6, <2>7
<1>7. CASE DestroyStack(c)
  <2>1. stack' \in [Servers -> Nat]
    BY <1>7, <1>a DEF DestroyStack, StackTypeOK, NoHost
  <2>2. Return(c) \/ Goto(c, "targets")
    BY <1>7 DEF DestroyStack
  <2>3. QED
    BY <1>7, <1>a, <1>b, <1>c, <2>1, <2>2 DEF DestroyStack, StackTypeOK, StackStages
<1>8. CASE RemoveTargets(c)
  <2>1. targets' \subseteq targets /\ (Return(c) \/ Goto(c, "forget"))
    BY <1>8 DEF RemoveTargets
  <2>2. QED
    BY <1>8, <1>a, <1>b, <1>c, <2>1 DEF RemoveTargets, StackTypeOK, StackStages
<1>9. CASE DeletePlan(c)
  <2>1. plan' \in ShownPlans /\ approval' \in {approval, NoApproval} /\ Return(c)
    BY <1>9, <1>a DEF DeletePlan, StackTypeOK, ShownPlans
  <2>2. QED
    BY <1>9, <1>a, <1>b, <2>1 DEF DeletePlan, StackTypeOK
<1>10. QED
  BY <1>1, <1>2, <1>3, <1>4, <1>5, <1>6, <1>7, <1>8, <1>9

(* A row that is created has a number of its own and is the server's first;  *)
(* one that is updated stays the row of its server.                          *)
LEMMA SaveIInv ==
  ASSUME StackIInv, NEW c \in Calls, CreateManaged(c) \/ UpdateManaged(c)
  PROVE  StackIInv'
<1> DEFINE next == [run[c] EXCEPT !.stage = "next"]
<1>a. /\ next \in StackWork
      /\ run[c].stage = "save" /\ next.stage = "next" /\ next.op = run[c].op
      /\ next.token = run[c].token
      /\ run' = [run EXCEPT ![c] = next]
      /\ UNCHANGED <<plan, stack, approval, shown, hosts>>
  BY ZenonT(60) DEF CreateManaged, UpdateManaged, At, Goto, StackIInv, StackTypeOK, StackWork, StackStages
<1>b. StackTypeOK' /\ ApprovalIsShown'
  BY <1>a DEF StackIInv, StackTypeOK, ApprovalIsShown, CreateManaged, UpdateManaged
<1>c. ASSUME NEW d \in Calls PROVE Presents(run[d], shown)'
  <2>1. Presents(run[d], shown)
    BY DEF StackIInv
  <2>2. run'[d] = run[d] \/ (d = c /\ run'[d] = next)
    BY <1>a DEF StackIInv, StackTypeOK
  <2>3. QED
    BY <1>a, <2>1, <2>2 DEF Presents
<1>d. ASSUME NEW d \in Calls PROVE run'[d] = run[d] \/ run'[d].stage = "next"
  BY <1>a DEF StackIInv, StackTypeOK
<1>1. CASE targets' = targets /\ rows' = rows
  <2>1. RowsAreNumbered' /\ OneTargetPerServer'
    BY <1>1 DEF StackIInv, RowsAreNumbered, OneTargetPerServer
  <2>2. ASSUME NEW d \in Calls PROVE Found(run[d], targets, rows)'
    BY <1>1, <1>d DEF StackIInv, Found
  <2>3. QED
    BY <1>b, <1>c, <2>1, <2>2 DEF StackIInv
<1>2. CASE /\ \A t \in targets : t.resource # run[c].server
           /\ rows' = rows + 1 /\ targets' = targets \cup {Row(c)}
  <2>1. Row(c).id = rows + 1 /\ Row(c).resource = run[c].server
    BY DEF Row
  <2>2. rows \in Nat
    BY DEF StackIInv, StackTypeOK
  <2>3. RowsAreNumbered'
    BY <1>2, <2>1, <2>2 DEF StackIInv, RowsAreNumbered
  <2>4. OneTargetPerServer'
    BY <1>2, <2>1 DEF StackIInv, OneTargetPerServer
  <2>5. ASSUME NEW d \in Calls PROVE Found(run[d], targets, rows)'
    BY <1>2, <1>d, <2>1, <2>2 DEF StackIInv, Found
  <2>6. QED
    BY <1>b, <1>c, <2>3, <2>4, <2>5 DEF StackIInv
<1>3. CASE UpdateManaged(c)
  <2> DEFINE Updated(t) == IF t.id = run[c].found THEN [Row(c) EXCEPT !.id = t.id] ELSE t
  <2>1. targets' = {Updated(t) : t \in targets} /\ rows' = rows
    BY <1>3 DEF UpdateManaged
  <2>2. ASSUME NEW t \in targets
        PROVE  Updated(t).id = t.id /\ Updated(t).resource = t.resource
    <3>1. t.id = run[c].found => t.resource = run[c].server
      BY <1>3, <1>a DEF StackIInv, Found, UpdateManaged
    <3>2. /\ [Row(c) EXCEPT !.id = t.id].id = t.id
          /\ [Row(c) EXCEPT !.id = t.id].resource = run[c].server
      BY DEF Row
    <3>3. QED
      BY <3>1, <3>2
  <2> HIDE DEF Updated
  <2>3. RowsAreNumbered'
    BY <2>1, <2>2 DEF StackIInv, RowsAreNumbered
  <2>4. OneTargetPerServer'
    BY <2>1, <2>2 DEF StackIInv, OneTargetPerServer
  <2>5. ASSUME NEW d \in Calls PROVE Found(run[d], targets, rows)'
    BY <1>d, <2>1, <2>2 DEF StackIInv, Found
  <2>6. QED
    BY <1>b, <1>c, <2>3, <2>4, <2>5 DEF StackIInv
<1>4. QED
  BY <1>1, <1>2, <1>3 DEF CreateManaged

(* What others do to the plan and the catalog.                               *)
LEMMA SurroundingsIInv ==
  ASSUME StackIInv,
         (\E p \in SUBSET Servers : SavePlan(p)) \/ (\E t \in targets : RemoveTarget(t))
  PROVE  StackIInv'
<1>1. /\ plan' \in ShownPlans /\ targets' \subseteq targets
      /\ UNCHANGED <<stack, approval, run, shown, hosts, rows>>
  BY DEF SavePlan, RemoveTarget, ShownPlans, StackIInv, StackTypeOK
<1>2. QED
  BY <1>1 DEF StackIInv, StackTypeOK, ApprovalIsShown, RowsAreNumbered, OneTargetPerServer,
     Presents, Found

(* The invariant holds of every reachable state.                             *)
LEMMA StackInvariance == StackSpec => []StackIInv
<1>1. StackIInv /\ [StackNext]_stackVars => StackIInv'
  <2>1. ASSUME StackIInv, UNCHANGED stackVars PROVE StackIInv'
    BY <2>1 DEF StackIInv, StackTypeOK, ApprovalIsShown, RowsAreNumbered, OneTargetPerServer,
       Presents,
                Found, stackVars
  <2>2. ASSUME StackIInv, NEW c \in Calls,
               \/ Preview(c) \/ Outputs(c) \/ Destroy(c) \/ DestroyManagedStack(c)
               \/ \E token \in DOMAIN shown : Apply(c, token)
        PROVE  StackIInv'
    <3>1. \A token \in DOMAIN shown : token \in Nat
      BY <2>2 DEF StackIInv, ApprovalIsShown
    <3>2. QED
      BY <2>2, <3>1, BeginIInv DEF Preview, Outputs, Destroy, DestroyManagedStack, Apply,
                                   StackOperations, StackStages
  <2>3. QED
    BY <2>1, <2>2, ApplyIInv, PreviewedIInv, OthersIInv, SaveIInv, SurroundingsIInv
       DEF StackNext
<1>2. QED
  BY <1>1, StackInitIInv, PTL DEF StackSpec

(* Whatever saves, previews, applies and destructions overlap, an apply runs *)
(* the plan that was shown with the very token it presented: the approval of *)
(* the stack is always one of a plan that was shown, and the check compares  *)
(* both its token and its plan.                                              *)
THEOREM ApplyRunsWhatWasShown == StackSpec => []AppliedAsPreviewed
<1>1. StackIInv => AppliedAsPreviewed
  BY DEF StackIInv, Presents, AppliedAsPreviewed
<1>2. QED
  BY <1>1, StackInvariance, PTL

(* Whatever synchronizations overlap, no server has two targets: the unique  *)
(* index refuses a second row, and an update by number keeps the row's       *)
(* server, because a number is never used again.                             *)
THEOREM TargetsAreUnique == StackSpec => []OneTargetPerServer
<1>1. StackIInv => OneTargetPerServer
  BY DEF StackIInv
<1>2. QED
  BY <1>1, StackInvariance, PTL

------------------------------------------------------------------------------
(* Deployments, their steps, and the ends of the process.                   *)

RunPlaces == UnderWay \cup {"none", "recorded", "unrecorded"}
RunCalls == [at : RunPlaces, completed : Nat, aborted : BOOLEAN, succeeded : BOOLEAN]
RunStatuses == {"none", "running", "success", "failed"}
RunCounts == [begun : Nat, ended : Nat, succeeded : Nat]

DeploymentsTypeOK ==
  /\ deployment \in [Runs -> RunCalls]
  /\ record \in [Runs -> RunStatuses]
  /\ onHost \in [Runs -> RunCounts]
  /\ opening \in {"open", "closed"}

\* Every command has ended, and well, and the call knows of all.
Caught(call, count) ==
  /\ count.ended = count.begun
  /\ count.succeeded = count.begun
  /\ call.completed = count.begun

\* One command is running, and the ones before it have ended well.
InStep(call, count) ==
  /\ count.begun = count.ended + 1
  /\ count.succeeded = count.ended
  /\ call.completed = count.ended

\* What the call knows is what the host did, as long as it is not given up.
KnowsHost(call, count) ==
  /\ call.at \in {"none", "connecting", "between", "asked"} => Caught(call, count)
  /\ call.at = "step" => InStep(call, count)
  /\ call.at = "none" => count.begun = 0
  /\ call.succeeded => /\ call.at \in {"ending", "recorded", "unrecorded"}
                       /\ Caught(call, count) /\ call.completed = StepCount

\* What the row says is what the call has come to.
RowFollows(call, status, open) ==
  /\ call.at = "none" => status = "none"
  /\ call.at \in UnderWay => status = "running" /\ open = "open"
  /\ call.at = "recorded" => status \in {"success", "failed"}
  /\ status = "success" => call.at = "recorded" /\ call.succeeded

DeploymentsIInv ==
  /\ DeploymentsTypeOK
  /\ \A d \in Runs : /\ KnowsHost(deployment[d], onHost[d])
                     /\ RowFollows(deployment[d], record[d], opening)

------------------------------------------------------------------------------

(* No deployment has been made at first.                                     *)
LEMMA DeploymentsInitIInv == DeploymentsInit => DeploymentsIInv
BY DEF DeploymentsInit, DeploymentsIInv, DeploymentsTypeOK, KnowsHost, RowFollows, Caught,
   InStep, Call, RunCalls,
       RunCounts, RunPlaces, UnderWay, RunStatuses

(* A step of one call that leaves that call, its row and its host consistent *)
(* leaves all of them so.                                                    *)
LEMMA OneChanges ==
  ASSUME DeploymentsIInv, NEW d \in Runs, NEW call \in RunCalls, NEW status \in RunStatuses,
         NEW count \in RunCounts,
         deployment' = [deployment EXCEPT ![d] = call],
         record' = [record EXCEPT ![d] = status],
         onHost' = [onHost EXCEPT ![d] = count],
         opening' = opening,
         KnowsHost(call, count), RowFollows(call, status, opening)
  PROVE  DeploymentsIInv'
<1>1. DeploymentsTypeOK'
  BY DEF DeploymentsIInv, DeploymentsTypeOK
<1>2. ASSUME NEW e \in Runs
      PROVE  KnowsHost(deployment[e], onHost[e])' /\ RowFollows(deployment[e], record[e],
       opening)'
  <2>1. CASE e = d
    <3>1. deployment'[e] = call /\ record'[e] = status /\ onHost'[e] = count
      BY <2>1 DEF DeploymentsIInv, DeploymentsTypeOK
    <3>2. QED
      BY <3>1 DEF KnowsHost, RowFollows, Caught, InStep
  <2>2. CASE e # d
    <3>1. deployment'[e] = deployment[e] /\ record'[e] = record[e] /\ onHost'[e] = onHost[e]
      BY <2>2 DEF DeploymentsIInv, DeploymentsTypeOK
    <3>2. QED
      BY <3>1 DEF DeploymentsIInv, KnowsHost, RowFollows, Caught, InStep
  <2>3. QED
    BY <2>1, <2>2
<1>3. QED
  BY <1>1, <1>2 DEF DeploymentsIInv

(* The steps of one call leave the other deployments alone.                  *)
LEMMA RunIInv ==
  ASSUME DeploymentsIInv, NEW d \in Runs,
         \/ Create(d) \/ Connects(d) \/ NextStep(d) \/ CommandBegins(d) \/ CommandEnds(d)
         \/ StepGivenUp(d) \/ Cancel(d) \/ Record(d)
  PROVE  DeploymentsIInv'
<1> DEFINE call == deployment[d]
           IsAt(to) == [call EXCEPT !.at = to]
           Ended(succeeded) == [call EXCEPT !.at = "ending", !.succeeded = succeeded]
<1>a. /\ call \in RunCalls /\ record[d] \in RunStatuses /\ onHost[d] \in RunCounts
      /\ deployment = [deployment EXCEPT ![d] = call]
      /\ record = [record EXCEPT ![d] = record[d]]
      /\ onHost = [onHost EXCEPT ![d] = onHost[d]]
      /\ KnowsHost(call, onHost[d]) /\ RowFollows(call, record[d], opening)
  BY DEF DeploymentsIInv, DeploymentsTypeOK
<1>b. ASSUME NEW c \in RunCalls, deployment' = [deployment EXCEPT ![d] = c],
             UNCHANGED <<record, onHost, opening>>,
             KnowsHost(c, onHost[d]), RowFollows(c, record[d], opening)
      PROVE  DeploymentsIInv'
  BY <1>a, <1>b, OneChanges
<1>c. ASSUME NEW to \in RunPlaces, Moves(d, to), UNCHANGED <<record, onHost, opening>>,
             call.at \in UnderWay, to \in UnderWay \cup {"unrecorded"},
             KnowsHost(IsAt(to), onHost[d])
      PROVE  DeploymentsIInv'
  <2>1. IsAt(to) \in RunCalls /\ IsAt(to).at = to
    BY <1>a DEF RunCalls
  <2>2. RowFollows(IsAt(to), record[d], opening)
    BY <1>a, <1>c, <2>1 DEF RowFollows, UnderWay
  <2>3. deployment' = [deployment EXCEPT ![d] = IsAt(to)]
    BY <1>c DEF Moves
  <2>4. QED
    BY <1>b, <1>c, <2>1, <2>2, <2>3
<1>d. ASSUME NEW good \in BOOLEAN, Returns(d, good), UNCHANGED <<record, onHost, opening>>,
             call.at \in UnderWay, good => Caught(call, onHost[d]) /\ call.completed = StepCount
      PROVE  DeploymentsIInv'
  <2>1. Ended(good) \in RunCalls /\ Ended(good).at = "ending" /\ Ended(good).succeeded = good
        /\ Ended(good).completed = call.completed
    BY <1>a DEF RunCalls, RunPlaces, UnderWay
  <2>2. RowFollows(Ended(good), record[d], opening) /\ KnowsHost(Ended(good), onHost[d])
    BY <1>a, <1>d, <2>1 DEF RowFollows, UnderWay, KnowsHost, Caught
  <2>3. deployment' = [deployment EXCEPT ![d] = Ended(good)]
    BY <1>d DEF Returns
  <2>4. QED
    BY <1>b, <1>d, <2>1, <2>2, <2>3
<1>1. CASE Create(d)
  <2>1. Call("connecting") \in RunCalls /\ "running" \in RunStatuses
    BY DEF Call, RunCalls, RunPlaces, UnderWay, RunStatuses
  <2>2. KnowsHost(Call("connecting"), onHost[d])
    BY <1>a, <1>1 DEF Create, Call, KnowsHost, Caught, RunCounts
  <2>3. RowFollows(Call("connecting"), "running", opening)
    BY <1>1 DEF Create, Call, RowFollows
  <2>4. QED
    BY <1>1, <1>a, <2>1, <2>2, <2>3, OneChanges DEF Create
<1>2. CASE Connects(d)
  <2>1. KnowsHost(IsAt("between"), onHost[d])
    BY <1>a, <1>2 DEF Connects, KnowsHost, Caught, RunCalls
  <2>2. QED
    BY <1>2, <1>c, <1>d, <2>1 DEF Connects, UnderWay, RunPlaces
<1>3. CASE NextStep(d)
  <2>1. KnowsHost(IsAt("asked"), onHost[d])
    BY <1>a, <1>3 DEF NextStep, KnowsHost, Caught, RunCalls
  <2>2. Caught(call, onHost[d])
    BY <1>a, <1>3 DEF NextStep, KnowsHost
  <2>3. QED
    BY <1>3, <1>c, <1>d, <2>1, <2>2 DEF NextStep, UnderWay, RunPlaces
<1>4. CASE CommandBegins(d)
  <2> DEFINE count == [onHost[d] EXCEPT !.begun = @ + 1]
  <2>1. CASE Moves(d, "step") /\ onHost' = [onHost EXCEPT ![d].begun = @ + 1]
    <3>1. IsAt("step") \in RunCalls /\ count \in RunCounts
      BY <1>a DEF RunCalls, RunCounts, RunPlaces, UnderWay
    <3>2. KnowsHost(IsAt("step"), count)
      BY <1>a, <1>4 DEF CommandBegins, KnowsHost, Caught, InStep, RunCalls, RunCounts
    <3>3. RowFollows(IsAt("step"), record[d], opening)
      BY <1>a, <1>4 DEF CommandBegins, RowFollows, RunCalls, UnderWay
    <3>4. onHost' = [onHost EXCEPT ![d] = count] /\ UNCHANGED <<record, opening>>
      BY <1>4, <2>1 DEF CommandBegins
    <3>5. QED
      BY <1>a, <2>1, <3>1, <3>2, <3>3, <3>4, OneChanges DEF Moves
  <2>2. CASE Returns(d, FALSE) /\ UNCHANGED onHost
    BY <1>4, <1>d, <2>2 DEF CommandBegins, UnderWay
  <2>3. QED
    BY <1>4, <2>1, <2>2 DEF CommandBegins
<1>5. CASE CommandEnds(d)
  <2> DEFINE well == [onHost[d] EXCEPT !.ended = @ + 1, !.succeeded = @ + 1]
             badly == [onHost[d] EXCEPT !.ended = @ + 1]
             next == [call EXCEPT !.at = "between", !.completed = @ + 1]
  <2>1. onHost[d].begun > onHost[d].ended /\ UNCHANGED <<record, opening>>
    BY <1>5 DEF CommandEnds
  <2>2. \/ /\ onHost' = [onHost EXCEPT ![d] = well]
           /\ \/ call.at # "step" /\ UNCHANGED deployment
              \/ call.at = "step" /\ deployment' = [deployment EXCEPT ![d] = next]
        \/ /\ onHost' = [onHost EXCEPT ![d] = badly]
           /\ \/ call.at # "step" /\ UNCHANGED deployment
              \/ call.at = "step" /\ deployment' = [deployment EXCEPT ![d] = Ended(FALSE)]
    BY ZenonT(60), <1>5 DEF CommandEnds, Returns
  <2>3. well \in RunCounts /\ badly \in RunCounts /\ next \in RunCalls /\ Ended(FALSE) \in RunCalls
    <3>1. onHost[d].ended + 1 \in Nat /\ onHost[d].succeeded + 1 \in Nat /\ call.completed + 1 \in Nat
      BY <1>a DEF RunCounts, RunCalls
    <3>2. "between" \in RunPlaces /\ "ending" \in RunPlaces
      BY DEF RunPlaces, UnderWay
    <3>3. QED
      BY <1>a, <3>1, <3>2 DEF RunCounts, RunCalls
  <2>4. CASE call.at # "step" /\ UNCHANGED deployment
    <3>1. KnowsHost(call, well) /\ KnowsHost(call, badly)
      BY <1>a, <2>1, <2>4 DEF KnowsHost, Caught, RunCalls, RunCounts
    <3>2. QED
      BY <1>a, <2>1, <2>2, <2>3, <2>4, <3>1, OneChanges
  <2>5. CASE call.at = "step" /\ deployment' = [deployment EXCEPT ![d] = next]
                              /\ onHost' = [onHost EXCEPT ![d] = well]
    <3>1. KnowsHost(next, well)
      BY <1>a, <2>1, <2>5 DEF KnowsHost, Caught, InStep, RunCalls, RunCounts
    <3>2. RowFollows(next, record[d], opening)
      BY <1>a, <2>5 DEF RowFollows, UnderWay, RunCalls
    <3>3. QED
      BY <1>a, <2>1, <2>3, <2>5, <3>1, <3>2, OneChanges
  <2>6. CASE call.at = "step" /\ deployment' = [deployment EXCEPT ![d] = Ended(FALSE)]
                              /\ onHost' = [onHost EXCEPT ![d] = badly]
    <3>1. KnowsHost(Ended(FALSE), badly)
      BY <1>a, <2>6 DEF KnowsHost, RunCalls
    <3>2. RowFollows(Ended(FALSE), record[d], opening)
      BY <1>a, <2>6 DEF RowFollows, UnderWay, RunCalls
    <3>3. QED
      BY <1>a, <2>1, <2>3, <2>6, <3>1, <3>2, OneChanges
  <2>7. QED
    BY <2>2, <2>4, <2>5, <2>6
<1>6. CASE StepGivenUp(d)
  BY <1>6, <1>d DEF StepGivenUp, UnderWay
<1>7. CASE Cancel(d)
  <2> DEFINE after == [call EXCEPT !.aborted = TRUE,
                         !.at = IF @ \in {"connecting", "step"} THEN "ending" ELSE @]
  <2>1. after \in RunCalls
    BY <1>a DEF RunCalls, RunPlaces, UnderWay
  <2>2. KnowsHost(after, onHost[d])
    BY <1>a DEF KnowsHost, Caught, InStep, RunCalls
  <2>3. RowFollows(after, record[d], opening)
    BY <1>a DEF RowFollows, RunCalls, UnderWay
  <2>4. QED
    BY <1>7, <1>b, <2>1, <2>2, <2>3 DEF Cancel
<1>8. CASE Record(d)
  <2> DEFINE status == IF call.succeeded THEN "success" ELSE "failed"
  <2>1. CASE record' = [record EXCEPT ![d] = status] /\ Moves(d, "recorded")
    <3>1. IsAt("recorded") \in RunCalls /\ status \in RunStatuses
      BY <1>a DEF RunCalls, RunPlaces, UnderWay, RunStatuses
    <3>2. KnowsHost(IsAt("recorded"), onHost[d])
      BY <1>a, <1>8 DEF Record, KnowsHost, Caught, RunCalls
    <3>3. RowFollows(IsAt("recorded"), status, opening)
      BY <1>a DEF RowFollows, RunCalls, UnderWay
    <3>4. QED
      BY <1>8, <1>a, <2>1, <3>1, <3>2, <3>3, OneChanges DEF Record, Moves
  <2>2. KnowsHost(IsAt("unrecorded"), onHost[d])
    BY <1>a DEF KnowsHost, Caught, RunCalls
  <2>3. QED
    BY <1>8, <1>c, <2>1, <2>2 DEF Record, UnderWay, RunPlaces
<1>9. QED
  BY <1>1, <1>2, <1>3, <1>4, <1>5, <1>6, <1>7, <1>8

(* Nor do the workspace's steps lose track of one.                           *)
LEMMA WorkspaceIInv ==
  ASSUME DeploymentsIInv, Lock \/ Unlock \/ Crash
  PROVE  DeploymentsIInv'
<1> USE DEF DeploymentsTypeOK, RunCalls, RunCounts, RunPlaces, UnderWay, RunStatuses,
 DeploymentsIInv, KnowsHost, RowFollows,
        Caught, InStep
<1>1. CASE Lock
  BY <1>1 DEF Lock, LeaseFree
<1>2. CASE Unlock
  BY <1>2 DEF Unlock
<1>3. CASE Crash
  BY <1>3 DEF Crash
<1>4. QED
  BY <1>1, <1>2, <1>3

(* So every state of a behaviour is consistent.                              *)
LEMMA DeploymentsInvariance == DeploymentsSpec => []DeploymentsIInv
<1>1. DeploymentsIInv /\ [DeploymentsNext]_deploymentVars => DeploymentsIInv'
  <2>1. ASSUME DeploymentsIInv, UNCHANGED deploymentVars PROVE DeploymentsIInv'
    BY <2>1 DEF DeploymentsIInv, DeploymentsTypeOK, KnowsHost, RowFollows, Caught, InStep,
       deploymentVars
  <2>2. QED
    BY <2>1, RunIInv, WorkspaceIInv DEF DeploymentsNext
<1>2. QED
  BY <1>1, DeploymentsInitIInv, PTL DEF DeploymentsSpec

(* A row never says that a deployment succeeded whose steps did not all      *)
(* succeed on the host, and an open project shows none as running that no    *)
(* call works on, whenever calls are cancelled, lose their connection or die *)
(* with the process.                                                         *)
THEOREM RecordIsTrue == DeploymentsSpec => []RecordFollowsRun
<1>1. DeploymentsIInv => RecordFollowsRun
  BY DEF DeploymentsIInv, DeploymentsTypeOK, RecordFollowsRun, KnowsHost, RowFollows, Caught,
     RunCalls, RunCounts,
         RunPlaces, UnderWay, RunStatuses
<1>2. QED
  BY <1>1, DeploymentsInvariance, PTL

------------------------------------------------------------------------------
(* The terminal of a page.                                                  *)

TerminalMessages == {"opened", "open failed", "closed", "write failed"}
LinkPhases == {"resolving", "connecting", "asked", "shell", "over"}
TerminalLinks == [phase : LinkPhases, answered : BOOLEAN, ended : BOOLEAN, failed : BOOLEAN]
TerminalPages ==
  [mounted : BOOLEAN, shows : {"disconnected", "connecting", "connected"}, connected : BOOLEAN]

TerminalTypeOK ==
  /\ terminalPage \in TerminalPages
  /\ toPage \in Seq(TerminalMessages)
  /\ links \in Seq(TerminalLinks)
  /\ entry \in 0 .. Len(links)

\* A shell is opened by the answer, or after it.
ShellsAreAnswered(all) ==
  \A c \in DOMAIN all : all[c].phase = "shell" => all[c].answered

EntryIsOpen == entry # 0 => links[entry].phase = "shell"

\* What the page shows once everything sent has arrived: of the messages only the
\* last one counts.
WillShowConnected(page, messages) ==
  IF messages = <<>> THEN page.mounted /\ page.shows = "connected"
  ELSE messages[Len(messages)] = "opened"

TerminalIInv ==
  /\ TerminalTypeOK
  /\ ShellsAreAnswered(links) /\ EntryIsOpen
  /\ WillShowConnected(terminalPage, toPage) => entry # 0

------------------------------------------------------------------------------

(* The first state shows nothing.                                            *)
LEMMA TerminalInitIInv == TerminalInit => TerminalIInv
<1>1. SUFFICES ASSUME TerminalInit PROVE TerminalIInv
  OBVIOUS
<1>2. toPage \in Seq(TerminalMessages) /\ links \in Seq(TerminalLinks) /\ Len(links) = 0
  BY <1>1, EmptySeq DEF TerminalInit
<1>3. TerminalTypeOK
  BY <1>1, <1>2 DEF TerminalInit, TerminalTypeOK, TerminalPages
<1>4. DOMAIN links = {}
  BY <1>1 DEF TerminalInit
<1>5. QED
  BY <1>1, <1>3, <1>4 DEF TerminalInit, TerminalIInv, ShellsAreAnswered, EntryIsOpen,
     WillShowConnected

(* A message that is sent is the last one.                                   *)
LEMMA Told ==
  ASSUME TerminalTypeOK, NEW m \in TerminalMessages, Tell(<<m>>)
  PROVE  toPage' \in Seq(TerminalMessages) /\ toPage' # <<>> /\ toPage'[Len(toPage')] = m
<1>1. <<m>> \in Seq(TerminalMessages) /\ Len(<<m>>) = 1 /\ <<m>>[1] = m
  OBVIOUS
<1>2. /\ toPage' \in Seq(TerminalMessages) /\ Len(toPage') = Len(toPage) + 1
      /\ Len(toPage) \in Nat
      /\ \A i \in 1 .. Len(toPage) + 1 :
           toPage'[i] = IF i <= Len(toPage) THEN toPage[i] ELSE <<m>>[i - Len(toPage)]
  BY <1>1, ConcatProperties, LenProperties DEF TerminalTypeOK, Tell
<1>3. toPage'[Len(toPage')] = m
  BY <1>1, <1>2
<1>4. QED
  BY <1>2, <1>3, EmptySeq

(* To send nothing changes nothing.                                          *)
LEMMA NotTold == ASSUME TerminalTypeOK, Tell(<<>>) PROVE toPage' = toPage
BY ConcatEmptySeq DEF TerminalTypeOK, Tell

(* What the end of a session leaves: no session, and a page that will learn  *)
(* of it.                                                                    *)
LEMMA EndSessionIInv ==
  ASSUME TerminalIInv, NEW after \in Seq(TerminalLinks), Len(after) = Len(links),
         ShellsAreAnswered(after),
         EndSession(after), terminalPage' = terminalPage
  PROVE  TerminalIInv'
<1>1. links' \in Seq(TerminalLinks) /\ Len(links') = Len(after) /\ ShellsAreAnswered(links')
  <2>1. CASE entry = 0
    BY <2>1 DEF EndSession
  <2>2. CASE entry # 0
    <3> DEFINE link == [after[entry] EXCEPT !.ended = TRUE]
    <3>1. entry \in 1 .. Len(after) /\ DOMAIN after = 1 .. Len(after)
      BY <2>2, LenProperties DEF TerminalIInv, TerminalTypeOK
    <3>2. after[entry] \in TerminalLinks
      BY <3>1, ElementOfSeq
    <3>3. link \in TerminalLinks /\ link.phase = after[entry].phase /\ link.answered = after[entry].answered
      BY <3>2 DEF TerminalLinks
    <3>4. links' = [after EXCEPT ![entry] = link]
      BY <2>2 DEF EndSession
    <3> HIDE DEF link
    <3>5. /\ links' \in Seq(TerminalLinks) /\ Len(links') = Len(after)
          /\ \A c \in 1 .. Len(after) : links'[c] = IF c = entry THEN link ELSE after[c]
      BY <3>1, <3>3, <3>4, ExceptSeq
    <3>6. DOMAIN links' = 1 .. Len(after)
      BY <3>5, LenProperties
    <3>7. QED
      BY <3>1, <3>3, <3>5, <3>6 DEF ShellsAreAnswered
  <2>3. QED
    BY <2>1, <2>2
<1>2. entry' = 0
  BY DEF EndSession
<1>3. toPage' \in Seq(TerminalMessages) /\ ~WillShowConnected(terminalPage, toPage')
  <2>1. CASE entry = 0
    BY <2>1, NotTold DEF EndSession, TerminalIInv, TerminalTypeOK
  <2>2. CASE entry # 0
    <3>1. Tell(<<"closed">>) /\ "closed" \in TerminalMessages
      BY <2>2 DEF EndSession, TerminalMessages
    <3>2. QED
      BY <3>1, Told DEF TerminalIInv, WillShowConnected
  <2>3. QED
    BY <2>1, <2>2
<1>4. TerminalTypeOK'
  <2>1. Len(links') \in Nat
    BY <1>1, LenProperties
  <2>2. QED
    BY <1>1, <1>2, <1>3, <2>1 DEF TerminalIInv, TerminalTypeOK
<1>5. QED
  BY <1>1, <1>2, <1>3, <1>4 DEF TerminalIInv, EntryIsOpen

(* A connection whose shell is not open is not the session.                  *)
LEMMA OtherLink ==
  ASSUME TerminalTypeOK, EntryIsOpen, NEW c \in DOMAIN links, links[c].phase # "shell"
  PROVE  entry # c /\ (entry # 0 => entry \in 1 .. Len(links))
<1>1. DOMAIN links = 1 .. Len(links) /\ Len(links) \in Nat /\ entry \in 0 .. Len(links)
  BY LenProperties DEF TerminalTypeOK
<1>2. c # 0
  BY <1>1
<1>3. QED
  BY <1>1, <1>2 DEF EntryIsOpen

(* A connection that moves on, or fails, without being the session.          *)
LEMMA LinkIInv ==
  ASSUME TerminalIInv, NEW c \in DOMAIN links, NEW link \in TerminalLinks,
         links[c].phase # "shell", link.phase # "shell",
         links' = [links EXCEPT ![c] = link],
         entry' = entry, terminalPage' = terminalPage,
         toPage' = toPage \/ Tell(<<"open failed">>)
  PROVE  TerminalIInv'
<1>1. /\ links' \in Seq(TerminalLinks) /\ Len(links') = Len(links) /\ DOMAIN links = 1 .. Len(links)
      /\ \A d \in 1 .. Len(links) : links'[d] = IF d = c THEN link ELSE links[d]
  <2>1. links \in Seq(TerminalLinks) /\ DOMAIN links = 1 .. Len(links) /\ Len(links) \in Nat
    BY LenProperties DEF TerminalIInv, TerminalTypeOK
  <2>2. QED
    BY <2>1, ExceptSeq
<1>2. DOMAIN links' = 1 .. Len(links)
  BY <1>1, LenProperties
<1>3. ShellsAreAnswered(links')
  BY <1>1, <1>2 DEF TerminalIInv, ShellsAreAnswered
<1>a. EntryIsOpen'
  <2>1. entry # c /\ (entry # 0 => entry \in 1 .. Len(links))
    BY OtherLink DEF TerminalIInv
  <2>2. QED
    BY <1>1, <2>1 DEF TerminalIInv, EntryIsOpen
<1>4. toPage' \in Seq(TerminalMessages) /\ (WillShowConnected(terminalPage, toPage') => entry # 0)
  <2>1. CASE toPage' = toPage
    BY <2>1 DEF TerminalIInv, TerminalTypeOK
  <2>2. CASE Tell(<<"open failed">>)
    BY <2>2, Told DEF TerminalIInv, WillShowConnected, TerminalMessages
  <2>3. QED
    BY <2>1, <2>2
<1>5. QED
  BY <1>1, <1>3, <1>a, <1>4 DEF TerminalIInv, TerminalTypeOK

(* What the page does takes nothing from the session.                        *)
LEMMA PageIInv ==
  ASSUME TerminalIInv, Connect \/ Disconnect \/ Type \/ Leave \/ PageReceives
  PROVE  TerminalIInv'
<1>1. ASSUME terminalPage' \in TerminalPages, UNCHANGED <<toPage, links, entry>>,
             terminalPage'.mounted /\ terminalPage'.shows = "connected" =>
               terminalPage.mounted /\ terminalPage.shows = "connected"
      PROVE  TerminalIInv'
  BY <1>1 DEF TerminalIInv, TerminalTypeOK, EntryIsOpen, WillShowConnected
<1>2. CASE Connect \/ Disconnect \/ Type \/ Leave
  BY <1>1, <1>2 DEF Connect, Disconnect, Type, Leave, TerminalIInv, TerminalTypeOK, TerminalPages
<1>3. CASE PageReceives
  <2>1. /\ toPage # <<>> /\ toPage' = Tail(toPage)
        /\ terminalPage' = IF terminalPage.mounted THEN Shown(Head(toPage), terminalPage)
                           ELSE terminalPage
        /\ UNCHANGED <<links, entry>>
    BY <1>3 DEF PageReceives
  <2>2. /\ Head(toPage) \in TerminalMessages /\ toPage' \in Seq(TerminalMessages)
        /\ Len(toPage) \in Nat \ {0} /\ Len(toPage') = Len(toPage) - 1
        /\ \A i \in 1 .. Len(toPage') : toPage'[i] = toPage[i + 1]
        /\ Head(toPage) = toPage[1]
    BY <2>1, HeadTailProperties, EmptySeq DEF TerminalIInv, TerminalTypeOK
  <2>3. /\ Shown(Head(toPage), terminalPage) \in TerminalPages
        /\ Shown(Head(toPage), terminalPage).shows = "connected" => Head(toPage) = "opened"
    BY <2>2 DEF TerminalIInv, TerminalTypeOK, TerminalPages, Shown, TerminalMessages
  <2>4. CASE toPage' = <<>>
    <3>1. Len(toPage) = 1
      BY <2>2, <2>4
    <3>2. WillShowConnected(terminalPage', toPage') => WillShowConnected(terminalPage, toPage)
      BY <2>1, <2>2, <2>3, <2>4, <3>1 DEF WillShowConnected
    <3>3. QED
      BY <2>1, <2>2, <2>3, <3>2 DEF TerminalIInv, TerminalTypeOK, EntryIsOpen
  <2>5. CASE toPage' # <<>>
    <3>1. Len(toPage') \in Nat \ {0}
      BY <2>2, <2>5, EmptySeq
    <3>2. toPage'[Len(toPage')] = toPage[Len(toPage)]
      BY <2>2, <3>1
    <3>3. WillShowConnected(terminalPage', toPage') => WillShowConnected(terminalPage, toPage)
      BY <2>1, <2>5, <3>2 DEF WillShowConnected
    <3>4. QED
      BY <2>1, <2>2, <2>3, <3>3 DEF TerminalIInv, TerminalTypeOK, EntryIsOpen
  <2>6. QED
    BY <2>4, <2>5
<1>4. QED
  BY <1>2, <1>3

(* Nor do the calls that are handled, but for those that end the session.    *)
LEMMA HandlerIInv ==
  ASSUME TerminalIInv, HandleOpen \/ HandleClose \/ HandleWrite \/ LockWorkspace
  PROVE  TerminalIInv'
<1>a. links \in Seq(TerminalLinks) /\ ShellsAreAnswered(links)
  BY DEF TerminalIInv, TerminalTypeOK
<1>b. ASSUME NEW m \in TerminalMessages \ {"opened"}, Tell(<<m>>) \/ Tell(<<>>),
             UNCHANGED <<terminalPage, links, entry>>
      PROVE  TerminalIInv'
  <2>1. toPage' \in Seq(TerminalMessages) /\ (WillShowConnected(terminalPage,
   toPage') => entry # 0)
    <3>1. CASE Tell(<<m>>)
      BY <3>1, Told DEF TerminalIInv, WillShowConnected
    <3>2. CASE Tell(<<>>)
      BY <3>2, NotTold DEF TerminalIInv, TerminalTypeOK
    <3>3. QED
      BY <1>b, <3>1, <3>2
  <2>2. QED
    BY <1>b, <2>1 DEF TerminalIInv, TerminalTypeOK, EntryIsOpen
<1>1. CASE HandleOpen
  <2>1. CASE links' = Append(links, Link("resolving")) /\ UNCHANGED toPage
    <3>1. Link("resolving") \in TerminalLinks /\ Link("resolving").phase = "resolving"
      BY DEF Link, TerminalLinks, LinkPhases
    <3>2. /\ links' \in Seq(TerminalLinks) /\ Len(links') = Len(links) + 1 /\ Len(links) \in Nat
          /\ \A c \in 1 .. Len(links) : links'[c] = links[c]
          /\ links'[Len(links) + 1] = Link("resolving")
      BY <1>a, <2>1, <3>1, AppendProperties
    <3>3. DOMAIN links = 1 .. Len(links) /\ DOMAIN links' = 1 .. Len(links) + 1
      BY <1>a, <3>2, LenProperties
    <3>4. ShellsAreAnswered(links')
      BY <1>a, <3>1, <3>2, <3>3 DEF ShellsAreAnswered
    <3>5. UNCHANGED <<terminalPage, entry>>
      BY <1>1 DEF HandleOpen
    <3>6. EntryIsOpen'
      BY <3>2, <3>5 DEF EntryIsOpen, TerminalIInv, TerminalTypeOK
    <3>7. QED
      BY <2>1, <3>2, <3>4, <3>5, <3>6 DEF TerminalIInv, TerminalTypeOK
  <2>2. CASE Tell(<<"open failed">>) /\ UNCHANGED links
    BY <1>1, <1>b, <2>2 DEF HandleOpen, TerminalMessages
  <2>3. QED
    BY <1>1, <2>1, <2>2 DEF HandleOpen
<1>2. CASE HandleClose
  <2>1. CASE EndSession(links)
    BY <1>2, <1>a, <2>1, EndSessionIInv DEF HandleClose
  <2>2. CASE UNCHANGED <<toPage, links, entry>>
    BY <1>2, <2>2 DEF HandleClose, TerminalIInv, TerminalTypeOK, EntryIsOpen
  <2>3. QED
    BY <1>2, <2>1, <2>2 DEF HandleClose
<1>3. CASE HandleWrite
  <2>1. Tell(<<"write failed">>) \/ Tell(<<>>)
    BY <1>3 DEF HandleWrite
  <2>2. "write failed" \in TerminalMessages \ {"opened"} /\ UNCHANGED <<terminalPage, links,
   entry>>
    BY <1>3 DEF HandleWrite, TerminalMessages
  <2>3. QED
    BY <1>b, <2>1, <2>2
<1>4. CASE LockWorkspace
  BY <1>4, <1>a, EndSessionIInv DEF LockWorkspace
<1>5. QED
  BY <1>1, <1>2, <1>3, <1>4

(* Every callback of a connection.                                           *)
LEMMA CallbackIInv ==
  ASSUME TerminalIInv, NEW c \in DOMAIN links,
         \/ Resolved(c) \/ NotResolved(c) \/ Ready(c) \/ ShellOpened(c) \/ ShellRefused(c)
         \/ TimedOut(c) \/ Errors(c) \/ StreamCloses(c)
  PROVE  TerminalIInv'
<1> DEFINE link == links[c]
<1>a. /\ links \in Seq(TerminalLinks) /\ ShellsAreAnswered(links) /\ TerminalTypeOK
      /\ c \in 1 .. Len(links) /\ DOMAIN links = 1 .. Len(links) /\ link \in TerminalLinks
  BY LenProperties, ElementOfSeq DEF TerminalIInv, TerminalTypeOK
<1>b. ASSUME NEW next \in TerminalLinks, next.phase = "shell" => next.answered
      PROVE  LET after == [links EXCEPT ![c] = next]
             IN  after \in Seq(TerminalLinks) /\ Len(after) = Len(links) /\ ShellsAreAnswered(after)
  <2> DEFINE after == [links EXCEPT ![c] = next]
  <2>1. /\ after \in Seq(TerminalLinks) /\ Len(after) = Len(links)
        /\ \A d \in 1 .. Len(links) : after[d] = IF d = c THEN next ELSE links[d]
    BY <1>a, ExceptSeq
  <2>2. DOMAIN after = 1 .. Len(links)
    BY <1>a
  <2>3. QED
    BY <1>a, <1>b, <2>1, <2>2 DEF ShellsAreAnswered
<1>1. CASE Resolved(c)
  <2> DEFINE next == [link EXCEPT !.phase = "connecting"]
  <2>1. next \in TerminalLinks /\ next.phase = "connecting"
    BY <1>a DEF TerminalLinks, LinkPhases
  <2>2. EndSession([links EXCEPT ![c] = next]) /\ terminalPage' = terminalPage
    BY <1>1 DEF Resolved
  <2>3. QED
    BY <1>b, <2>1, <2>2, EndSessionIInv
<1>2. CASE NotResolved(c)
  <2> DEFINE next == [link EXCEPT !.phase = "over", !.answered = TRUE]
  <2>1. next \in TerminalLinks /\ next.phase = "over"
    BY <1>a DEF TerminalLinks, LinkPhases
  <2>2. QED
    BY <1>2, <2>1, LinkIInv DEF NotResolved
<1>3. CASE Ready(c)
  <2> DEFINE next == [link EXCEPT !.phase = "asked"]
  <2>1. next \in TerminalLinks /\ next.phase = "asked"
    BY <1>a DEF TerminalLinks, LinkPhases
  <2>2. QED
    BY <1>3, <2>1, LinkIInv DEF Ready
<1>4. CASE ShellOpened(c)
  <2> DEFINE next == [link EXCEPT !.phase = "shell", !.answered = TRUE]
  <2>1. next \in TerminalLinks /\ next.phase = "shell" /\ next.answered
    BY <1>a DEF TerminalLinks, LinkPhases
  <2>2. links' = [links EXCEPT ![c] = next] /\ entry' = c /\ terminalPage' = terminalPage
    BY <1>4 DEF ShellOpened
  <2>3. links' \in Seq(TerminalLinks) /\ Len(links') = Len(links) /\ ShellsAreAnswered(links')
    BY <1>b, <2>1, <2>2
  <2>4. EntryIsOpen' /\ c # 0
    BY <1>a, <2>1, <2>2 DEF EntryIsOpen
  <2>5. toPage' \in Seq(TerminalMessages)
    <3>1. Tell(<<>>) \/ Tell(<<"opened">>)
      BY <1>4 DEF ShellOpened, Unless
    <3>2. QED
      BY <1>a, <3>1, Told, NotTold DEF TerminalMessages, TerminalTypeOK
  <2>6. QED
    BY <1>a, <2>2, <2>3, <2>4, <2>5 DEF TerminalIInv, TerminalTypeOK
<1>5. CASE ShellRefused(c)
  <2> DEFINE next == [link EXCEPT !.phase = "over", !.answered = TRUE, !.ended = TRUE,
                                  !.failed = TRUE]
  <2>1. next \in TerminalLinks /\ next.phase = "over"
    BY <1>a DEF TerminalLinks, LinkPhases
  <2>2. Tell(<<>>) \/ Tell(<<"open failed">>)
    BY <1>5 DEF ShellRefused, Unless
  <2>3. toPage' = toPage \/ Tell(<<"open failed">>)
    BY <1>a, <2>2, NotTold
  <2>4. QED
    BY <1>5, <2>1, <2>3, LinkIInv DEF ShellRefused, FailedLink
<1>6. CASE TimedOut(c)
  <2> DEFINE next == [link EXCEPT !.answered = TRUE, !.ended = TRUE]
  <2>1. next \in TerminalLinks /\ next.phase = link.phase
    BY <1>a DEF TerminalLinks
  <2>2. QED
    BY <1>6, <2>1, LinkIInv DEF TimedOut
<1>7. CASE Errors(c)
  <2>1. CASE link.answered
    <3> DEFINE next == [link EXCEPT !.failed = TRUE,
                                    !.phase = IF @ = "shell" THEN @ ELSE "over"]
    <3>1. next \in TerminalLinks /\ (next.phase = "shell" => next.answered)
      BY <1>a, <2>1 DEF TerminalLinks, LinkPhases
    <3>2. EndSession([links EXCEPT ![c] = next]) /\ terminalPage' = terminalPage
      BY <1>7, <2>1 DEF Errors
    <3> HIDE DEF next
    <3>3. QED
      BY <1>b, <3>1, <3>2, EndSessionIInv
  <2>2. CASE ~link.answered
    <3> DEFINE next == [link EXCEPT !.phase = "over", !.answered = TRUE, !.ended = TRUE,
                                    !.failed = TRUE]
    <3>1. next \in TerminalLinks /\ next.phase = "over"
      BY <1>a DEF TerminalLinks, LinkPhases
    <3>2. link.phase # "shell"
      BY <1>a, <2>2 DEF ShellsAreAnswered
    <3>3. QED
      BY <1>7, <2>2, <3>1, <3>2, LinkIInv DEF Errors, FailedLink
  <2>3. QED
    BY <2>1, <2>2
<1>8. CASE StreamCloses(c)
  <2> DEFINE next == [link EXCEPT !.phase = "over"]
  <2>1. next \in TerminalLinks /\ next.phase = "over"
    BY <1>a DEF TerminalLinks, LinkPhases
  <2>2. EndSession([links EXCEPT ![c] = next]) /\ terminalPage' = terminalPage
    BY <1>8 DEF StreamCloses
  <2>3. QED
    BY <1>b, <2>1, <2>2, EndSessionIInv
<1>9. QED
  BY <1>1, <1>2, <1>3, <1>4, <1>5, <1>6, <1>7, <1>8

(* The invariant holds of every reachable state.                             *)
LEMMA TerminalInvariance == TerminalSpec => []TerminalIInv
<1>1. TerminalIInv /\ [TerminalNext]_terminalVars => TerminalIInv'
  <2>1. ASSUME TerminalIInv, UNCHANGED terminalVars PROVE TerminalIInv'
    BY <2>1 DEF TerminalIInv, TerminalTypeOK, EntryIsOpen, terminalVars
  <2>2. QED
    BY <2>1, PageIInv, HandlerIInv, CallbackIInv DEF TerminalNext
<1>2. QED
  BY <1>1, TerminalInitIInv, PTL DEF TerminalSpec

(* A page that has received everything and shows itself connected has a      *)
(* session whose shell is open: every end of a session is told, and of what  *)
(* is told only the last counts.                                             *)
THEOREM ShownConnectionIsOpen == TerminalSpec => []ConnectedIsOpen
<1>1. TerminalIInv => ConnectedIsOpen
  BY DEF TerminalIInv, EntryIsOpen, WillShowConnected, ConnectedIsOpen
<1>2. QED
  BY <1>1, TerminalInvariance, PTL

------------------------------------------------------------------------------
(* Certificates.                                                            *)

\* Nginx serves certificate n of domain d, a later one, or the domain without TLS.
Serves(d, n) == loaded[d] = 0 \/ loaded[d] >= n

FilesOK ==
  /\ serials \in Nat
  /\ files = [d \in Domains |-> files[d]]
  /\ \A d \in Domains : files[d].serial \in 0 .. serials
  /\ \A d \in Domains : loaded[d] \in Nat

\* The certificate that a call has is not later than the files, and once the call has
\* reloaded Nginx, not later than what Nginx serves.
Obtained(d, n) == d \in Domains /\ n \in 0 .. files[d].serial

IssueOK(c) ==
  c.stage # "idle" =>
    /\ c = [stage |-> c.stage, domain |-> c.domain, authority |-> c.authority,
            site |-> c.site, serial |-> c.serial, managed |-> c.managed]
    /\ c.domain \in Domains
    /\ c.stage \in {"managed", "settings", "apply", "record"} => Obtained(c.domain, c.serial)
    /\ c.stage = "record" => Serves(c.domain, c.serial)

SweepOK(s) ==
  /\ s.stage = "next" => s = [stage |-> "next", left |-> s.left]
  /\ s.stage = "renew" => s.domain \in Domains
  /\ s.stage \in {"reload", "sync"} => Obtained(s.domain, s.serial)
  /\ s.stage = "sync" => Serves(s.domain, s.serial)

\* The inductive invariant.
CertificatesIInv ==
  /\ FilesOK
  /\ issue = [i \in Issuers |-> issue[i]]
  /\ \A i \in Issuers : IssueOK(issue[i])
  /\ SweepOK(sweep)
  /\ recorded = [d \in Domains |-> recorded[d]]

------------------------------------------------------------------------------

\* What every step does to the host: certificates are only followed by later ones, and
\* Nginx takes what the files have.
HostGrows ==
  /\ FilesOK'
  /\ \A d \in Domains : /\ files'[d].serial >= files[d].serial
                        /\ loaded'[d] \in {loaded[d], 0, files[d].serial}

(* No certificate was made at first.                                         *)
LEMMA CertificatesInitIInv == CertificatesInit => CertificatesIInv
<1> SUFFICES ASSUME CertificatesInit PROVE CertificatesIInv
  OBVIOUS
<1>1. /\ files = [d \in Domains |-> None] /\ loaded = [d \in Domains |-> 0] /\ serials = 0
      /\ recorded = [d \in Domains |-> NoCertificate]
      /\ issue = [i \in Issuers |-> NotCalled] /\ sweep = NotCalled
  BY DEF CertificatesInit
<1>2. None.serial = 0 /\ NotCalled.stage = "idle"
  BY DEF None, NotCalled
<1>3. FilesOK
  BY <1>1, <1>2 DEF FilesOK
<1>4. \A i \in Issuers : issue[i] = NotCalled
  BY <1>1
<1>5. IssueOK(NotCalled) /\ SweepOK(NotCalled)
  BY <1>2 DEF IssueOK, SweepOK
<1>6. QED
  BY <1>1, <1>3, <1>4, <1>5 DEF CertificatesIInv

(* A certificate that is made is the latest.                                 *)
LEMMA ObtainGrows ==
  ASSUME FilesOK, NEW d \in Domains, NEW authority, Obtain(d, authority), UNCHANGED loaded
  PROVE  HostGrows
<1>1. CASE UNCHANGED <<files, serials>>
  BY <1>1 DEF FilesOK, HostGrows
<1>2. CASE serials' = serials + 1
           /\ files' = [files EXCEPT ![d] = [serial |-> serials', authority |-> authority]]
  <2>1. PICK new : new = [serial |-> serials', authority |-> authority]
    OBVIOUS
  <2>2. new.serial = serials' /\ files' = [files EXCEPT ![d] = new]
    BY <1>2, <2>1
  <2>3. \A e \in Domains : files'[e] = IF e = d THEN new ELSE files[e]
    BY <2>2 DEF FilesOK
  <2>4. files' = [e \in Domains |-> files'[e]]
    BY <2>2 DEF FilesOK
  <2>5. QED
    BY <1>2, <2>2, <2>3, <2>4 DEF FilesOK, HostGrows
<1>3. QED
  BY <1>1, <1>2 DEF Obtain

(* What Nginx loads is in the files, or nothing.                             *)
LEMMA LoadsGrows ==
  ASSUME FilesOK, UNCHANGED <<files, serials>>, NEW sites, loaded' = Loads(sites)
  PROVE  HostGrows
<1>1. \A d \in Domains : loaded'[d] = 0 \/ loaded'[d] = files[d].serial
  BY DEF Loads
<1>2. QED
  BY <1>1 DEF FilesOK, HostGrows

LEMMA SameGrows ==
  ASSUME FilesOK, UNCHANGED <<files, serials, loaded>>
  PROVE  HostGrows
BY DEF FilesOK, HostGrows

(* A call that does not go on is not overtaken.                              *)
LEMMA CallsGrow ==
  ASSUME FilesOK, HostGrows
  PROVE  /\ \A d, n : Obtained(d, n) => Obtained(d, n)'
         /\ \A d, n : Obtained(d, n) /\ Serves(d, n) => Serves(d, n)'
         /\ \A c : IssueOK(c) => IssueOK(c)'
         /\ \A s : SweepOK(s) => SweepOK(s)'
<1>1. ASSUME NEW d, NEW n, Obtained(d, n) PROVE Obtained(d, n)'
  BY <1>1 DEF Obtained, FilesOK, HostGrows
<1>2. ASSUME NEW d, NEW n, Obtained(d, n), Serves(d, n) PROVE Serves(d, n)'
  <2>1. /\ d \in Domains /\ n \in 0 .. files[d].serial
        /\ loaded'[d] \in {loaded[d], 0, files[d].serial}
        /\ files[d].serial \in Nat
    BY <1>2 DEF Obtained, HostGrows, FilesOK
  <2>2. QED
    BY <1>2, <2>1 DEF Serves
<1>3. ASSUME NEW c, IssueOK(c) PROVE IssueOK(c)'
  BY <1>1, <1>2, <1>3 DEF IssueOK
<1>4. ASSUME NEW s, SweepOK(s) PROVE SweepOK(s)'
  BY <1>1, <1>2, <1>4 DEF SweepOK
<1>5. QED
  BY <1>1, <1>2, <1>3, <1>4

(* The calls of a step that goes on with one issue.                          *)
LEMMA IssueGoesOn ==
  ASSUME CertificatesIInv, HostGrows, NEW i \in Issuers, NEW c,
         issue' = [issue EXCEPT ![i] = c], IssueOK(c)', UNCHANGED sweep,
         recorded' = [d \in Domains |-> recorded'[d]]
  PROVE  CertificatesIInv'
<1>1. \A j \in Issuers : issue'[j] = IF j = i THEN c ELSE issue[j]
  BY DEF CertificatesIInv
<1>2. issue' = [j \in Issuers |-> issue'[j]]
  BY DEF CertificatesIInv
<1>4. QED
  BY <1>1, <1>2, CallsGrow DEF CertificatesIInv, HostGrows

(* Issuing a certificate: what the files have after it was obtained is at     *)
(* least as late, and the site is written, and Nginx reloaded, before it is   *)
(* recorded.                                                                 *)
LEMMA IssueIInv ==
  ASSUME CertificatesIInv, NEW i \in Issuers,
         \/ \E d \in Domains, authority \in Authorities : Issue(i, d, authority)
         \/ PrepareChallenge(i) \/ ObtainIssued(i) \/ ReadManaged(i)
         \/ WriteManaged(i) \/ RecordIssued(i) \/ IssueFails(i)
         \/ \E redirect \in BOOLEAN : ApplyCertificate(i, redirect)
  PROVE  CertificatesIInv'
<1> USE DEF host, calls
<1>1. PICK old : old = issue[i]
  OBVIOUS
<1>2. FilesOK /\ IssueOK(old) /\ recorded = [d \in Domains |-> recorded[d]]
  BY <1>1 DEF CertificatesIInv
<1>3. ASSUME UNCHANGED <<files, serials, loaded, recorded, sweep>>,
             NEW c, issue' = [issue EXCEPT ![i] = c], IssueOK(c)
      PROVE  CertificatesIInv'
  BY <1>2, <1>3, SameGrows, CallsGrow, IssueGoesOn
<1>4. ASSUME NEW d \in Domains, NEW authority, Issue(i, d, authority)
      PROVE  CertificatesIInv'
  <2>1. PICK c : c = [stage |-> IF authority = "letsencrypt" THEN "challenge" ELSE "obtain",
                      domain |-> d, authority |-> authority, site |-> site[d], serial |-> 0,
                      managed |-> {}]
    OBVIOUS
  <2>2. IssueOK(c)
    BY <2>1 DEF IssueOK
  <2>3. QED
    BY <1>3, <1>4, <2>1, <2>2 DEF Issue
<1>5. CASE PrepareChallenge(i)
  <2>1. PICK c : c = [old EXCEPT !.stage = "obtain"]
    OBVIOUS
  <2>2. /\ old.stage = "challenge" /\ issue' = [issue EXCEPT ![i] = c]
        /\ loaded' = Loads(site') /\ UNCHANGED <<files, serials, recorded, sweep>>
    BY <1>1, <1>2, <1>5, <2>1 DEF PrepareChallenge, IssueAt, IssueGoes, SaveSite, CertificatesIInv
  <2>3. c.stage = "obtain" /\ IssueOK(c)
    BY <1>2, <2>1, <2>2 DEF IssueOK
  <2>4. PICK sites : sites = site'
    OBVIOUS
  <2>5. HostGrows
    BY <1>2, <2>2, <2>4, LoadsGrows
  <2>6. IssueOK(c)'
    BY <1>2, <2>3, <2>5, CallsGrow
  <2>7. QED
    BY <1>2, <2>2, <2>5, <2>6, IssueGoesOn
<1>6. CASE ObtainIssued(i)
  <2>1. PICK c : c = [old EXCEPT !.serial = files'[old.domain].serial,
                       !.stage = IF old.authority = "letsencrypt" THEN "managed" ELSE "apply"]
    OBVIOUS
  <2>2. /\ old.stage = "obtain" /\ issue' = [issue EXCEPT ![i] = c]
        /\ Obtain(old.domain, old.authority) /\ UNCHANGED <<loaded, recorded, sweep>>
    BY <1>1, <1>2, <1>6, <2>1 DEF ObtainIssued, IssueAt, CertificatesIInv
  <2>3. HostGrows
    BY <1>2, <2>2, ObtainGrows DEF IssueOK
  <2>4. /\ c.domain = old.domain /\ c.serial = files'[old.domain].serial
        /\ c.stage \in {"managed", "apply"}
        /\ c = [stage |-> c.stage, domain |-> c.domain, authority |-> c.authority,
                site |-> c.site, serial |-> c.serial, managed |-> c.managed]
    BY <1>2, <2>1, <2>2 DEF IssueOK
  <2>5. old.domain \in Domains /\ files'[old.domain].serial \in Nat
    BY <1>2, <2>2, <2>3 DEF IssueOK, HostGrows, FilesOK
  <2>6. IssueOK(c)'
    BY <2>4, <2>5 DEF IssueOK, Obtained
  <2>7. QED
    BY <1>2, <2>2, <2>3, <2>6, IssueGoesOn
<1>7. CASE ReadManaged(i)
  <2>1. PICK c : c = [old EXCEPT !.managed = managedDomains \cup {old.domain},
                                 !.stage = "settings"]
    OBVIOUS
  <2>2. /\ old.stage = "managed" /\ issue' = [issue EXCEPT ![i] = c]
        /\ UNCHANGED <<files, serials, loaded, recorded, sweep>>
    BY <1>1, <1>2, <1>7, <2>1 DEF ReadManaged, IssueAt, CertificatesIInv
  <2>3. c = [stage |-> "settings", domain |-> old.domain, authority |-> old.authority,
             site |-> old.site, serial |-> old.serial,
             managed |-> managedDomains \cup {old.domain}]
    BY <1>2, <2>1, <2>2 DEF IssueOK
  <2>4. IssueOK(c)
    BY <1>2, <2>2, <2>3 DEF IssueOK, Obtained
  <2>5. QED
    BY <1>3, <2>2, <2>4
<1>8. CASE WriteManaged(i)
  <2>1. PICK c : c = [old EXCEPT !.stage = "apply"]
    OBVIOUS
  <2>2. /\ old.stage = "settings" /\ issue' = [issue EXCEPT ![i] = c]
        /\ UNCHANGED <<files, serials, loaded, recorded, sweep>>
    BY <1>1, <1>2, <1>8, <2>1 DEF WriteManaged, IssueAt, IssueGoes, CertificatesIInv
  <2>3. c = [stage |-> "apply", domain |-> old.domain, authority |-> old.authority,
             site |-> old.site, serial |-> old.serial, managed |-> old.managed]
    BY <1>2, <2>1, <2>2 DEF IssueOK
  <2>4. IssueOK(c)
    BY <1>2, <2>2, <2>3 DEF IssueOK, Obtained
  <2>5. QED
    BY <1>3, <2>2, <2>4
<1>9. ASSUME NEW redirect, ApplyCertificate(i, redirect) PROVE CertificatesIInv'
  <2>1. PICK c : c = [old EXCEPT !.stage = "record", !.site.redirect = redirect]
    OBVIOUS
  <2>2. PICK tls : tls = [present |-> TRUE, ssl |-> TRUE, redirect |-> redirect]
    OBVIOUS
  <2>3. /\ old.stage = "apply" /\ issue' = [issue EXCEPT ![i] = c]
        /\ SaveSite(old.domain, tls) /\ UNCHANGED <<files, serials, recorded, sweep>>
    <3>1. /\ old.stage = "apply" /\ SaveSite(old.domain, tls)
          /\ issue' = [issue EXCEPT ![i].stage = "record", ![i].site.redirect = redirect]
          /\ UNCHANGED <<files, serials, recorded, sweep>>
      BY <1>1, <1>9, <2>2 DEF ApplyCertificate, IssueAt
    <3>2. PICK mid : mid = [issue EXCEPT ![i].stage = "record"]
      OBVIOUS
    <3>3. issue' = [mid EXCEPT ![i].site.redirect = redirect]
      BY <3>1, <3>2
    <3>4. PICK between : between = [old EXCEPT !.stage = "record"]
      OBVIOUS
    <3>5. mid = [issue EXCEPT ![i] = between] /\ mid[i] = between
      BY <1>1, <3>2, <3>4 DEF CertificatesIInv
    <3>6. c = [between EXCEPT !.site.redirect = redirect]
      BY <2>1, <3>4
    <3>7. issue' = [mid EXCEPT ![i] = c]
      BY <3>3, <3>5, <3>6
    <3>8. issue' = [issue EXCEPT ![i] = c]
      BY <3>5, <3>7 DEF CertificatesIInv
    <3>9. QED
      BY <3>1, <3>8
  <2>4. /\ c.stage = "record" /\ c.domain = old.domain /\ c.serial = old.serial
        /\ c = [stage |-> c.stage, domain |-> c.domain, authority |-> c.authority,
                site |-> c.site, serial |-> c.serial, managed |-> c.managed]
    BY <1>2, <2>1, <2>3 DEF IssueOK
  <2>5. Obtained(old.domain, old.serial)
    BY <1>2, <2>3 DEF IssueOK
  <2>6. PICK sites : sites = site'
    OBVIOUS
  <2>7. HostGrows
    BY <1>2, <2>3, <2>6, LoadsGrows DEF SaveSite
  <2>8. loaded'[old.domain] = files[old.domain].serial \/ loaded'[old.domain] = 0
    BY <2>3, <2>5 DEF SaveSite, Loads, Obtained
  <2>9. Obtained(old.domain, old.serial)' /\ Serves(old.domain, old.serial)'
    BY <1>2, <2>3, <2>5, <2>8 DEF Obtained, Serves, FilesOK
  <2>10. IssueOK(c)'
    BY <2>4, <2>9 DEF IssueOK, Obtained
  <2>11. QED
    BY <1>2, <2>3, <2>7, <2>10, IssueGoesOn
<1>10. CASE RecordIssued(i) \/ IssueFails(i)
  <2>1. PICK c : c = NotCalled
    OBVIOUS
  <2>2. /\ issue' = [issue EXCEPT ![i] = c] /\ UNCHANGED <<files, serials, loaded, sweep>>
        /\ recorded' = [d \in Domains |-> recorded'[d]]
    BY <1>2, <1>10, <2>1 DEF RecordIssued, IssueFails, Accept
  <2>3. IssueOK(c)'
    BY <2>1 DEF IssueOK, NotCalled
  <2>4. QED
    BY <1>2, <2>2, <2>3, SameGrows, IssueGoesOn
<1>11. QED
  BY <1>4, <1>5, <1>6, <1>7, <1>8, <1>9, <1>10

(* The calls of a step that goes on with the sweep.                          *)
LEMMA SweepGoesOn ==
  ASSUME CertificatesIInv, HostGrows, UNCHANGED issue, NEW s, sweep' = s, SweepOK(s)',
         recorded' = [d \in Domains |-> recorded'[d]]
  PROVE  CertificatesIInv'
BY CallsGrow DEF CertificatesIInv, HostGrows

(* The sweep records what it renewed after Nginx has reloaded.               *)
LEMMA SweepIInv ==
  ASSUME CertificatesIInv,
         \/ StartSweep \/ EndSweep \/ NotRenewed \/ Renew \/ ReloadRenewed \/ RecordRenewed
         \/ \E d \in Domains : NextManaged(d)
  PROVE  CertificatesIInv'
<1> USE DEF host, calls, SweepAt
<1>1. FilesOK /\ SweepOK(sweep) /\ recorded = [d \in Domains |-> recorded[d]]
  BY DEF CertificatesIInv
<1>2. ASSUME UNCHANGED <<files, serials, loaded, issue>>,
             recorded' = [d \in Domains |-> recorded'[d]], NEW s, sweep' = s, SweepOK(s)
      PROVE  CertificatesIInv'
  BY <1>1, <1>2, SameGrows, CallsGrow, SweepGoesOn
<1>3. CASE StartSweep \/ EndSweep \/ NotRenewed \/ RecordRenewed
  <2>1. PICK s : s = sweep'
    OBVIOUS
  <2>2. s = NotCalled \/ \E left : s = [stage |-> "next", left |-> left]
    BY <1>3, <2>1 DEF StartSweep, EndSweep, NotRenewed, RecordRenewed
  <2>3. SweepOK(s)
    BY <2>2 DEF SweepOK, NotCalled
  <2>4. /\ UNCHANGED <<files, serials, loaded, issue>>
        /\ recorded' = [d \in Domains |-> recorded'[d]]
    BY <1>1, <1>3 DEF StartSweep, EndSweep, NotRenewed, RecordRenewed, Accept
  <2>5. QED
    BY <1>2, <2>1, <2>3, <2>4
<1>4. ASSUME NEW d \in Domains, NextManaged(d) PROVE CertificatesIInv'
  <2>1. PICK s : s = sweep'
    OBVIOUS
  <2>2. \/ \E left : s = [stage |-> "renew", left |-> left, domain |-> d]
        \/ \E left : s = [stage |-> "next", left |-> left]
    BY <1>1, <1>4, <2>1 DEF NextManaged, SweepOK
  <2>3. SweepOK(s)
    BY <2>2 DEF SweepOK
  <2>4. UNCHANGED <<files, serials, loaded, issue, recorded>>
    BY <1>4 DEF NextManaged
  <2>5. QED
    BY <1>1, <1>2, <2>1, <2>3, <2>4
<1>5. CASE Renew
  <2>1. PICK s : s = sweep'
    OBVIOUS
  <2>2. /\ sweep.stage = "renew" /\ Obtain(sweep.domain, "letsencrypt")
        /\ s = [stage |-> "reload", left |-> sweep.left, domain |-> sweep.domain,
                serial |-> files'[sweep.domain].serial]
        /\ UNCHANGED <<loaded, recorded, issue>>
    BY <1>5, <2>1 DEF Renew
  <2>3. sweep.domain \in Domains
    BY <1>1, <2>2 DEF SweepOK
  <2>4. HostGrows
    BY <1>1, <2>2, <2>3, ObtainGrows
  <2>5. files'[sweep.domain].serial \in Nat
    BY <2>3, <2>4 DEF HostGrows, FilesOK
  <2>6. PICK n : n = files'[sweep.domain].serial
    OBVIOUS
  <2>7. s.stage = "reload" /\ s.domain = sweep.domain /\ s.serial = n
    BY <2>2, <2>6
  <2>8. SweepOK(s)'
    BY <2>3, <2>5, <2>6, <2>7 DEF SweepOK, Obtained
  <2>9. QED
    BY <1>1, <2>1, <2>2, <2>4, <2>8, SweepGoesOn
<1>6. CASE ReloadRenewed
  <2>1. PICK s : s = sweep'
    OBVIOUS
  <2>2. sweep.stage = "reload" /\ UNCHANGED <<files, serials, issue, recorded>>
    BY <1>6 DEF ReloadRenewed
  <2>3. CASE loaded' = loaded /\ s = [stage |-> "next", left |-> sweep.left]
    <3>1. SweepOK(s)
      BY <2>3 DEF SweepOK
    <3>2. QED
      BY <1>1, <1>2, <2>1, <2>2, <2>3, <3>1
  <2>4. ASSUME NEW read, loaded' = Loads(site),
               s = [stage |-> "sync", left |-> sweep.left, domain |-> sweep.domain,
                    serial |-> sweep.serial, site |-> read]
        PROVE  CertificatesIInv'
    <3>1. HostGrows
      BY <1>1, <2>2, <2>4, LoadsGrows
    <3>2. Obtained(sweep.domain, sweep.serial)
      BY <1>1, <2>2 DEF SweepOK
    <3>3. loaded'[sweep.domain] = files[sweep.domain].serial \/ loaded'[sweep.domain] = 0
      BY <2>4, <3>2 DEF Loads, Obtained
    <3>4. Obtained(s.domain, s.serial)' /\ Serves(s.domain, s.serial)'
      BY <1>1, <2>2, <2>4, <3>2, <3>3 DEF Obtained, Serves, FilesOK
    <3>5. SweepOK(s)'
      BY <2>4, <3>4 DEF SweepOK
    <3>6. QED
      BY <1>1, <2>1, <2>2, <3>1, <3>5, SweepGoesOn
  <2>5. QED
    BY <1>6, <2>1, <2>3, <2>4 DEF ReloadRenewed
<1>7. QED
  BY <1>3, <1>4, <1>5, <1>6

(* Listings, the time and a timer of the host.                               *)
LEMMA RestIInv ==
  ASSUME CertificatesIInv,
         \/ \E d \in Domains : BecomesDue(d) \/ RenewedElsewhere(d)
         \/ \E l \in Listers : List(l) \/ ReadSites(l) \/ SitesUnread(l) \/ Publish(l)
         \/ UNCHANGED certificateVars
  PROVE  CertificatesIInv'
<1> USE DEF host, calls
<1>1. FilesOK /\ recorded = [d \in Domains |-> recorded[d]]
  BY DEF CertificatesIInv
<1>2. ASSUME HostGrows, UNCHANGED <<issue, sweep>>,
             recorded' = [d \in Domains |-> recorded'[d]]
      PROVE  CertificatesIInv'
  BY <1>1, <1>2, CallsGrow DEF CertificatesIInv, HostGrows
<1>3. ASSUME NEW d \in Domains, RenewedElsewhere(d) PROVE CertificatesIInv'
  BY <1>1, <1>2, <1>3, ObtainGrows DEF RenewedElsewhere
<1>4. CASE \/ \E d \in Domains : BecomesDue(d)
           \/ \E l \in Listers : List(l) \/ ReadSites(l) \/ SitesUnread(l) \/ Publish(l)
           \/ UNCHANGED certificateVars
  <2>1. UNCHANGED <<files, serials, loaded, issue, sweep>>
    BY <1>4 DEF BecomesDue, List, ReadSites, SitesUnread, Publish, certificateVars
  <2>2. recorded' = [d \in Domains |-> recorded'[d]]
    BY <1>1, <1>4 DEF BecomesDue, List, ReadSites, SitesUnread, Publish, certificateVars
  <2>3. QED
    BY <1>1, <1>2, <2>1, <2>2, SameGrows
<1>5. QED
  BY <1>3, <1>4

(* Every step keeps the inductive invariant.                                 *)
LEMMA CertificatesNextIInv ==
  ASSUME CertificatesIInv, [CertificatesNext]_certificateVars
  PROVE  CertificatesIInv'
BY IssueIInv, SweepIInv, RestIInv DEF CertificatesNext

(* A listing reports another certificate than the one that was accepted, and *)
(* keeps the number of the one that was.                                     *)
LEMMA ListingAcceptsNothing ==
  ASSUME NEW l \in Listers, Publish(l), NEW d \in Domains, recorded[d].serial # 0
  PROVE  recorded'[d].serial = recorded[d].serial
<1>1. PICK n, s : recorded'[d] = Observed(d, n, s)
  BY DEF Publish
<1>2. QED
  BY <1>1 DEF Observed, NoCertificate

(* What a step accepts is what Nginx serves.                                 *)
LEMMA StepAcceptsServed ==
  ASSUME CertificatesIInv, [CertificatesNext]_certificateVars, NEW d \in Domains,
         recorded[d].serial # 0, recorded'[d].serial # recorded[d].serial
  PROVE  loaded[d] = 0 \/ loaded[d] >= recorded'[d].serial
<1> USE DEF host, calls
<1>1. ASSUME NEW i \in Issuers, RecordIssued(i)
      PROVE  loaded[d] = 0 \/ loaded[d] >= recorded'[d].serial
  <2>1. issue[i].stage = "record" /\ IssueOK(issue[i])
    BY <1>1 DEF RecordIssued, IssueAt, CertificatesIInv
  <2>2. issue[i].domain = d /\ recorded'[d].serial = issue[i].serial
    BY <1>1 DEF RecordIssued, Accept, CertificatesIInv
  <2>3. Serves(d, recorded'[d].serial)
    BY <2>1, <2>2 DEF IssueOK
  <2>4. QED
    BY <2>3 DEF Serves
<1>2. CASE RecordRenewed
  <2>1. sweep.stage = "sync" /\ SweepOK(sweep)
    BY <1>2 DEF RecordRenewed, SweepAt, CertificatesIInv
  <2>2. sweep.domain = d /\ recorded'[d].serial = sweep.serial
    BY <1>2 DEF RecordRenewed, Accept, CertificatesIInv
  <2>3. Serves(d, recorded'[d].serial)
    BY <2>1, <2>2 DEF SweepOK
  <2>4. QED
    BY <2>3 DEF Serves
<1>3. \/ \E i \in Issuers : RecordIssued(i)
      \/ RecordRenewed
      \/ \E l \in Listers : Publish(l)
      \/ UNCHANGED recorded
  BY DEF CertificatesNext, certificateVars, Issue, PrepareChallenge, ObtainIssued, ReadManaged,
     WriteManaged, IssueFails, ApplyCertificate, StartSweep, EndSweep, NotRenewed, Renew,
     ReloadRenewed, NextManaged, BecomesDue, RenewedElsewhere, List, ReadSites, SitesUnread
<1>4. QED
  BY <1>1, <1>2, <1>3, ListingAcceptsNothing

(* Once a certificate of a domain was accepted into the plan, another one     *)
(* takes its place only when Nginx serves that one or a later one, or the    *)
(* domain without TLS, however many windows issue, sweeps renew and listings *)
(* publish at the same time.                                                 *)
THEOREM AcceptsWhatIsServed == CertificatesSpec => AcceptedIsServed
<1>1. CertificatesIInv /\ [CertificatesNext]_certificateVars =>
        [\A d \in Domains :
           recorded[d].serial # 0 /\ recorded'[d].serial # recorded[d].serial
           => loaded[d] = 0 \/ loaded[d] >= recorded'[d].serial]_certificateVars
  BY StepAcceptsServed
<1>2. CertificatesIInv /\ [CertificatesNext]_certificateVars => CertificatesIInv'
  BY CertificatesNextIInv
<1>3. QED
  BY <1>1, <1>2, CertificatesInitIInv, PTL DEF CertificatesSpec, AcceptedIsServed

------------------------------------------------------------------------------
(* A pipeline and its four stores.                                           *)

Records == [target : Targets, configureDomain : BOOLEAN, port : AppPorts,
            hostPort : Parameters]

\* A saved form: HOST_PORT is the port of the application while CloudForge manages it.
IsInput(input) ==
  /\ input \in Records
  /\ input.configureDomain => input.hostPort = input.port

IsPipelineCall(call) ==
  call = [op |-> call.op, stage |-> call.stage, existing |-> call.existing,
          input |-> call.input]

\* How far a save has come is what the stores hold of what it saves.
SaveIsAt(call) ==
  LET input == call.input
  IN /\ call.stage \in {"job", "old job", "row", "domain", "application",
                        "old application", "saved"} => IsInput(input)
     /\ call.stage \in {"old job", "old application"} =>
          call.existing.target # input.target
     /\ call.stage \in {"old job", "row", "domain", "application", "old application",
                        "saved"} => jobs[input.target] # NoJob
     /\ call.stage \in {"domain", "application", "old application", "saved"} =>
          pipeline = input
     /\ call.stage \in {"application", "old application", "saved"} =>
          (input.configureDomain => proxied[input.target] = input.port)
     /\ call.stage \in {"old application", "saved"} => input.target \in apps

\* The inductive invariant, of one call at a time.
PipelineIInv ==
  /\ jobs = [t \in Targets |-> jobs[t]]
  /\ proxied = [t \in Targets |-> proxied[t]]
  /\ jenkinsCall = [c \in Callers |-> jenkinsCall[c]]
  /\ \A c \in Callers : IsPipelineCall(jenkinsCall[c]) /\ SaveIsAt(jenkinsCall[c])

------------------------------------------------------------------------------

(* No call is under way at first.                                            *)
LEMMA PipelineInitIInv == JenkinsInit => PipelineIInv
<1>1. SUFFICES ASSUME JenkinsInit PROVE PipelineIInv
  OBVIOUS
<1>2. jenkinsCall = [c \in Callers |-> jenkinsCall[c]]
  BY <1>1 DEF JenkinsInit
<1>3. ASSUME NEW c \in Callers PROVE jenkinsCall[c] = JenkinsIdle
  BY <1>1, <1>3 DEF JenkinsInit
<1>4. IsPipelineCall(JenkinsIdle)
  BY DEF JenkinsIdle, IsPipelineCall
<1>5. JenkinsIdle.stage = "idle"
  BY DEF JenkinsIdle
<1>6. SaveIsAt(JenkinsIdle)
  BY <1>5 DEF SaveIsAt
<1>7. QED
  BY <1>1, <1>2, <1>3, <1>4, <1>6 DEF JenkinsInit, PipelineIInv

(* A call that has ended has nothing to keep.                                *)
LEMMA EndedCall ==
  ASSUME PipelineIInv, NEW c \in Callers, Callers = {c}, Finish(c), UNCHANGED <<jobs, proxied>>
  PROVE  PipelineIInv'
BY DEF PipelineIInv, Finish, JenkinsIdle, IsPipelineCall, SaveIsAt

(* What the next stage asks of the stores is what the step made of them.     *)
LEMMA StepsOn ==
  ASSUME PipelineIInv, NEW c \in Callers, Callers = {c}, NEW s, Step(c, s),
         jobs' = [t \in Targets |-> jobs'[t]], proxied' = [t \in Targets |-> proxied'[t]],
         NEW next, next = [jenkinsCall[c] EXCEPT !.stage = s], SaveIsAt(next)'
  PROVE  PipelineIInv'
<1>1. jenkinsCall' = [jenkinsCall EXCEPT ![c] = [jenkinsCall[c] EXCEPT !.stage = s]]
  BY DEF Step
<1>2. IsPipelineCall(jenkinsCall[c])
  BY DEF PipelineIInv
<1>3. IsPipelineCall(jenkinsCall'[c])
  BY <1>1, <1>2 DEF IsPipelineCall, PipelineIInv
<1>4. jenkinsCall'[c] = [jenkinsCall[c] EXCEPT !.stage = s]
  BY <1>1 DEF PipelineIInv
<1>5. QED
  BY <1>1, <1>3, <1>4 DEF PipelineIInv

(* One call of a save.                                                       *)
LEMMA SaveStepIInv ==
  ASSUME PipelineIInv, NEW c \in Callers, Callers = {c},
         \/ UpsertJob(c) \/ RemoveOldJob(c) \/ SaveRow(c) \/ SavePipelineSite(c)
         \/ UpsertApplication(c) \/ RemoveOldApplication(c)
  PROVE  PipelineIInv'
<1> DEFINE call == jenkinsCall[c]
           input == call.input
<1>1. /\ jobs = [t \in Targets |-> jobs[t]] /\ proxied = [t \in Targets |-> proxied[t]]
      /\ IsPipelineCall(call) /\ SaveIsAt(call)
  BY DEF PipelineIInv
<1>2. ASSUME NEW s, NEW next, next = [call EXCEPT !.stage = s]
      PROVE  next.stage = s /\ next.input = input /\ next.existing = call.existing
  BY <1>1, <1>2 DEF IsPipelineCall
<1>3. IsInput(input) => input.target \in Targets /\ input.hostPort # NoJob
  BY PortsAreNotJobs DEF IsInput, Records, Parameters, NoJob, Absent, ByHand
<1>4. MovesTarget(c) => call.existing.target # input.target
  BY DEF MovesTarget
<1>5. SUFFICES ASSUME NEW s, Step(c, s), NEW next, next = [call EXCEPT !.stage = s],
                      NEW existing, existing = call.existing, NEW saved, saved = input
               PROVE  /\ jobs' = [t \in Targets |-> jobs'[t]]
                      /\ proxied' = [t \in Targets |-> proxied'[t]]
                      /\ SaveIsAt(next)'
  <2>1. PICK s : Step(c, s)
    BY DEF UpsertJob, RemoveOldJob, SaveRow, SavePipelineSite, UpsertApplication,
           RemoveOldApplication
  <2>2. QED
    BY <1>1, <1>5, <2>1, StepsOn DEF Step
<1> HIDE DEF call, input
<1>6. /\ next.stage = s /\ next.input = saved /\ next.existing = existing
      /\ jenkinsCall' = [jenkinsCall EXCEPT ![c].stage = s]
  BY <1>2, <1>5 DEF Step
<1>7. ASSUME NEW u, Step(c, u) PROVE u = s
  <2>1. /\ jenkinsCall'[c] = [call EXCEPT !.stage = s]
        /\ jenkinsCall'[c] = [call EXCEPT !.stage = u]
    BY <1>5, <1>7 DEF Step, PipelineIInv, call
  <2>2. [call EXCEPT !.stage = s].stage = s /\ [call EXCEPT !.stage = u].stage = u
    BY <1>1 DEF IsPipelineCall
  <2>3. QED
    BY <2>1, <2>2
<1>8. IsInput(saved) => saved.target \in Targets /\ saved.hostPort # NoJob
  BY <1>3, <1>5
<1>9. /\ call.stage \in {"job", "old job", "row", "domain", "application",
                         "old application", "saved"} => IsInput(saved)
      /\ call.stage \in {"old job", "old application"} => existing.target # saved.target
      /\ call.stage \in {"old job", "row", "domain", "application", "old application",
                         "saved"} => jobs[saved.target] # NoJob
      /\ call.stage \in {"domain", "application", "old application", "saved"} =>
           pipeline = saved
      /\ call.stage \in {"application", "old application", "saved"} =>
           (saved.configureDomain => proxied[saved.target] = saved.port)
      /\ call.stage \in {"old application", "saved"} => saved.target \in apps
  BY <1>1, <1>5 DEF SaveIsAt, input
<1>10. CASE UpsertJob(c)
  <2>1. call.stage = "job" /\ jobs' = [jobs EXCEPT ![saved.target] = saved.hostPort]
        /\ UNCHANGED <<proxied, pipeline, apps>>
        /\ Step(c, IF MovesTarget(c) THEN "old job" ELSE "row")
    BY <1>5, <1>10 DEF UpsertJob, PipelineAt, call, input
  <2>2. s \in {"old job", "row"} /\ (s = "old job" => existing.target # saved.target)
    BY <1>4, <1>5, <1>7, <2>1
  <2>3. jobs'[saved.target] # NoJob /\ jobs' = [t \in Targets |-> jobs'[t]]
    BY <1>1, <1>8, <1>9, <2>1
  <2>4. QED
    BY <1>1, <1>6, <1>9, <2>1, <2>2, <2>3 DEF SaveIsAt
<1>11. CASE RemoveOldJob(c)
  <2>1. call.stage = "old job" /\ jobs' = [jobs EXCEPT ![existing.target] = NoJob]
        /\ UNCHANGED <<proxied, pipeline, apps>> /\ Step(c, "row")
    BY <1>5, <1>11 DEF RemoveOldJob, PipelineAt, call
  <2>2. s = "row"
    BY <1>7, <2>1
  <2>3. jobs'[saved.target] # NoJob /\ jobs' = [t \in Targets |-> jobs'[t]]
    BY <1>1, <1>8, <1>9, <2>1
  <2>4. QED
    BY <1>1, <1>6, <1>9, <2>1, <2>2, <2>3 DEF SaveIsAt
<1>12. CASE SaveRow(c)
  <2>1. call.stage = "row" /\ pipeline' = saved /\ UNCHANGED <<jobs, proxied, apps>>
        /\ Step(c, IF saved.configureDomain THEN "domain" ELSE "application")
    BY <1>5, <1>12 DEF SaveRow, PipelineAt, call, input
  <2>2. s \in {"domain", "application"} /\ (s = "application" => ~saved.configureDomain)
    BY <1>7, <2>1
  <2>3. QED
    BY <1>1, <1>6, <1>9, <2>1, <2>2 DEF SaveIsAt
<1>13. CASE SavePipelineSite(c)
  <2>1. call.stage = "domain" /\ proxied' = [proxied EXCEPT ![saved.target] = saved.port]
        /\ UNCHANGED <<jobs, pipeline, apps>> /\ Step(c, "application")
    BY <1>5, <1>13 DEF SavePipelineSite, PipelineAt, call, input
  <2>2. s = "application"
    BY <1>7, <2>1
  <2>3. proxied'[saved.target] = saved.port /\ proxied' = [t \in Targets |-> proxied'[t]]
    BY <1>1, <1>8, <1>9, <2>1
  <2>4. QED
    BY <1>1, <1>6, <1>9, <2>1, <2>2, <2>3 DEF SaveIsAt
<1>14. CASE UpsertApplication(c)
  <2>1. call.stage = "application" /\ apps' = apps \cup {saved.target}
        /\ UNCHANGED <<jobs, pipeline, proxied>>
        /\ Step(c, IF MovesTarget(c) THEN "old application" ELSE "saved")
    BY <1>5, <1>14 DEF UpsertApplication, PipelineAt, call, input
  <2>2. s \in {"old application", "saved"}
        /\ (s = "old application" => existing.target # saved.target)
    BY <1>4, <1>5, <1>7, <2>1
  <2>3. QED
    BY <1>1, <1>6, <1>9, <2>1, <2>2 DEF SaveIsAt
<1>15. CASE RemoveOldApplication(c)
  <2>1. call.stage = "old application" /\ apps' = apps \ {existing.target}
        /\ UNCHANGED <<jobs, pipeline, proxied>> /\ Step(c, "saved")
    BY <1>5, <1>15 DEF RemoveOldApplication, PipelineAt, call
  <2>2. s = "saved"
    BY <1>7, <2>1
  <2>3. QED
    BY <1>1, <1>6, <1>9, <2>1, <2>2 DEF SaveIsAt
<1>16. QED
  BY <1>10, <1>11, <1>12, <1>13, <1>14, <1>15

(* A call that does not save changes nothing while one does.                 *)
LEMMA PipelineNextIInv ==
  ASSUME NEW caller, Callers = {caller}, Savers \subseteq Callers,
         PipelineIInv, [JenkinsNext]_jenkinsVars
  PROVE  PipelineIInv'
<1>1. CASE UNCHANGED jenkinsVars
  BY <1>1 DEF jenkinsVars, PipelineIInv, SaveIsAt, IsPipelineCall
<1>2. ASSUME NEW c \in Callers, JenkinsStep(c) \/ Interrupt(c)
      PROVE  PipelineIInv'
  <2>1. Callers = {c}
    BY <1>2
  <2>2. CASE \/ UpsertJob(c) \/ RemoveOldJob(c) \/ SaveRow(c) \/ SavePipelineSite(c)
             \/ UpsertApplication(c) \/ RemoveOldApplication(c)
    BY <1>2, <2>1, <2>2, SaveStepIInv
  <2>3. CASE Saved(c) \/ SaveStatus(c) \/ RemoveRow(c) \/ Interrupt(c)
    BY <1>2, <2>1, <2>3, EndedCall DEF Saved, SaveStatus, RemoveRow, Interrupt
  <2>4. CASE ReadJob(c)
    <3>1. PICK new : /\ jenkinsCall' = [jenkinsCall EXCEPT ![c] = new]
                     /\ IsPipelineCall(new) /\ new.stage = "reporting"
      <4>1. PICK reported : jenkinsCall' = [jenkinsCall EXCEPT ![c].stage = "reporting",
                                                              ![c].input = reported]
        BY <2>4 DEF ReadJob
      <4>2. jenkinsCall' = [jenkinsCall EXCEPT ![c] =
              [[jenkinsCall[c] EXCEPT !.stage = "reporting"] EXCEPT !.input = reported]]
        BY <1>2, <4>1 DEF PipelineIInv
      <4>3. PICK new : new = [[jenkinsCall[c] EXCEPT !.stage = "reporting"]
                                              EXCEPT !.input = reported]
        OBVIOUS
      <4>4. IsPipelineCall(jenkinsCall[c])
        BY <1>2 DEF PipelineIInv
      <4>5. IsPipelineCall(new) /\ new.stage = "reporting"
        BY <4>3, <4>4 DEF IsPipelineCall
      <4>6. QED
        BY <4>2, <4>3, <4>5
    <3>2. SaveIsAt(new)'
      BY <3>1 DEF SaveIsAt
    <3>3. QED
      BY <2>1, <2>4, <3>1, <3>2 DEF ReadJob, PipelineIInv
  <2>5. CASE RemoveJob(c) \/ RemoveApplication(c)
    <3>1. PICK s \in {"remove application", "remove row"} : Step(c, s)
      BY <2>5 DEF RemoveJob, RemoveApplication
    <3>2. ASSUME NEW next, next = [jenkinsCall[c] EXCEPT !.stage = s] PROVE SaveIsAt(next)'
      <4>1. IsPipelineCall(jenkinsCall[c])
        BY <1>2 DEF PipelineIInv
      <4>2. next.stage = s
        BY <3>2, <4>1 DEF IsPipelineCall
      <4>3. QED
        BY <3>1, <4>2 DEF SaveIsAt
    <3>3. jobs' = [t \in Targets |-> jobs'[t]] /\ proxied' = [t \in Targets |-> proxied'[t]]
      BY <2>5 DEF RemoveJob, RemoveApplication, PipelineIInv
    <3>4. QED
      BY <1>2, <2>1, <3>1, <3>2, <3>3, StepsOn
  <2>6. QED
    BY <1>2, <2>2, <2>3, <2>4, <2>5 DEF JenkinsStep
<1>3. ASSUME NEW c \in Callers, StartStatus(c) \/ StartRemove(c)
      PROVE  PipelineIInv'
  <2>1. PICK new : /\ jenkinsCall' = [jenkinsCall EXCEPT ![c] = new]
                   /\ IsPipelineCall(new) /\ new.stage \in {"reading", "remove job"}
    <3> DEFINE reading == [op |-> "status", stage |-> "reading", existing |-> pipeline,
                           input |-> NoPipeline]
               removing == [op |-> "remove", stage |-> "remove job", existing |-> pipeline,
                            input |-> NoPipeline]
    <3>1. IsPipelineCall(reading) /\ reading.stage = "reading"
      BY DEF IsPipelineCall
    <3>2. IsPipelineCall(removing) /\ removing.stage = "remove job"
      BY DEF IsPipelineCall
    <3>3. \/ jenkinsCall' = [jenkinsCall EXCEPT ![c] = reading]
          \/ jenkinsCall' = [jenkinsCall EXCEPT ![c] = removing]
      BY <1>3 DEF StartStatus, StartRemove
    <3> HIDE DEF reading, removing
    <3>4. QED
      BY <3>1, <3>2, <3>3
  <2>2. SaveIsAt(new)'
    BY <2>1 DEF SaveIsAt
  <2>3. QED
    BY <1>3, <2>1, <2>2 DEF StartStatus, StartRemove, PipelineIInv
<1>4. ASSUME NEW c \in Callers, NEW input \in Inputs, StartSave(c, input)
      PROVE  PipelineIInv'
  <2>1. PICK saved : /\ saved = [input EXCEPT !.hostPort =
                           synchronizeApplicationPortParameter(@, input.configureDomain,
                             input.port, pipeline.configureDomain)]
                     /\ jenkinsCall' = [jenkinsCall EXCEPT ![c] =
                          [op |-> "save", stage |-> "job", existing |-> pipeline,
                           input |-> saved]]
    BY <1>4 DEF StartSave
  <2>2. IsInput(saved)
    BY <1>4, <2>1 DEF Inputs, IsInput, Records, Parameters,
         synchronizeApplicationPortParameter
  <2>3. PICK new : /\ jenkinsCall' = [jenkinsCall EXCEPT ![c] = new]
                   /\ IsPipelineCall(new) /\ new.stage = "job" /\ new.input = saved
    <3> DEFINE new == [op |-> "save", stage |-> "job", existing |-> pipeline, input |-> saved]
    <3>1. IsPipelineCall(new) /\ new.stage = "job" /\ new.input = saved
      BY DEF IsPipelineCall
    <3>2. jenkinsCall' = [jenkinsCall EXCEPT ![c] = new]
      BY <2>1
    <3> HIDE DEF new
    <3>3. QED
      BY <3>1, <3>2
  <2>4. SaveIsAt(new)'
    BY <2>2, <2>3 DEF SaveIsAt
  <2>5. QED
    BY <1>4, <2>3, <2>4 DEF StartSave, PipelineIInv
<1>5. ASSUME NEW c \in Callers, ListPipelines(c)
      PROVE  PipelineIInv'
  <2>1. ASSUME NEW d \in Callers PROVE jenkinsCall[d].stage = "idle"
    BY <1>5, <2>1 DEF ListPipelines, PipelineAt
  <2>2. QED
    BY <1>5, <2>1 DEF ListPipelines, PipelineIInv, SaveIsAt, IsPipelineCall
<1>6. ASSUME NEW t \in Targets, NEW parameter \in Parameters, EditJob(t, parameter)
      PROVE  PipelineIInv'
  <2>1. parameter # NoJob /\ jobs' = [jobs EXCEPT ![t] = parameter]
        /\ UNCHANGED <<pipeline, proxied, apps, jenkinsCall>>
    BY <1>6, PortsAreNotJobs DEF EditJob, Parameters, NoJob, Absent, ByHand
  <2>2. /\ jobs' = [u \in Targets |-> jobs'[u]]
        /\ \A u : jobs[u] # NoJob => jobs'[u] # NoJob
    BY <1>6, <2>1 DEF PipelineIInv
  <2>3. ASSUME NEW c \in Callers PROVE SaveIsAt(jenkinsCall[c])'
    BY <2>1, <2>2, <2>3 DEF PipelineIInv, SaveIsAt
  <2>4. QED
    BY <2>1, <2>2, <2>3 DEF PipelineIInv, IsPipelineCall
<1>7. QED
  BY <1>1, <1>2, <1>3, <1>4, <1>5, <1>6 DEF JenkinsNext

(* A save that is answered with success has made Jenkins, the site, the row  *)
(* and the plan agree, whatever calls before it left half-done and whoever   *)
(* edits jobs in Jenkins, if no other call is under way meanwhile.           *)
THEOREM SavesAgree ==
  ASSUME NEW caller, Callers = {caller}, Savers \subseteq Callers
  PROVE  JenkinsSpec => []SavedMeansConsistent
<1>1. PipelineIInv => SavedMeansConsistent
  BY DEF PipelineIInv, SaveIsAt, IsInput, SavedMeansConsistent, PipelineAt
<1>2. PipelineIInv /\ [JenkinsNext]_jenkinsVars => PipelineIInv'
  BY PipelineNextIInv
<1>3. QED
  BY <1>1, <1>2, PipelineInitIInv, PTL DEF JenkinsSpec

==============================================================================
