------------------------- MODULE LocalManagerProofs -------------------------
(***************************************************************************)
(* What LocalManager keeps for any runs, graphs, limits, clients and       *)
(* failures: its record, its verdict, its admission, that its event loop   *)
(* is never stuck, and that no run is left without someone to attend to it.*)
(*                                                                         *)
(* The loop's part of the invariant accounts for every goroutine, for what *)
(* the pass over graph.Order has left behind it, and for the cancellations *)
(* the loop has not noticed.  The manager's part says which jobs a run has *)
(* before it is executed, and that the run in execution is not PASSED.     *)
(***************************************************************************)
EXTENDS LocalManager, TLAPS, FiniteSetTheorems

Outcome3 == {"PASSED", "FAILED", "CANCELED"}
LoopStates == JobUnfinished \cup Outcome3 \cup {"BLOCKED"}

LoopTypeOK ==
  /\ current \in Run \cup {NoRun}
  /\ loop # "returned" => current \in Run
  /\ states \in [Job -> LoopStates]
  /\ pos \in Nat
  /\ working \in SUBSET JobsOf(current)
  /\ completions \in Seq([name : JobsOf(current), state : Outcome3, internal : BOOLEAN])

Reported == {completions[i].name : i \in DOMAIN completions}

\* Every running job has one goroutine, or one completion that is not received.
Accounted ==
  /\ active = working \cup Reported
  /\ \A i \in DOMAIN completions : completions[i].name \notin working
  /\ \A i, k \in DOMAIN completions : completions[i].name = completions[k].name => i = k
  /\ Cardinality(active) = Cardinality(working) + Len(completions)
  /\ current \in Run => Cardinality(active) <= maxParallel

RunningAfterNeeds ==
  \A j \in Job : states[j] = "RUNNING" => \A d \in Needs[j] : states[d] = "PASSED"

\* The loop admits jobs only as long as none was canceled.
CancelNoticed ==
  /\ interrupted => ctx = "canceled"
  /\ \A i \in DOMAIN completions : completions[i].state = "CANCELED" => ctx = "canceled"
  /\ \A j \in Job : states[j] = "CANCELED" => ctx = "canceled"
  /\ loop = "body" /\ ~interrupted => \A j \in Job : states[j] # "CANCELED"

\* The pass over graph.Order leaves no pending job behind that it should have
\* blocked.
Scanned ==
  /\ loop = "top" => pos = 1
  /\ loop = "body" /\ ~interrupted =>
       \A k \in DOMAIN graphOrder :
         k < pos /\ states[graphOrder[k]] = "PENDING" => ~hasFailedDependency(graphOrder[k])

PassedUploaded ==
  /\ \A i \in DOMAIN completions :
       completions[i].state = "PASSED" /\ completions[i].name \in UploadJob
         => completions[i].name \in committed
  /\ \A j \in Job : states[j] = "PASSED" /\ j \in UploadJob => j \in committed

LoopInv ==
  /\ LoopTypeOK /\ Accounted /\ RunningAfterNeeds /\ CancelNoticed /\ Scanned
  /\ PassedUploaded

ClientOK ==
  /\ client \in [Client -> [pc : {"idle", "QUEUED", "RUNNING", "requested"},
                            run : Run \cup {NoRun}]]
  /\ \A c \in Client : client[c].pc # "idle" => client[c].run \in Run

ManagerTypeOK ==
  /\ runStatus \in [Run -> RunStatus] /\ jobStatus \in [Job -> JobStatus]
  /\ created \in Seq(Run)
  /\ ClientOK

\* A run that is not claimed has only pending jobs.
UnclaimedIsPending ==
  \A j \in Job : runStatus[RunOf[j]] \in {"NONE", "QUEUED"} => jobStatus[j] = "PENDING"

\* What the dispatcher has claimed is its own.
ClaimHeld ==
  /\ dispatcher \in {"begin", "run"} =>
       claimed \in Run /\ runStatus[claimed] \notin {"NONE", "QUEUED", "PASSED"}
  /\ dispatcher = "begin" =>
       \A j \in JobsOf(claimed) : jobStatus[j] \in {"PENDING", "CANCELED"}
  /\ dispatcher = "run" => current = claimed

ManagerInv ==
  /\ ManagerTypeOK /\ UnclaimedIsPending /\ ClaimHeld
  /\ RecordFollowsLoop /\ PassedIsEarned

Inv == LoopInv /\ ManagerInv

-----------------------------------------------------------------------------
(***************************************************************************)
(* The graph and the places in it.                                         *)
(***************************************************************************)

\* A nonempty set of numbers has a first one, where the loops stop.
LEMMA FirstIn ==
  ASSUME NEW S \in SUBSET Nat, S # {}
  PROVE  First(S) \in S /\ \A l \in S : First(S) <= l
<1>. DEFINE less == {p \in Nat \X Nat : p[1] < p[2]}
<1>1. IsWellFoundedOn(less, Nat)
  BY Zenon, NatLessThanWellFounded DEF OpToRel
<1>2. PICK k \in S : \A l \in S : <<l, k>> \notin less
  BY Zenon, <1>1, WFMin
<1>3. ASSUME NEW l \in S, l < k  PROVE FALSE
  <2>1. <<l, k>> \in less
    BY Zenon, <1>3
  <2>. QED
    BY Zenon, <1>2, <2>1
<1>4. \A l \in S : k <= l
  <2>. HIDE DEF less
  <2>1. k \in Int /\ \A l \in S : l \in Int /\ ~(l < k)
    BY <1>3
  <2>. QED
    BY <2>1
<1>. QED
  BY Zenon, <1>4 DEF First

\* graph.Order lists the jobs of a run, each once and after what it needs.
LEMMA OrderFacts ==
  ASSUME NEW r \in Run
  PROVE  /\ DOMAIN Order[r] \in SUBSET (Nat \ {0})
         /\ \A k \in DOMAIN Order[r] : Order[r][k] \in JobsOf(r)
         /\ \A j \in JobsOf(r) : \E k \in DOMAIN Order[r] : Order[r][k] = j
         /\ \A k, l \in DOMAIN Order[r] : Order[r][k] = Order[r][l] => k = l
         /\ \A k \in DOMAIN Order[r] : \A d \in Needs[Order[r][k]] :
              \E l \in DOMAIN Order[r] : l < k /\ Order[r][l] = d
<1>1. /\ Order[r] \in Seq(Job) /\ IsInjective(Order[r]) /\ Range(Order[r]) = JobsOf(r)
      /\ \A i \in DOMAIN Order[r] :
           Needs[Order[r][i]] \subseteq Range(SubSeq(Order[r], 1, i - 1))
  BY Zenon, OrderAssumption
<1>2. DOMAIN Order[r] = 1 .. Len(Order[r]) /\ Len(Order[r]) \in Nat
  BY <1>1
<1>3. ASSUME NEW k \in DOMAIN Order[r], NEW d \in Needs[Order[r][k]]
      PROVE  \E l \in DOMAIN Order[r] : l < k /\ Order[r][l] = d
  <2>1. \A i \in 1 .. k - 1 : Order[r][i] \in Job
    BY <1>1, <1>2
  <2>2. /\ SubSeq(Order[r], 1, k - 1) \in Seq(Job)
        /\ Len(SubSeq(Order[r], 1, k - 1)) = k - 1
        /\ \A i \in 1 .. k - 1 : SubSeq(Order[r], 1, k - 1)[i] = Order[r][i]
    BY <1>2, <2>1, SMTT(30)
  <2>3. \E i \in DOMAIN SubSeq(Order[r], 1, k - 1) : SubSeq(Order[r], 1, k - 1)[i] = d
    BY Zenon, <1>1 DEF Range
  <2>. QED
    BY <1>2, <2>2, <2>3
<1>. QED
  BY <1>1, <1>2, <1>3 DEF Range, IsInjective

\* The sets of places at which the loops look are sets of numbers.
LEMMA Places ==
  ASSUME LoopTypeOK, current \in Run, NEW S \in SUBSET DOMAIN graphOrder, S # {}
  PROVE  /\ First(S) \in S /\ \A l \in S : First(S) <= l
         /\ First(S) \in Nat \ {0}
         /\ graphOrder[First(S)] \in JobsOf(current) /\ graphOrder[First(S)] \in Job
<1>1. S \in SUBSET Nat
  BY Zenon, OrderFacts DEF graphOrder
<1>2. First(S) \in S /\ \A l \in S : First(S) <= l
  BY Zenon, <1>1, FirstIn
<1>. QED
  BY Zenon, <1>2, OrderFacts DEF graphOrder, JobsOf

\* Sets of jobs are finite.
LEMMA JobsFinite ==
  ASSUME NEW S \in SUBSET Job
  PROVE  IsFiniteSet(S) /\ Cardinality(S) \in Nat
BY Zenon, GraphAssumption, FS_Subset, FS_CardinalityType

-----------------------------------------------------------------------------
(***************************************************************************)
(* The steps of the loop.  Meanwhile the context may be canceled.          *)
(***************************************************************************)
Meanwhile == ctx' \in {ctx, "canceled"} /\ committed' = committed

\* A step changes the state of one job of the run at most.
StateStep ==
  \/ states' = states
  \/ \E j \in JobsOf(current) : \E s \in LoopStates \ {"PENDING"} :
       /\ states' = [states EXCEPT ![j] = s]
       /\ states[j] = "PENDING" => s # "FAILED"

Kept == LoopInv' /\ StateStep

\* The head of the loop.
LEMMA TopKeeps ==
  ASSUME LoopInv, Meanwhile, Top  PROVE Kept
<1>. USE DEF LoopInv, Meanwhile, Top
<1>1. current \in Run
  BY Zenon DEF LoopTypeOK
<1>2. LoopTypeOK'
  BY Zenon, <1>1 DEF LoopTypeOK
<1>3. Accounted' /\ RunningAfterNeeds' /\ PassedUploaded'
  BY DEF Accounted, RunningAfterNeeds, PassedUploaded, Reported, active, maxParallel
<1>4. CancelNoticed'
  BY Zenon DEF CancelNoticed
<1>5. Scanned'
  BY <1>1, OrderFacts DEF Scanned, graphOrder
<1>. QED
  BY Zenon, <1>2, <1>3, <1>4, <1>5 DEF Kept, StateStep

\* A canceled context makes the loop start over.
LEMMA NoticeCancelKeeps ==
  ASSUME LoopInv, Meanwhile, NoticeCancel  PROVE Kept
<1>. USE DEF LoopInv, Meanwhile, NoticeCancel, BackToTop
<1>1. current \in Run
  BY Zenon DEF LoopTypeOK, admitted
<1>2. LoopTypeOK'
  BY Zenon, <1>1 DEF LoopTypeOK
<1>3. Accounted' /\ RunningAfterNeeds' /\ PassedUploaded'
  BY DEF Accounted, RunningAfterNeeds, PassedUploaded, Reported, active, maxParallel
<1>4. CancelNoticed'
  BY Zenon DEF CancelNoticed
<1>5. Scanned'
  BY Zenon DEF Scanned
<1>. QED
  BY Zenon, <1>2, <1>3, <1>4, <1>5 DEF Kept, StateStep

\* A pending job that ends without having run leaves the goroutines as they are.
LEMMA PendingEnds ==
  ASSUME LoopInv, Meanwhile, NEW j \in JobsOf(current), NEW s \in {"BLOCKED", "CANCELED"},
         states[j] = "PENDING", SetState(j, s),
         UNCHANGED <<current, working, completions>>
  PROVE  /\ states' \in [Job -> LoopStates]
         /\ Accounted' /\ RunningAfterNeeds' /\ PassedUploaded' /\ StateStep
<1>. USE DEF LoopInv, LoopTypeOK, Meanwhile, SetState
<1>1. states' \in [Job -> LoopStates] /\ StateStep
  <2>1. s \in LoopStates \ {"PENDING"} /\ s # "FAILED"
    BY Zenon DEF LoopStates, Outcome3
  <2>2. states' = [states EXCEPT ![j] = s]
    BY Zenon
  <2>3. states' \in [Job -> LoopStates]
    BY Zenon, <2>1, <2>2
  <2>. QED
    BY Zenon, <2>1, <2>2, <2>3 DEF StateStep
<1>2. active' = active
  BY Zenon, <1>1 DEF active
<1>3. Accounted'
  BY Zenon, <1>2 DEF Accounted, Reported, maxParallel
<1>4. RunningAfterNeeds'
  BY GraphAssumption DEF RunningAfterNeeds, JobsOf
<1>5. PassedUploaded'
  BY Zenon DEF PassedUploaded
<1>. QED
  BY Zenon, <1>1, <1>3, <1>4, <1>5

\* The pass blocks a job; what it needs comes before it, so that no job it has
\* passed depends on it.
LEMMA BlockKeeps ==
  ASSUME LoopInv, Meanwhile, Block  PROVE Kept
<1>. USE DEF LoopInv, Meanwhile, Block
<1>. DEFINE k == First(toBlock)  j == graphOrder[k]
<1>1. current \in Run
  BY Zenon DEF LoopTypeOK
<1>2. /\ k \in toBlock /\ (\A l \in toBlock : k <= l) /\ k \in Nat \ {0}
      /\ j \in JobsOf(current) /\ j \in Job
  BY Zenon, <1>1, Places DEF toBlock
<1>3. states[j] = "PENDING" /\ k \in DOMAIN graphOrder
  BY Zenon, <1>2 DEF toBlock
<1>4. /\ states' \in [Job -> LoopStates]
      /\ Accounted' /\ RunningAfterNeeds' /\ PassedUploaded' /\ StateStep
  BY Zenon, <1>2, <1>3, PendingEnds
<1>5. LoopTypeOK'
  BY <1>1, <1>2, <1>4 DEF LoopTypeOK
<1>6. states' = [states EXCEPT ![j] = "BLOCKED"] /\ pos' = k + 1
  BY Zenon DEF SetState
<1>7. CancelNoticed'
  BY Zenon, <1>2, <1>6 DEF CancelNoticed, LoopTypeOK
<1>8. ASSUME NEW l \in DOMAIN graphOrder, l < k + 1, states'[graphOrder[l]] = "PENDING"
      PROVE  \A d \in Needs[graphOrder[l]] : states'[d] \notin {"FAILED", "BLOCKED"}
  <2>1. l \in Nat /\ graphOrder[l] \in Job
    BY Zenon, <1>1, OrderFacts DEF graphOrder, JobsOf
  <2>2. l # k
    BY Zenon, <1>2, <1>6, <1>8 DEF LoopTypeOK
  <2>3. l < k /\ l \notin toBlock
    BY <1>2, <1>8, <2>1, <2>2
  <2>4. states[graphOrder[l]] = "PENDING"
    BY Zenon, <1>6, <1>8, <2>1, <1>2 DEF LoopTypeOK
  <2>5. ~hasFailedDependency(graphOrder[l])
    BY <2>1, <2>3, <2>4 DEF toBlock, Scanned, LoopTypeOK
  <2>6. ASSUME NEW d \in Needs[graphOrder[l]]  PROVE d # j /\ d \in Job
    <3>1. PICK m \in DOMAIN graphOrder : m < l /\ graphOrder[m] = d
      BY <1>1, OrderFacts DEF graphOrder
    <3>2. m \in Nat /\ m # k
      BY <1>1, <1>2, <2>1, <2>3, <3>1, OrderFacts DEF graphOrder
    <3>. QED
      BY Zenon, <1>1, <1>3, <3>1, <3>2, OrderFacts DEF graphOrder, JobsOf
  <2>. QED
    BY Zenon, <1>2, <1>6, <2>5, <2>6 DEF hasFailedDependency, LoopTypeOK
<1>9. Scanned'
  BY Zenon, <1>6, <1>8 DEF Scanned, hasFailedDependency, graphOrder
<1>. QED
  BY Zenon, <1>4, <1>5, <1>7, <1>9 DEF Kept

\* A job is started: one more goroutine, within the limit.
LEMMA StartKeeps ==
  ASSUME LoopInv, Meanwhile, Start  PROVE Kept
<1>. USE DEF LoopInv, Meanwhile, Start
<1>. DEFINE k == First(toStart)  j == graphOrder[k]
<1>1. current \in Run
  BY Zenon DEF LoopTypeOK
<1>2. k \in toStart /\ j \in JobsOf(current) /\ j \in Job
  BY Zenon, <1>1, Places DEF toStart
<1>3. ready(j)
  BY Zenon, <1>2 DEF toStart
<1>4. /\ states[j] = "PENDING" /\ states' = [states EXCEPT ![j] = "RUNNING"]
      /\ working' = working \cup {j}
      /\ UNCHANGED <<current, loop, pos, interrupted, completions>>
  BY Zenon, <1>3 DEF ready, SetState
<1>. HIDE DEF k, j, Start
<1>5. "RUNNING" \in LoopStates \ {"PENDING"}
  BY Zenon DEF LoopStates, JobUnfinished
<1>6. LoopTypeOK' /\ StateStep
  BY Zenon, <1>2, <1>4, <1>5 DEF LoopTypeOK, StateStep
<1>7. active' = active \cup {j} /\ j \notin active /\ active \in SUBSET Job
  BY Zenon, <1>2, <1>4 DEF active, LoopTypeOK
<1>8. Accounted'
  <2>1. j \notin working /\ j \notin Reported
    BY Zenon, <1>7 DEF Accounted
  <2>2. Reported' = Reported
    BY Zenon, <1>4 DEF Reported
  <2>3. active' = working' \cup Reported'
    BY Zenon, <1>4, <1>7, <2>2 DEF Accounted
  <2>4. \A i \in DOMAIN completions : completions[i].name \notin working'
    BY Zenon, <1>4, <2>1 DEF Accounted, Reported
  <2>5. working \in SUBSET Job
    BY Zenon DEF LoopTypeOK, JobsOf
  <2>6. /\ Cardinality(active') = Cardinality(active) + 1
        /\ Cardinality(working') = Cardinality(working) + 1
        /\ Cardinality(active) \in Nat /\ Cardinality(working) \in Nat
    BY Zenon, <1>4, <1>7, <2>1, <2>5, JobsFinite, FS_AddElement
  <2>7. Len(completions) \in Nat
    BY DEF LoopTypeOK
  <2>8. Cardinality(active') = Cardinality(working') + Len(completions)
    BY <2>6, <2>7 DEF Accounted
  <2>9. Cardinality(active') <= maxParallel'
    <3>1. maxParallel' = maxParallel /\ maxParallel \in Int
      BY <1>1, <1>4, OrderAssumption DEF maxParallel
    <3>2. Cardinality(active) < maxParallel
      BY Zenon DEF Start, freeSlot
    <3>. QED
      BY <2>6, <3>1, <3>2
  <2>. QED
    BY Zenon, <1>4, <2>3, <2>4, <2>8, <2>9 DEF Accounted
<1>9. RunningAfterNeeds'
  <2>1. ASSUME NEW i \in Job, states'[i] = "RUNNING", NEW d \in Needs[i]
        PROVE  states'[d] = "PASSED"
    <3>1. d \in Job
      BY Zenon, GraphAssumption
    <3>2. states[d] = "PASSED"
      BY Zenon, <1>2, <1>3, <1>4, <2>1 DEF ready, RunningAfterNeeds, LoopTypeOK
    <3>. QED
      BY Zenon, <1>2, <1>4, <3>1, <3>2 DEF LoopTypeOK
  <2>. QED
    BY Zenon, <2>1 DEF RunningAfterNeeds
<1>10. CancelNoticed' /\ PassedUploaded'
  BY Zenon, <1>2, <1>4 DEF CancelNoticed, PassedUploaded, LoopTypeOK
<1>11. Scanned'
  <2>1. ASSUME loop = "body", ~interrupted,
               NEW l \in DOMAIN graphOrder, l < pos, states'[graphOrder[l]] = "PENDING",
               NEW d \in Needs[graphOrder[l]]
        PROVE  states'[d] \notin {"FAILED", "BLOCKED"}
    <3>1. graphOrder[l] \in Job
      BY Zenon, <1>1, OrderFacts DEF graphOrder, JobsOf
    <3>2. d \in Job
      BY Zenon, <3>1, GraphAssumption
    <3>3. states[graphOrder[l]] = "PENDING"
      BY Zenon, <1>2, <1>4, <2>1, <3>1 DEF LoopTypeOK
    <3>4. states[d] \notin {"FAILED", "BLOCKED"}
      BY Zenon, <2>1, <3>3 DEF Scanned, hasFailedDependency
    <3>. QED
      BY Zenon, <1>2, <1>4, <3>2, <3>4 DEF LoopTypeOK
  <2>. QED
    BY Zenon, <1>4, <2>1 DEF Scanned, hasFailedDependency, graphOrder
<1>. QED
  BY Zenon, <1>6, <1>8, <1>9, <1>10, <1>11 DEF Kept

\* A loop that is not canceled and has nothing to wait for has no pending job
\* left: the first of them would be ready, or would have been blocked.
LEMMA NothingLeft ==
  ASSUME LoopInv, admitted, active = {}, ~interrupted
  PROVE  \A k \in DOMAIN graphOrder : states[graphOrder[k]] # "PENDING"
<1>. DEFINE left == {k \in DOMAIN graphOrder : states[graphOrder[k]] = "PENDING"}
<1>. SUFFICES ASSUME left # {} PROVE FALSE
  BY Zenon
<1>. DEFINE k == First(left)  j == graphOrder[k]
<1>1. current \in Run /\ loop = "body"
  BY Zenon DEF LoopInv, LoopTypeOK, admitted
<1>2. /\ k \in left /\ (\A l \in left : k <= l) /\ k \in Nat
      /\ j \in JobsOf(current) /\ j \in Job
  BY Zenon, <1>1, Places DEF LoopInv
<1>3. states[j] = "PENDING" /\ k \in DOMAIN graphOrder
  BY Zenon, <1>2
<1>4. /\ graphOrder[k] = j
      /\ \A m \in DOMAIN graphOrder : m \notin left => states[graphOrder[m]] # "PENDING"
  BY Zenon
<1>. HIDE DEF k, j, left
<1>5. ASSUME NEW d \in Needs[j]  PROVE states[d] \in {"PASSED", "FAILED", "BLOCKED"}
  <2>1. PICK m \in DOMAIN graphOrder : m < k /\ graphOrder[m] = d
    BY <1>1, <1>3, <1>4, OrderFacts DEF graphOrder
  <2>2. m \in Nat /\ d \in Job
    BY Zenon, <1>1, <2>1, OrderFacts DEF graphOrder, JobsOf
  <2>3. m \notin left
    BY <1>2, <2>1, <2>2
  <2>4. states[d] # "PENDING"
    BY Zenon, <1>4, <2>1, <2>3
  <2>5. states[d] # "RUNNING"
    BY Zenon, <2>2 DEF active
  <2>6. states[d] # "CANCELED"
    BY Zenon, <1>1, <2>2 DEF LoopInv, CancelNoticed
  <2>7. states[d] \in LoopStates
    BY Zenon, <2>2 DEF LoopInv, LoopTypeOK
  <2>. QED
    BY Zenon, <2>4, <2>5, <2>6, <2>7 DEF LoopStates, JobUnfinished, Outcome3
<1>6. freeSlot
  <2>1. Cardinality(active) = 0
    BY Zenon, FS_EmptySet
  <2>2. maxParallel \in Int /\ maxParallel >= 1
    BY <1>1, OrderAssumption DEF maxParallel
  <2>. QED
    BY <2>1, <2>2 DEF freeSlot
<1>7. toBlock = {} /\ toStart = {}
  BY Zenon, <1>6 DEF admitted
<1>8. ~ready(j)
  BY Zenon, <1>3, <1>7, <1>4 DEF toStart
<1>9. hasFailedDependency(j)
  BY Zenon, <1>3, <1>5, <1>8 DEF ready, hasFailedDependency
<1>10. ~(k >= pos)
  BY Zenon, <1>3, <1>7, <1>4, <1>9 DEF toBlock
<1>11. k < pos
  BY <1>2, <1>10 DEF LoopInv, LoopTypeOK
<1>. QED
  BY Zenon, <1>1, <1>3, <1>4, <1>9, <1>11 DEF LoopInv, Scanned

\* Nothing runs: the rest is canceled, or there is none.
LEMMA IdleKeeps ==
  ASSUME LoopInv, Meanwhile, Idle  PROVE Kept
<1>. DEFINE left == {k \in DOMAIN graphOrder : states[graphOrder[k]] = "PENDING"}
            j == graphOrder[First(left)]
<1>1. current \in Run
  BY Zenon DEF LoopInv, LoopTypeOK, Idle, admitted
<1>2. CASE left # {} /\ loop' = loop
  <2>1. /\ First(left) \in left /\ j \in JobsOf(current) /\ j \in Job
    BY Zenon, <1>1, <1>2, Places DEF LoopInv
  <2>2. interrupted
    BY Zenon, <1>2, <2>1, NothingLeft DEF Idle
  <2>3. SetState(j, "CANCELED") /\ UNCHANGED <<current, pos, interrupted, working, completions>>
    BY Zenon, <1>2, <2>2 DEF Idle
  <2>4. states[j] = "PENDING"
    BY Zenon, <2>1
  <2>. HIDE DEF j, left
  <2>5. /\ states' \in [Job -> LoopStates]
        /\ Accounted' /\ RunningAfterNeeds' /\ PassedUploaded' /\ StateStep
    BY Zenon, <2>1, <2>3, <2>4, PendingEnds
  <2>6. LoopTypeOK'
    BY Zenon, <1>1, <1>2, <2>3, <2>5 DEF LoopInv, LoopTypeOK
  <2>7. CancelNoticed'
    BY Zenon, <2>1, <2>2, <2>3 DEF LoopInv, LoopTypeOK, CancelNoticed, SetState, Meanwhile
  <2>8. Scanned'
    BY Zenon, <1>2, <2>2, <2>3 DEF LoopInv, Scanned
  <2>. QED
    BY Zenon, <2>5, <2>6, <2>7, <2>8 DEF Kept, LoopInv
<1>3. CASE loop' = "returned" /\ states' = states
  <2>1. UNCHANGED <<current, pos, interrupted, working, completions>>
    BY Zenon DEF Idle
  <2>2. LoopTypeOK'
    BY Zenon, <1>1, <1>3, <2>1 DEF LoopInv, LoopTypeOK
  <2>3. Accounted' /\ RunningAfterNeeds' /\ PassedUploaded'
    BY <1>3, <2>1 DEF LoopInv, Accounted, RunningAfterNeeds, PassedUploaded, Reported,
                      active, maxParallel, Meanwhile
  <2>4. CancelNoticed' /\ Scanned'
    BY Zenon, <1>3, <2>1 DEF LoopInv, CancelNoticed, Scanned, Meanwhile
  <2>. QED
    BY Zenon, <1>3, <2>2, <2>3, <2>4 DEF Kept, LoopInv, StateStep
<1>. QED
  BY Zenon, <1>2, <1>3 DEF Idle

\* A completion is received: the job it names was running, and is no more.
LEMMA ReceiveKeeps ==
  ASSUME LoopInv, Meanwhile, Receive  PROVE Kept
<1>. DEFINE c == Head(completions)  j == c.name
            Completion == [name : JobsOf(current), state : Outcome3, internal : BOOLEAN]
<1>1. current \in Run /\ completions \in Seq(Completion) /\ completions # <<>>
  BY Zenon DEF LoopInv, LoopTypeOK, Receive, admitted
<1>2. /\ SetState(j, c.state) /\ completions' = Tail(completions)
      /\ loop' = "top" /\ pos' = 1
      /\ UNCHANGED <<current, interrupted, working>>
  BY Zenon DEF Receive, BackToTop
<1>3. /\ c = completions[1] /\ c \in Completion
      /\ Len(completions) \in Nat \ {0} /\ DOMAIN completions = 1 .. Len(completions)
  <2>. HIDE DEF Completion
  <2>1. c = completions[1]
    BY <1>1
  <2>2. c \in Completion
    BY <1>1
  <2>3. Len(completions) \in Nat \ {0}
    BY <1>1
  <2>4. DOMAIN completions = 1 .. Len(completions)
    BY <1>1
  <2>. QED
    BY Zenon, <2>1, <2>2, <2>3, <2>4
<1>4. /\ Tail(completions) \in Seq(Completion)
      /\ Len(Tail(completions)) = Len(completions) - 1
      /\ DOMAIN Tail(completions) = 1 .. Len(completions) - 1
      /\ \A i \in 1 .. Len(completions) - 1 : Tail(completions)[i] = completions[i + 1]
  BY <1>1, <1>3
<1>5. j \in JobsOf(current) /\ j \in Job /\ c.state \in Outcome3
  BY Zenon, <1>3 DEF JobsOf
<1>. HIDE DEF c, Completion
<1>6. j \in Reported /\ j \notin working
  BY <1>3 DEF Reported, LoopInv, Accounted
<1>7. states[j] = "RUNNING" /\ j \in active
  BY Zenon, <1>6 DEF LoopInv, Accounted, active
<1>. HIDE DEF j
<1>8. states' = [states EXCEPT ![j] = c.state]
  BY Zenon, <1>2 DEF SetState
<1>9. c.state \in LoopStates \ {"PENDING"} /\ c.state # "RUNNING" /\ c.state # "BLOCKED"
  BY Zenon, <1>5 DEF Outcome3, LoopStates
<1>10. LoopTypeOK'
  <2>1. states' \in [Job -> LoopStates]
    BY Zenon, <1>8, <1>9 DEF LoopInv, LoopTypeOK
  <2>2. completions' \in Seq([name : JobsOf(current'), state : Outcome3, internal : BOOLEAN])
    BY Zenon, <1>2, <1>4 DEF Completion
  <2>. QED
    BY Zenon, <1>1, <1>2, <2>1, <2>2 DEF LoopInv, LoopTypeOK
<1>11. StateStep
  BY Zenon, <1>5, <1>7, <1>8, <1>9 DEF StateStep
<1>12. active' = active \ {j} /\ active \in SUBSET Job
  BY Zenon, <1>5, <1>8, <1>9 DEF active, LoopInv, LoopTypeOK
<1>13. completions[1].name = j
  BY Zenon, <1>3 DEF j
<1>14. Reported' = Reported \ {j}
  <2>1. ASSUME NEW i \in DOMAIN completions, completions[i].name # j
        PROVE  \E m \in DOMAIN completions' : completions'[m].name = completions[i].name
    <3>1. i - 1 \in 1 .. Len(completions) - 1 /\ (i - 1) + 1 = i
      BY <1>3, <1>13, <2>1
    <3>2. completions'[i - 1] = completions[i] /\ i - 1 \in DOMAIN completions'
      BY Zenon, <1>2, <1>4, <3>1
    <3>. QED
      BY Zenon, <3>2
  <2>2. ASSUME NEW m \in DOMAIN completions'
        PROVE  completions'[m].name \in Reported \ {j}
    <3>1. /\ m \in 1 .. Len(completions) - 1
          /\ m + 1 \in DOMAIN completions /\ m + 1 # 1 /\ 1 \in DOMAIN completions
      BY <1>2, <1>3, <1>4, <2>2
    <3>2. completions'[m] = completions[m + 1]
      BY Zenon, <1>2, <1>4, <3>1
    <3>. QED
      BY <1>13, <3>1, <3>2 DEF Reported, LoopInv, Accounted
  <2>3. Reported \ {j} \subseteq Reported'
    BY Zenon, <2>1 DEF Reported
  <2>4. Reported' \subseteq Reported \ {j}
    BY Zenon, <2>2 DEF Reported
  <2>. QED
    BY Zenon, <2>3, <2>4
<1>15. Accounted'
  <2>1. active' = working' \cup Reported'
    BY Zenon, <1>2, <1>6, <1>12, <1>14 DEF LoopInv, Accounted
  <2>2. ASSUME NEW i \in DOMAIN completions'
        PROVE  i + 1 \in DOMAIN completions /\ completions'[i] = completions[i + 1] /\ i \in Nat
    BY <1>2, <1>3, <1>4, <2>2
  <2>3. /\ \A i \in DOMAIN completions' : completions'[i].name \notin working'
        /\ \A i, m \in DOMAIN completions' :
             completions'[i].name = completions'[m].name => i = m
    <3>1. \A i \in DOMAIN completions' : completions'[i].name \notin working'
      BY Zenon, <1>2, <2>2 DEF LoopInv, Accounted
    <3>2. ASSUME NEW i \in DOMAIN completions', NEW m \in DOMAIN completions',
                 completions'[i].name = completions'[m].name
          PROVE  i = m
      <4>1. i + 1 = m + 1
        BY <2>2, <3>2 DEF LoopInv, Accounted
      <4>. QED
        BY <2>2, <4>1
    <3>. QED
      BY Zenon, <3>1, <3>2
  <2>4. Cardinality(active') = Cardinality(active) - 1 /\ Cardinality(active) \in Nat
    BY Zenon, <1>7, <1>12, JobsFinite, FS_RemoveElement
  <2>5. Cardinality(working) \in Nat
    BY Zenon, JobsFinite DEF LoopInv, LoopTypeOK, JobsOf
  <2>6. Cardinality(active') = Cardinality(working') + Len(completions')
    BY <1>2, <1>3, <1>4, <2>4, <2>5 DEF LoopInv, Accounted
  <2>7. Cardinality(active') <= maxParallel'
    <3>1. maxParallel' = maxParallel /\ maxParallel \in Int
      BY <1>1, <1>2, OrderAssumption DEF maxParallel
    <3>. QED
      BY <1>1, <2>4, <3>1 DEF LoopInv, Accounted
  <2>. QED
    BY Zenon, <2>1, <2>3, <2>6, <2>7 DEF Accounted
<1>16. RunningAfterNeeds'
  <2>1. ASSUME NEW i \in Job, states'[i] = "RUNNING", NEW d \in Needs[i]
        PROVE  states'[d] = "PASSED"
    <3>1. d \in Job
      BY Zenon, GraphAssumption
    <3>2. states[i] = "RUNNING"
      BY Zenon, <1>5, <1>8, <1>9, <2>1 DEF LoopInv, LoopTypeOK
    <3>3. states[d] = "PASSED"
      BY Zenon, <3>2 DEF LoopInv, RunningAfterNeeds
    <3>. QED
      BY Zenon, <1>7, <1>8, <3>1, <3>3 DEF LoopInv, LoopTypeOK
  <2>. QED
    BY Zenon, <2>1 DEF RunningAfterNeeds
<1>17. \A i \in DOMAIN completions' : \E m \in DOMAIN completions : completions'[i] = completions[m]
  <2>1. ASSUME NEW i \in DOMAIN completions'
        PROVE  i + 1 \in DOMAIN completions /\ completions'[i] = completions[i + 1]
    BY <1>2, <1>3, <1>4, <2>1
  <2>. QED
    BY Zenon, <2>1
<1>18. 1 \in DOMAIN completions /\ completions[1] = c
  BY <1>3
<1>19. CancelNoticed'
  BY Zenon, <1>2, <1>5, <1>8, <1>17, <1>18 DEF CancelNoticed, LoopInv, LoopTypeOK, Meanwhile
<1>20. PassedUploaded'
  BY Zenon, <1>5, <1>8, <1>13, <1>17, <1>18 DEF PassedUploaded, LoopInv, LoopTypeOK, Meanwhile
<1>21. Scanned'
  BY Zenon, <1>2 DEF Scanned
<1>. QED
  BY Zenon, <1>10, <1>11, <1>15, <1>16, <1>19, <1>20, <1>21 DEF Kept, LoopInv

\* Every step of the loop keeps its invariant.
LEMMA LoopStepKeeps ==
  ASSUME LoopInv, Meanwhile, LoopStep  PROVE Kept
BY Zenon, TopKeeps, BlockKeeps, StartKeeps, IdleKeeps, ReceiveKeeps, NoticeCancelKeeps DEF LoopStep

\* A goroutine sends its completion, and is replaced by it in the account.
LEMMA SendKeeps ==
  ASSUME LoopInv, NEW j \in Job, NEW c \in Outcomes(j), Send(c), ctx' = ctx,
         committed \subseteq committed',
         c.state = "PASSED" /\ j \in UploadJob => j \in committed'
  PROVE  LoopInv'
<1>. DEFINE Completion == [name : JobsOf(current), state : Outcome3, internal : BOOLEAN]
            n == Len(completions)
<1>1. /\ c.name = j /\ c.state \in Outcome3 /\ c.internal \in BOOLEAN
      /\ c = [name |-> c.name, state |-> c.state, internal |-> c.internal]
      /\ c.state = "CANCELED" => ctx = "canceled"
  <2>1. PICK s \in Outcome3, b \in BOOLEAN :
          c = Completed(j, s, b) /\ (s = "CANCELED" => ctx = "canceled")
    <3>. DEFINE s3 == IF ctx = "canceled" THEN "CANCELED" ELSE "FAILED"
    <3>1. c \in {Completed(j, "PASSED", FALSE), Completed(j, "FAILED", TRUE),
                 Completed(j, s3, FALSE)}
      BY Zenon DEF Outcomes
    <3>2. s3 \in Outcome3 /\ (s3 = "CANCELED" => ctx = "canceled")
      BY Zenon DEF Outcome3
    <3>3. {"PASSED", "FAILED"} \subseteq Outcome3 /\ TRUE \in BOOLEAN /\ FALSE \in BOOLEAN
      BY Zenon DEF Outcome3
    <3>. HIDE DEF s3
    <3>4. CASE c = Completed(j, "PASSED", FALSE)
      BY <3>3, <3>4, Zenon
    <3>5. CASE c = Completed(j, "FAILED", TRUE)
      BY <3>3, <3>5, Zenon
    <3>6. CASE c = Completed(j, s3, FALSE)
      BY <3>2, <3>3, <3>6, Zenon
    <3>. QED
      BY <3>1, <3>4, <3>5, <3>6, Zenon
  <2>. QED
    BY Zenon, <2>1 DEF Completed
<1>2. /\ j \in working /\ working' = working \ {j} /\ completions' = Append(completions, c)
      /\ UNCHANGED <<current, states, loop, pos, interrupted>>
  BY Zenon, <1>1 DEF Send
<1>3. c \in Completion
  BY Zenon, <1>1, <1>2 DEF LoopInv, LoopTypeOK
<1>. HIDE DEF Completion
<1>4. completions \in Seq(Completion)
  BY Zenon DEF LoopInv, LoopTypeOK, Completion
<1>5. /\ completions' \in Seq(Completion) /\ n \in Nat
      /\ DOMAIN completions = 1 .. n /\ DOMAIN completions' = 1 .. n + 1
      /\ Len(completions') = n + 1
      /\ completions'[n + 1] = c
      /\ \A i \in 1 .. n : completions'[i] = completions[i]
  BY <1>2, <1>3, <1>4
<1>. HIDE DEF n
<1>6. LoopTypeOK'
  <2>1. completions' \in Seq([name : JobsOf(current'), state : Outcome3, internal : BOOLEAN])
    BY Zenon, <1>2, <1>5 DEF Completion
  <2>. QED
    BY Zenon, <1>2, <2>1 DEF LoopInv, LoopTypeOK
<1>7. \A i \in DOMAIN completions' : i \in DOMAIN completions \/ (i = n + 1 /\ completions'[i] = c)
  BY <1>5
<1>8. Reported' = Reported \cup {j}
  <2>1. Reported' \subseteq Reported \cup {j}
    BY Zenon, <1>1, <1>5, <1>7 DEF Reported
  <2>2. Reported \subseteq Reported'
    BY <1>5 DEF Reported
  <2>3. n + 1 \in DOMAIN completions' /\ completions'[n + 1].name = j
    BY <1>1, <1>5
  <2>. QED
    BY Zenon, <2>1, <2>2, <2>3 DEF Reported
<1>9. active' = active
  BY Zenon, <1>2 DEF active
<1>10. Accounted'
  <2>1. active' = working' \cup Reported'
    BY Zenon, <1>2, <1>8, <1>9 DEF LoopInv, Accounted
  <2>2. \A i \in DOMAIN completions' : completions'[i].name \notin working'
    BY Zenon, <1>1, <1>2, <1>5, <1>7 DEF LoopInv, Accounted
  <2>3. \A i \in DOMAIN completions : completions[i].name # j
    BY Zenon, <1>2 DEF LoopInv, Accounted
  <2>4. \A i, m \in DOMAIN completions' : completions'[i].name = completions'[m].name => i = m
    BY <1>1, <1>5, <1>7, <2>3 DEF LoopInv, Accounted
  <2>5. Cardinality(working') = Cardinality(working) - 1 /\ Cardinality(working) \in Nat
    BY Zenon, <1>2, JobsFinite, FS_RemoveElement DEF LoopInv, LoopTypeOK, JobsOf
  <2>6. Cardinality(active) = Cardinality(working) + n
    BY Zenon DEF LoopInv, Accounted, n
  <2>7. Cardinality(active') = Cardinality(working') + Len(completions')
    BY <1>5, <1>9, <2>5, <2>6
  <2>. QED
    BY Zenon, <1>2, <1>9, <2>1, <2>2, <2>4, <2>7 DEF LoopInv, Accounted, maxParallel
<1>11. RunningAfterNeeds' /\ Scanned'
  BY Zenon, <1>2 DEF LoopInv, RunningAfterNeeds, Scanned, graphOrder, hasFailedDependency
<1>12. CancelNoticed'
  BY Zenon, <1>1, <1>2, <1>5, <1>7 DEF LoopInv, CancelNoticed
<1>13. PassedUploaded'
  BY Zenon, <1>1, <1>2, <1>5, <1>7 DEF LoopInv, PassedUploaded
<1>. QED
  BY Zenon, <1>6, <1>10, <1>11, <1>12, <1>13 DEF LoopInv

\* A loop that begins, or that is over, satisfies its invariant.
LEMMA LoopBegins ==
  ASSUME \/ LoopDone
         \/ \E r \in Run : RunLoop(r)
  PROVE  LoopInv'
<1>1. /\ current' \in Run \cup {NoRun} /\ (loop' # "returned" => current' \in Run)
      /\ states' = [j \in Job |-> "PENDING"] /\ loop' # "body" /\ pos' = 1
      /\ interrupted' = FALSE /\ working' = {} /\ completions' = <<>>
  BY Zenon DEF LoopDone, RunLoop
<1>2. LoopTypeOK'
  BY <1>1 DEF LoopTypeOK, LoopStates, JobUnfinished
<1>3. active' = {} /\ Reported' = {}
  BY <1>1 DEF active, Reported
<1>4. Accounted'
  <2>1. Cardinality(active') = 0 /\ Cardinality(working') = 0 /\ Len(completions') = 0
    BY Zenon, <1>1, <1>3, FS_EmptySet
  <2>2. ASSUME current' \in Run  PROVE 0 <= maxParallel'
    BY <2>2, OrderAssumption DEF maxParallel
  <2>. QED
    BY <1>1, <1>3, <2>1, <2>2 DEF Accounted
<1>5. RunningAfterNeeds' /\ CancelNoticed' /\ Scanned' /\ PassedUploaded'
  BY <1>1 DEF RunningAfterNeeds, CancelNoticed, Scanned, PassedUploaded
<1>. QED
  BY Zenon, <1>2, <1>4, <1>5 DEF LoopInv

\* While others act, the loop may learn of a cancellation.
LEMMA LoopRests ==
  ASSUME LoopInv, UNCHANGED loopVars, ctx' \in {ctx, "canceled"}, committed' = committed
  PROVE  LoopInv'
<1>. USE DEF LoopInv, loopVars
<1>1. LoopTypeOK' /\ RunningAfterNeeds' /\ PassedUploaded' /\ CancelNoticed'
  BY Zenon DEF LoopTypeOK, RunningAfterNeeds, PassedUploaded, CancelNoticed
<1>2. Accounted'
  BY DEF Accounted, Reported, active, maxParallel
<1>3. Scanned'
  BY Zenon DEF Scanned, graphOrder, hasFailedDependency
<1>. QED
  BY Zenon, <1>1, <1>2, <1>3

-----------------------------------------------------------------------------
(***************************************************************************)
(* The steps of the manager.                                               *)
(***************************************************************************)

\* Steps that touch neither the tables nor the loop's states.
LEMMA TablesRest ==
  ASSUME ManagerInv, UNCHANGED <<runStatus, jobStatus, created, claimed, obsErr, current, states>>,
         committed \subseteq committed', ClientOK',
         dispatcher' = dispatcher \/ dispatcher' \notin {"begin", "run"}
  PROVE  ManagerInv'
<1>. USE DEF ManagerInv
<1>1. ManagerTypeOK' /\ UnclaimedIsPending' /\ PassedIsEarned'
  BY Zenon DEF ManagerTypeOK, UnclaimedIsPending, PassedIsEarned
<1>2. ClaimHeld' /\ RecordFollowsLoop'
  BY Zenon DEF ClaimHeld, RecordFollowsLoop, Executing
<1>. QED
  BY Zenon, <1>1, <1>2

\* A client's call goes on, or ends.
LEMMA ClientMoves ==
  ASSUME ClientOK, NEW c \in Client, NEW pc \in {"idle", "QUEUED", "RUNNING", "requested"},
         NEW r \in Run \cup {NoRun}, ClientAt(c, pc, r), pc # "idle" => r \in Run
  PROVE  ClientOK'
<1>1. client' = [client EXCEPT ![c] = [pc |-> pc, run |-> r]]
  BY Zenon DEF ClientAt
<1>. QED
  BY Zenon, <1>1 DEF ClientOK

\* A cancellation in the database: pending jobs are canceled, and no run becomes
\* PASSED or is queued again.
Unearned == RunStatus \ {"NONE", "QUEUED", "PASSED"}
CanceledAs(r, v) == jobStatus' = CanceledJobs(r) /\ runStatus' = [runStatus EXCEPT ![r] = v]

\* Such a cancellation keeps the invariant.
LEMMA CancelKeeps ==
  ASSUME ManagerInv, NEW r \in Run, NEW v \in Unearned, CanceledAs(r, v),
         UNCHANGED <<created, committed, claimed, obsErr, current, states, dispatcher>>, ClientOK'
  PROVE  ManagerInv'
<1>. USE DEF ManagerInv, ManagerTypeOK, Unearned, CanceledAs
<1>1. \A j \in Job : /\ RunOf[j] \in Run
                     /\ jobStatus'[j] = IF RunOf[j] = r /\ jobStatus[j] = "PENDING"
                                        THEN "CANCELED" ELSE jobStatus[j]
  BY Zenon, GraphAssumption DEF CanceledJobs
<1>2. ManagerTypeOK'
  <2>1. jobStatus' \in [Job -> JobStatus]
    BY Zenon DEF CanceledJobs, JobStatus, JobTerminal, JobDidNotPass
  <2>. QED
    BY Zenon, <2>1
<1>3. UnclaimedIsPending'
  BY Zenon, <1>1 DEF UnclaimedIsPending
<1>4. ClaimHeld'
  BY Zenon, <1>1 DEF ClaimHeld, JobsOf
<1>5. RecordFollowsLoop'
  BY Zenon, <1>1 DEF RecordFollowsLoop, Executing, JobsOf
<1>6. PassedIsEarned'
  BY Zenon, <1>1 DEF PassedIsEarned
<1>. QED
  BY Zenon, <1>2, <1>3, <1>4, <1>5, <1>6

\* CancelQueued.
LEMMA CancelQueuedKeeps ==
  ASSUME ManagerInv, NEW c \in Client, CancelQueued(c)  PROVE ManagerInv'
<1>1. PICK r \in Run : r = client[c].run
  BY Zenon DEF CancelQueued, ManagerInv, ManagerTypeOK, ClientOK
<1>2. ClientOK'
  BY Zenon, ClientMoves DEF CancelQueued, ManagerInv, ManagerTypeOK
<1>3. UNCHANGED <<created, committed, claimed, obsErr, current, states, dispatcher>>
  BY Zenon DEF CancelQueued, ManagerOnly, loopVars
<1>4. "CANCELED" \in Unearned
  BY Zenon DEF Unearned, RunStatus, RunTerminal
<1>5. CASE UNCHANGED <<runStatus, jobStatus>>
  BY Zenon, <1>2, <1>3, <1>5, TablesRest
<1>6. CASE CanceledAs(r, "CANCELED")
  BY Zenon, <1>2, <1>3, <1>4, <1>6, CancelKeeps
<1>. QED
  BY Zenon, <1>1, <1>5, <1>6 DEF CancelQueued, CanceledAs

\* RequestCancel: the verdict of a canceled run is not PASSED.
LEMMA RequestCancelKeeps ==
  ASSUME ManagerInv, NEW c \in Client, RequestCancel(c)  PROVE ManagerInv'
<1>1. PICK r \in Run : r = client[c].run
  BY Zenon DEF RequestCancel, ManagerInv, ManagerTypeOK, ClientOK
<1>. DEFINE over == \A j \in JobsOf(r) : CanceledJobs(r)[j] \notin JobUnfinished
            verdict == Outcome(CanceledJobs(r), TRUE, r)
<1>2. "RUNNING" \in Unearned /\ verdict \in Unearned
  BY Zenon DEF Unearned, Outcome, RunStatus, RunTerminal, RunActive
<1>3. PICK v \in Unearned : v = IF over THEN verdict ELSE "RUNNING"
  <2>. HIDE DEF over, verdict
  <2>. QED
    BY Zenon, <1>2
<1>4. \/ UNCHANGED <<runStatus, jobStatus>> /\ ClientAt(c, "idle", NoRun)
      \/ /\ runStatus[r] = "RUNNING" /\ jobStatus' = CanceledJobs(r)
         /\ runStatus' = [runStatus EXCEPT ![r] = IF over THEN verdict ELSE @]
         /\ ClientAt(c, "requested", r)
  BY <1>1, Zenon DEF RequestCancel
<1>. HIDE DEF over, verdict
<1>5. \/ UNCHANGED <<runStatus, jobStatus>> /\ ClientAt(c, "idle", NoRun)
      \/ CanceledAs(r, v) /\ ClientAt(c, "requested", r)
  <2>1. CASE runStatus[r] = "RUNNING" /\ runStatus' = [runStatus EXCEPT ![r] = IF over THEN verdict ELSE @]
    <3>1. runStatus' = [runStatus EXCEPT ![r] = v]
      BY Zenon, <1>3, <2>1
    <3>. QED
      BY <1>4, <3>1, Zenon DEF CanceledAs
  <2>. QED
    BY <1>4, <2>1, Zenon
<1>6. ClientOK
  BY Zenon DEF ManagerInv, ManagerTypeOK
<1>7. ClientOK'
  <2>1. CASE ClientAt(c, "idle", NoRun)
    BY Zenon, <1>6, <2>1, ClientMoves
  <2>2. CASE ClientAt(c, "requested", r)
    BY Zenon, <1>6, <2>2, ClientMoves
  <2>. QED
    BY Zenon, <1>5, <2>1, <2>2
<1>8. UNCHANGED <<created, committed, claimed, obsErr, current, states, dispatcher>>
  BY Zenon DEF RequestCancel, ManagerOnly, loopVars
<1>9. CASE UNCHANGED <<runStatus, jobStatus>>
  BY Zenon, <1>7, <1>8, <1>9, TablesRest
<1>10. CASE CanceledAs(r, v)
  BY Zenon, <1>7, <1>8, <1>10, CancelKeeps
<1>. QED
  BY Zenon, <1>5, <1>9, <1>10

\* Submit creates a run whose jobs are pending.
LEMMA SubmitKeeps ==
  ASSUME ManagerInv, NEW r \in Run, SubmitCreate(r)  PROVE ManagerInv'
<1>1. /\ runStatus[r] = "NONE" /\ runStatus' = [runStatus EXCEPT ![r] = "QUEUED"]
      /\ created' = Append(created, r)
      /\ UNCHANGED <<jobStatus, committed, claimed, obsErr, current, states, dispatcher, client>>
  BY Zenon DEF SubmitCreate, ManagerOnly, loopVars
<1>. USE DEF ManagerInv, ManagerTypeOK
<1>2. ManagerTypeOK'
  BY <1>1 DEF RunStatus, RunActive, ClientOK
<1>3. \A j \in Job : RunOf[j] \in Run
  BY Zenon, GraphAssumption
<1>4. UnclaimedIsPending' /\ PassedIsEarned'
  BY Zenon, <1>1, <1>3 DEF UnclaimedIsPending, PassedIsEarned
<1>5. ClaimHeld' /\ RecordFollowsLoop'
  BY Zenon, <1>1 DEF ClaimHeld, RecordFollowsLoop, Executing
<1>. QED
  BY Zenon, <1>2, <1>4, <1>5

\* A claim: the run was queued, so that all its jobs are pending.
LEMMA ClaimKeeps ==
  ASSUME ManagerInv, ClaimNextQueuedRun  PROVE ManagerInv'
<1>. DEFINE oldest == created[First(queued)]
<1>1. /\ UNCHANGED <<jobStatus, created, committed, obsErr, current, states, client>>
      /\ dispatcher' \in {"select", "begin"}
  BY Zenon DEF ClaimNextQueuedRun, calls, loopVars, DispatcherAt
<1>2. ClientOK'
  BY Zenon, <1>1 DEF ManagerInv, ManagerTypeOK, ClientOK
<1>3. CASE runStatus' = runStatus /\ claimed' = claimed /\ dispatcher' = "select"
  BY Zenon, <1>1, <1>2, <1>3, TablesRest
<1>4. CASE /\ queued # {} /\ runStatus' = [runStatus EXCEPT ![oldest] = "RUNNING"]
           /\ dispatcher' = "select" \/ (claimed' = oldest /\ dispatcher' = "begin")
  <2>1. created \in Seq(Run) /\ queued \in SUBSET DOMAIN created /\ DOMAIN created \in SUBSET Nat
    BY DEF ManagerInv, ManagerTypeOK, queued
  <2>2. First(queued) \in queued
    BY Zenon, <1>4, <2>1, FirstIn
  <2>3. oldest \in Run /\ runStatus[oldest] = "QUEUED"
    BY <2>1, <2>2 DEF queued
  <2>. HIDE DEF oldest
  <2>. USE DEF ManagerInv, ManagerTypeOK
  <2>4. \A j \in Job : RunOf[j] \in Run
    BY Zenon, GraphAssumption
  <2>5. ManagerTypeOK'
    BY Zenon, <1>1, <1>2, <1>4, <2>3 DEF RunStatus, RunActive
  <2>6. UnclaimedIsPending' /\ PassedIsEarned'
    BY Zenon, <1>1, <1>4, <2>3, <2>4 DEF UnclaimedIsPending, PassedIsEarned
  <2>7. ClaimHeld'
    BY Zenon, <1>1, <1>4, <2>3 DEF ClaimHeld, UnclaimedIsPending, JobsOf
  <2>8. RecordFollowsLoop'
    BY Zenon, <1>4 DEF RecordFollowsLoop, Executing
  <2>. QED
    BY Zenon, <2>5, <2>6, <2>7, <2>8
<1>. QED
  <2>. HIDE DEF oldest
  <2>1. \/ runStatus' = runStatus /\ claimed' = claimed /\ dispatcher' = "select"
        \/ /\ queued # {} /\ runStatus' = [runStatus EXCEPT ![oldest] = "RUNNING"]
           /\ dispatcher' = "select" \/ (claimed' = oldest /\ dispatcher' = "begin")
    BY Zenon DEF ClaimNextQueuedRun, DispatcherAt, oldest
  <2>. QED
    BY Zenon, <1>3, <1>4, <2>1

\* execute calls Run for a claimed run, none of whose jobs has begun.
LEMMA ExecuteStartsKeeps ==
  ASSUME ManagerInv, ExecuteStarts  PROVE ManagerInv'
<1>1. /\ dispatcher = "begin" /\ dispatcher' = "run" /\ current' = claimed
      /\ states' = [j \in Job |-> "PENDING"]
      /\ UNCHANGED <<runStatus, jobStatus, created, committed, claimed, client>>
  BY Zenon DEF ExecuteStarts, RunLoop, DispatcherAt, tables, calls
<1>. USE DEF ManagerInv
<1>2. ManagerTypeOK' /\ UnclaimedIsPending' /\ PassedIsEarned'
  BY Zenon, <1>1 DEF ManagerTypeOK, ClientOK, UnclaimedIsPending, PassedIsEarned
<1>3. ClaimHeld'
  BY Zenon, <1>1 DEF ClaimHeld
<1>4. RecordFollowsLoop'
  BY Zenon, <1>1 DEF ClaimHeld, RecordFollowsLoop, Executing, JobsOf
<1>. QED
  BY Zenon, <1>2, <1>3, <1>4

\* The end of execute: only the run it has claimed changes, and PASSED is
\* written only if it is earned.
LEMMA FinishKeeps ==
  ASSUME ManagerInv, dispatcher \in {"begin", "run"}, NEW v \in RunTerminal, FinishRun(v),
         jobStatus' \in [Job -> JobStatus],
         \A j \in Job : RunOf[j] # claimed => jobStatus'[j] = jobStatus[j],
         v = "PASSED" => \A j \in JobsOf(claimed) :
                           jobStatus'[j] = "PASSED" /\ (j \in UploadJob => j \in committed)
  PROVE  ManagerInv'
<1>1. /\ runStatus' \in {runStatus, Finished(v)} /\ dispatcher' = "claim"
      /\ UNCHANGED <<created, committed, client>>
  BY Zenon DEF FinishRun, ClaimAgain, DispatcherAt, calls
<1>. USE DEF ManagerInv, ManagerTypeOK
<1>2. claimed \in Run /\ runStatus[claimed] \notin {"NONE", "QUEUED", "PASSED"}
  BY Zenon DEF ClaimHeld
<1>3. /\ runStatus' \in [Run -> RunStatus]
      /\ \A r \in Run : r # claimed => runStatus'[r] = runStatus[r]
      /\ runStatus'[claimed] \in {runStatus[claimed], v}
  BY Zenon, <1>1, <1>2 DEF Finished, RunStatus
<1>4. v \notin {"NONE", "QUEUED"}
  BY Zenon DEF RunTerminal
<1>5. \A j \in Job : RunOf[j] \in Run
  BY Zenon, GraphAssumption
<1>6. ManagerTypeOK'
  BY Zenon, <1>1, <1>3 DEF ClientOK
<1>7. UnclaimedIsPending'
  BY <1>2, <1>3, <1>4, <1>5 DEF UnclaimedIsPending
<1>8. PassedIsEarned'
  <2>1. ASSUME NEW j \in Job, runStatus'[RunOf[j]] = "PASSED"
        PROVE  jobStatus'[j] = "PASSED" /\ (j \in UploadJob => j \in committed')
    <3>1. CASE RunOf[j] = claimed
      BY Zenon, <1>1, <1>2, <1>3, <2>1, <3>1 DEF JobsOf
    <3>2. CASE RunOf[j] # claimed
      BY Zenon, <1>1, <1>3, <1>5, <2>1, <3>2 DEF PassedIsEarned
    <3>. QED
      BY Zenon, <3>1, <3>2
  <2>. QED
    BY Zenon, <2>1 DEF PassedIsEarned
<1>9. ClaimHeld' /\ RecordFollowsLoop'
  BY Zenon, <1>1 DEF ClaimHeld, RecordFollowsLoop, Executing
<1>. QED
  BY Zenon, <1>6, <1>7, <1>8, <1>9

\* A preparation fails.
LEMMA PrepareFailsKeeps ==
  ASSUME ManagerInv, PrepareFails  PROVE ManagerInv'
<1>1. /\ dispatcher = "begin" /\ FinishRun("ERROR") /\ jobStatus' = jobStatus
      /\ "ERROR" \in RunTerminal /\ "ERROR" # "PASSED"
  BY Zenon DEF PrepareFails, RunTerminal
<1>2. jobStatus' \in [Job -> JobStatus]
  BY Zenon, <1>1 DEF ManagerInv, ManagerTypeOK
<1>. QED
  BY Zenon, <1>1, <1>2, FinishKeeps

\* The result of Run decides: if it is PASSED, the record shows all jobs PASSED.
LEMMA ExecuteEndsKeeps ==
  ASSUME Inv, ExecuteEnds  PROVE ManagerInv'
<1>1. /\ dispatcher = "run" /\ FinishRun(VerdictOf)
      /\ jobStatus' = [j \in Job |-> IF internalError /\ ~obsErr /\ RunOf[j] = current
                                        /\ states[j] = "FAILED"
                                     THEN "FAILED" ELSE jobStatus[j]]
  BY Zenon DEF ExecuteEnds
<1>2. current = claimed
  BY Zenon, <1>1 DEF Inv, ManagerInv, ClaimHeld
<1>3. jobStatus' \in [Job -> JobStatus]
  BY Zenon, <1>1 DEF Inv, ManagerInv, ManagerTypeOK, JobStatus, JobTerminal, JobDidNotPass
<1>4. \A j \in Job : RunOf[j] # claimed => jobStatus'[j] = jobStatus[j]
  BY Zenon, <1>1, <1>2
<1>5. PICK v \in RunTerminal : v = VerdictOf
  BY Zenon DEF VerdictOf, RunTerminal
<1>6. ASSUME v = "PASSED", NEW j \in JobsOf(claimed)
      PROVE  jobStatus'[j] = "PASSED" /\ (j \in UploadJob => j \in committed)
  <2>1. ~obsErr /\ ~internalError /\ states[j] = "PASSED" /\ j \in Job
    BY Zenon, <1>2, <1>5, <1>6 DEF VerdictOf, Succeeded, JobsOf
  <2>2. jobStatus[j] = "PASSED"
    BY Zenon, <1>1, <1>2, <2>1 DEF Inv, ManagerInv, RecordFollowsLoop, Executing
  <2>3. jobStatus'[j] = "PASSED"
    BY Zenon, <1>1, <2>1, <2>2
  <2>. QED
    BY Zenon, <2>1, <2>3 DEF Inv, LoopInv, PassedUploaded
<1>7. FinishRun(v)
  BY <1>1, <1>5, Zenon
<1>. QED
  BY Zenon, <1>1, <1>3, <1>4, <1>6, <1>7, FinishKeeps DEF Inv

\* The observer writes what the loop has changed, in the run it has claimed.
LEMMA LoopKeeps ==
  ASSUME Inv, Loop  PROVE Inv'
<1>1. /\ dispatcher = "run" /\ LoopStep
      /\ UNCHANGED <<runStatus, created, committed, dispatcher, claimed, client>>
  BY Zenon DEF Loop, calls
<1>2. /\ ctx' \in {ctx, "canceled"}
      /\ \/ states' = states /\ UNCHANGED <<jobStatus, obsErr>>
         \/ \E j \in Job : /\ states'[j] # states[j]
                           /\ \/ jobStatus' = [jobStatus EXCEPT ![j] = states'[j]] /\ obsErr' = obsErr
                              \/ /\ jobStatus' \in {jobStatus, [jobStatus EXCEPT ![j] = states'[j]]}
                                 /\ obsErr' = TRUE
  BY Zenon DEF Loop, UpdateJob
<1>3. LoopInv' /\ StateStep
  BY Zenon, <1>1, <1>2, LoopStepKeeps DEF Inv, Meanwhile, Kept
<1>4. current' = current /\ current = claimed /\ claimed \in Run
      /\ runStatus[claimed] \notin {"NONE", "QUEUED", "PASSED"}
  BY Zenon, <1>1 DEF LoopStep, Top, Block, Start, Idle, Receive, NoticeCancel, Inv, ManagerInv, ClaimHeld
<1>5. CASE states' = states
  <2>1. UNCHANGED <<jobStatus, obsErr>>
    BY Zenon, <1>2, <1>5
  <2>2. ClientOK'
    BY Zenon, <1>1 DEF Inv, ManagerInv, ManagerTypeOK, ClientOK
  <2>. QED
    BY Zenon, <1>1, <1>3, <1>4, <1>5, <2>1, <2>2, TablesRest DEF Inv
<1>6. CASE states' # states
  <2>1. PICK j \in JobsOf(current), s \in LoopStates \ {"PENDING"} :
          states' = [states EXCEPT ![j] = s]
    BY Zenon, <1>3, <1>6 DEF StateStep
  <2>2. /\ j \in Job /\ RunOf[j] = claimed /\ states \in [Job -> LoopStates]
        /\ jobStatus \in [Job -> JobStatus]
    BY Zenon, <1>4 DEF JobsOf, Inv, LoopInv, LoopTypeOK, ManagerInv, ManagerTypeOK
  <2>3. states'[j] = s /\ \A i \in Job : i # j => states'[i] = states[i]
    BY Zenon, <2>1, <2>2
  <2>4. \/ jobStatus' = [jobStatus EXCEPT ![j] = s] /\ obsErr' = obsErr
        \/ jobStatus' \in {jobStatus, [jobStatus EXCEPT ![j] = s]} /\ obsErr' = TRUE
    BY Zenon, <1>2, <1>6, <2>3
  <2>5. s \in JobStatus
    BY Zenon DEF LoopStates, Outcome3, JobStatus, JobTerminal, JobDidNotPass
  <2>6. ManagerTypeOK'
    BY Zenon, <1>1, <2>2, <2>4, <2>5 DEF Inv, ManagerInv, ManagerTypeOK, ClientOK
  <2>7. \A i \in Job : RunOf[i] # claimed => jobStatus'[i] = jobStatus[i]
    BY Zenon, <2>2, <2>4
  <2>8. UnclaimedIsPending' /\ PassedIsEarned'
    BY Zenon, <1>1, <1>4, <2>7 DEF Inv, ManagerInv, UnclaimedIsPending, PassedIsEarned
  <2>9. ClaimHeld'
    BY Zenon, <1>1, <1>4 DEF ClaimHeld
  <2>10. RecordFollowsLoop'
    <3>1. ASSUME ~obsErr', NEW i \in JobsOf(current)
          PROVE  \/ jobStatus'[i] = states'[i]
                 \/ states'[i] = "PENDING" /\ jobStatus'[i] = "CANCELED"
      <4>1. jobStatus' = [jobStatus EXCEPT ![j] = s] /\ ~obsErr /\ i \in Job
        BY <2>4, <3>1 DEF JobsOf
      <4>2. CASE i = j
        BY Zenon, <2>2, <2>3, <4>1, <4>2
      <4>3. CASE i # j
        BY Zenon, <1>1, <2>2, <2>3, <4>1, <4>3 DEF Inv, ManagerInv, RecordFollowsLoop, Executing
      <4>. QED
        BY Zenon, <4>2, <4>3
    <3>. QED
      BY Zenon, <1>4, <3>1 DEF RecordFollowsLoop
  <2>. QED
    BY Zenon, <1>3, <2>6, <2>8, <2>9, <2>10 DEF Inv, ManagerInv
<1>. QED
  BY Zenon, <1>5, <1>6

\* A job's goroutine ends, and has committed its artifacts if it passed.
LEMMA JobEndsKeeps ==
  ASSUME Inv, NEW j \in Job, JobEnds(j)  PROVE Inv'
<1>1. PICK c \in Outcomes(j) :
        /\ Send(c)
        /\ IF c.state = "PASSED" /\ j \in UploadJob
           THEN committed' = committed \cup {j} ELSE UNCHANGED committed
  BY Zenon DEF JobEnds
<1>2. /\ UNCHANGED <<ctx, runStatus, jobStatus, created, dispatcher, client, claimed, obsErr>>
      /\ UNCHANGED <<current, states>>
  BY Zenon, <1>1 DEF JobEnds, calls, ManagerOnly, Send
<1>3. LoopInv'
  BY Zenon, <1>1, <1>2, SendKeeps DEF Inv
<1>4. ClientOK'
  BY Zenon, <1>2 DEF Inv, ManagerInv, ManagerTypeOK, ClientOK
<1>5. committed \subseteq committed'
  BY Zenon, <1>1
<1>. QED
  BY Zenon, <1>2, <1>3, <1>4, <1>5, TablesRest DEF Inv

\* Start aborts what was running, and nothing else.
LEMMA RestartKeeps ==
  ASSUME Inv, Restart  PROVE Inv'
<1>1. /\ LoopDone /\ dispatcher' = "select" /\ UNCHANGED <<created, committed>>
      /\ client' = [c \in Client |-> [pc |-> "idle", run |-> NoRun]]
      /\ runStatus' = [r \in Run |-> IF runStatus[r] = "RUNNING" THEN "ABORTED" ELSE runStatus[r]]
      /\ jobStatus' = [j \in Job |-> IF /\ runStatus[RunOf[j]] = "RUNNING"
                                        /\ jobStatus[j] \in JobUnfinished
                                     THEN "ABORTED" ELSE jobStatus[j]]
  BY Zenon DEF Restart, RecoverRuns
<1>2. LoopInv'
  BY Zenon, <1>1, LoopBegins
<1>. USE DEF Inv, ManagerInv, ManagerTypeOK
<1>3. ManagerTypeOK'
  <2>1. "ABORTED" \in RunStatus /\ "ABORTED" \in JobStatus
    BY Zenon DEF RunStatus, RunTerminal, JobStatus, JobTerminal, JobDidNotPass
  <2>2. ClientOK'
    BY Zenon, <1>1 DEF ClientOK
  <2>. QED
    BY Zenon, <1>1, <2>1, <2>2
<1>4. \A j \in Job : RunOf[j] \in Run
  BY Zenon, GraphAssumption
<1>5. UnclaimedIsPending'
  BY Zenon, <1>1, <1>4 DEF UnclaimedIsPending
<1>6. PassedIsEarned'
  BY Zenon, <1>1, <1>4 DEF PassedIsEarned
<1>7. ClaimHeld' /\ RecordFollowsLoop'
  BY Zenon, <1>1 DEF ClaimHeld, RecordFollowsLoop, Executing
<1>. QED
  BY Zenon, <1>2, <1>3, <1>5, <1>6, <1>7

\* The invariant holds at the start: the backlog's jobs are pending.
LEMMA InvInit == Init => Inv
<1>. SUFFICES ASSUME Init PROVE Inv
  BY Zenon
<1>1. /\ current = NoRun /\ states = [j \in Job |-> "PENDING"] /\ loop = "returned" /\ pos = 1
      /\ interrupted = FALSE /\ working = {} /\ completions = <<>>
  BY Zenon DEF Init, LoopInit
<1>2. LoopTypeOK
  BY <1>1 DEF LoopTypeOK, LoopStates, JobUnfinished
<1>3. active = {} /\ Reported = {}
  BY <1>1 DEF active, Reported
<1>4. Accounted
  <2>1. Cardinality(active) = 0 /\ Cardinality(working) = 0 /\ Len(completions) = 0
    BY Zenon, <1>1, <1>3, FS_EmptySet
  <2>. QED
    BY <1>1, <1>3, <2>1, OrderAssumption DEF Accounted
<1>5. RunningAfterNeeds /\ CancelNoticed /\ Scanned /\ PassedUploaded
  BY <1>1 DEF RunningAfterNeeds, CancelNoticed, Scanned, PassedUploaded
<1>6. ManagerTypeOK
  <2>1. ClientOK
    BY Zenon DEF Init, ClientOK
  <2>2. created \in Seq(Run)
    BY Zenon, BacklogAssumption DEF Init
  <2>3. runStatus \in [Run -> RunStatus] /\ jobStatus \in [Job -> JobStatus]
    BY Zenon DEF Init, RunStatus, RunActive, JobStatus, JobUnfinished
  <2>. QED
    BY Zenon, <2>1, <2>2, <2>3 DEF ManagerTypeOK
<1>7. UnclaimedIsPending /\ PassedIsEarned
  BY Zenon, GraphAssumption DEF Init, UnclaimedIsPending, PassedIsEarned
<1>8. ClaimHeld /\ RecordFollowsLoop
  BY Zenon DEF Init, ClaimHeld, RecordFollowsLoop, Executing
<1>. QED
  BY Zenon, <1>2, <1>4, <1>5, <1>6, <1>7, <1>8 DEF Inv, LoopInv, ManagerInv

\* Every step keeps the invariant.
LEMMA InvNext == Inv /\ [Next]_vars => Inv'
<1>. SUFFICES ASSUME Inv, [Next]_vars PROVE Inv'
  BY Zenon
<1>. DEFINE Rests == UNCHANGED loopVars /\ ctx' \in {ctx, "canceled"} /\ committed' = committed
<1>1. ASSUME Rests  PROVE LoopInv'
  BY Zenon, <1>1, LoopRests DEF Inv
<1>2. ASSUME Rests, UNCHANGED <<runStatus, jobStatus, created, claimed, obsErr>>, ClientOK',
             dispatcher' = dispatcher \/ dispatcher' \notin {"begin", "run"}
      PROVE  Inv'
  <2>1. UNCHANGED <<current, states>> /\ committed \subseteq committed'
    BY Zenon, <1>2 DEF loopVars
  <2>2. ManagerInv'
    BY Zenon, <1>2, <2>1, TablesRest DEF Inv
  <2>. QED
    BY Zenon, <1>1, <1>2, <2>2 DEF Inv
<1>3. ClientOK /\ (client' = client => ClientOK')
  BY Zenon DEF Inv, ManagerInv, ManagerTypeOK, ClientOK
<1>4. ASSUME NEW r \in Run, SubmitCreate(r)  PROVE Inv'
  <2>1. LoopInv'
    BY Zenon, <1>1, <1>4 DEF SubmitCreate
  <2>2. ManagerInv'
    BY Zenon, <1>4, SubmitKeeps DEF Inv
  <2>. QED
    BY Zenon, <2>1, <2>2 DEF Inv
<1>5. ASSUME NEW r \in Run, SubmitNotify(r)  PROVE Inv'
  BY Zenon, <1>2, <1>3, <1>5 DEF SubmitNotify, tables, ManagerOnly
<1>6. ASSUME NEW c \in Client, NEW r \in Run, CancelRead(c, r)  PROVE Inv'
  <2>1. PICK pc \in {"QUEUED", "RUNNING"} : pc = runStatus[r]
    BY Zenon, <1>6 DEF CancelRead, RunActive
  <2>2. ClientAt(c, pc, r)
    BY <1>6, <2>1, Zenon DEF CancelRead
  <2>3. ClientOK'
    BY Zenon, <1>3, <2>2, ClientMoves
  <2>. QED
    BY Zenon, <1>2, <1>6, <2>3 DEF CancelRead, tables, ManagerOnly
<1>7. ASSUME NEW c \in Client, CancelQueued(c)  PROVE Inv'
  <2>1. LoopInv'
    BY Zenon, <1>1, <1>7 DEF CancelQueued
  <2>2. ManagerInv'
    BY Zenon, <1>7, CancelQueuedKeeps DEF Inv
  <2>. QED
    BY Zenon, <2>1, <2>2 DEF Inv
<1>8. ASSUME NEW c \in Client, RequestCancel(c)  PROVE Inv'
  <2>1. LoopInv'
    BY Zenon, <1>1, <1>8 DEF RequestCancel
  <2>2. ManagerInv'
    BY Zenon, <1>8, RequestCancelKeeps DEF Inv
  <2>. QED
    BY Zenon, <2>1, <2>2 DEF Inv
<1>9. ASSUME NEW c \in Client, ActiveCancel(c)  PROVE Inv'
  <2>1. ClientOK'
    BY Zenon, <1>3, <1>9, ClientMoves DEF ActiveCancel
  <2>. QED
    BY Zenon, <1>2, <1>9, <2>1 DEF ActiveCancel, tables, ManagerOnly
<1>10. CASE Wake
  BY Zenon, <1>2, <1>3, <1>10 DEF Wake, tables, calls, ManagerOnly, DispatcherAt
<1>11. CASE Stop
  BY Zenon, <1>2, <1>3, <1>11 DEF Stop, tables, calls, ManagerOnly, DispatcherAt
<1>12. CASE ClaimNextQueuedRun
  <2>1. LoopInv'
    BY Zenon, <1>1, <1>12 DEF ClaimNextQueuedRun
  <2>2. ManagerInv'
    BY Zenon, <1>12, ClaimKeeps DEF Inv
  <2>. QED
    BY Zenon, <2>1, <2>2 DEF Inv
<1>13. CASE ExecuteStarts
  <2>1. claimed \in Run
    BY Zenon, <1>13 DEF ExecuteStarts, Inv, ManagerInv, ClaimHeld
  <2>2. \E r \in Run : RunLoop(r)
    BY Zenon, <1>13, <2>1 DEF ExecuteStarts
  <2>. QED
    BY Zenon, <1>13, <2>2, LoopBegins, ExecuteStartsKeeps DEF Inv
<1>14. CASE PrepareFails
  <2>1. LoopDone
    BY Zenon, <1>14 DEF PrepareFails, FinishRun
  <2>2. ManagerInv'
    BY Zenon, <1>14, PrepareFailsKeeps DEF Inv
  <2>. QED
    BY Zenon, <2>1, <2>2, LoopBegins DEF Inv
<1>15. CASE ExecuteEnds
  <2>1. LoopDone
    BY Zenon, <1>15 DEF ExecuteEnds, FinishRun
  <2>2. ManagerInv'
    BY Zenon, <1>15, ExecuteEndsKeeps DEF Inv
  <2>. QED
    BY Zenon, <2>1, <2>2, LoopBegins DEF Inv
<1>16. CASE Loop
  BY Zenon, <1>16, LoopKeeps
<1>17. ASSUME NEW j \in Job, JobEnds(j)  PROVE Inv'
  BY Zenon, <1>17, JobEndsKeeps
<1>18. CASE Shutdown
  BY Zenon, <1>2, <1>3, <1>18 DEF Shutdown, tables, calls
<1>19. CASE Restart
  BY Zenon, <1>19, RestartKeeps
<1>20. CASE UNCHANGED vars
  BY Zenon, <1>2, <1>3, <1>20 DEF vars, tables, calls
<1>. QED
  BY Zenon, <1>4, <1>5, <1>6, <1>7, <1>8, <1>9, <1>10, <1>11, <1>12, <1>13, <1>14, <1>15, <1>16,
     <1>17, <1>18, <1>19, <1>20 DEF Next, Execute

-----------------------------------------------------------------------------
(***************************************************************************)
(* The theorems.                                                           *)
(***************************************************************************)

\* The invariant is one of the specification.
THEOREM InvHolds == Spec => []Inv
<1>. QED
  BY InvInit, InvNext, PTL DEF Spec

\* PASSED is written by execute only for a run whose jobs all passed and have
\* committed what they declare, and nothing takes that back.
THEOREM PassedIsAlwaysEarned == Spec => []PassedIsEarned
<1>1. Inv => PassedIsEarned
  BY Zenon DEF Inv, ManagerInv
<1>. QED
  BY <1>1, InvHolds, PTL

\* The rows of job_runs show what the event loop knows, although UpdateJob has no
\* condition and RequestCancel writes the same rows.
THEOREM RecordAlwaysFollows == Spec => []RecordFollowsLoop
<1>1. Inv => RecordFollowsLoop
  BY Zenon DEF Inv, ManagerInv
<1>. QED
  BY <1>1, InvHolds, PTL

\* The event loop starts jobs within max_parallel and after their predecessors,
\* and each goroutine accounts for one completion.
THEOREM AdmissionAlwaysHolds == Spec => []AdmissionHolds
<1>1. Inv => AdmissionHolds
  <2>. SUFFICES ASSUME Inv, Executing PROVE AdmissionHolds
    BY Zenon DEF AdmissionHolds
  <2>1. current \in Run
    BY Zenon DEF Inv, ManagerInv, ClaimHeld, Executing
  <2>2. active = working \cup {completions[i].name : i \in DOMAIN completions}
    BY Zenon DEF Inv, LoopInv, Accounted, Reported
  <2>3. Cardinality(working) + Len(completions) <= maxParallel
    BY Zenon, <2>1 DEF Inv, LoopInv, Accounted
  <2>4. \A j \in active : \A d \in Needs[j] : states[d] = "PASSED"
    BY Zenon DEF Inv, LoopInv, RunningAfterNeeds, active
  <2>. QED
    BY Zenon, <2>2, <2>3, <2>4 DEF AdmissionHolds
<1>. QED
  BY <1>1, InvHolds, PTL

\* The branch of the event loop for pending jobs that can never become ready,
\* which fails them with an internal error, is dead code.
THEOREM LoopIsNeverStuck == Spec => NeverStuck
<1>. DEFINE Quiet == \A j \in Job : states[j] = "PENDING" => states'[j] # "FAILED"
<1>1. Inv /\ [Next]_vars => [Quiet]_vars
  <2>. SUFFICES ASSUME Inv, Next PROVE Quiet
    BY Zenon
  <2>1. CASE UNCHANGED states
    BY Zenon, <2>1
  <2>2. CASE states' = [j \in Job |-> "PENDING"]
    BY Zenon, <2>2
  <2>3. CASE Loop
    <3>1. LoopStep /\ Meanwhile
      BY Zenon, <2>3 DEF Loop, UpdateJob, Meanwhile
    <3>2. StateStep
      BY Zenon, <3>1, LoopStepKeeps DEF Inv, Kept
    <3>. QED
      BY Zenon, <3>2 DEF StateStep, JobsOf, Inv, LoopInv, LoopTypeOK
  <2>4. \/ UNCHANGED states \/ states' = [j \in Job |-> "PENDING"] \/ Loop
    <3>1. ASSUME UNCHANGED loopVars PROVE UNCHANGED states
      BY Zenon, <3>1 DEF loopVars
    <3>2. ASSUME NEW r \in Run, SubmitCreate(r) \/ SubmitNotify(r)  PROVE UNCHANGED states
      BY Zenon, <3>1, <3>2 DEF SubmitCreate, SubmitNotify
    <3>3. ASSUME NEW c \in Client, NEW r \in Run, CancelRead(c, r)  PROVE UNCHANGED states
      BY Zenon, <3>1, <3>3 DEF CancelRead
    <3>4. ASSUME NEW c \in Client, CancelQueued(c)  PROVE UNCHANGED states
      BY Zenon, <3>1, <3>4 DEF CancelQueued
    <3>5. ASSUME NEW c \in Client, RequestCancel(c)  PROVE UNCHANGED states
      BY Zenon, <3>1, <3>5 DEF RequestCancel
    <3>6. ASSUME NEW c \in Client, ActiveCancel(c)  PROVE UNCHANGED states
      BY Zenon, <3>1, <3>6 DEF ActiveCancel
    <3>7. ASSUME Wake \/ Stop \/ ClaimNextQueuedRun \/ Shutdown  PROVE UNCHANGED states
      BY Zenon, <3>1, <3>7 DEF Wake, Stop, ClaimNextQueuedRun, Shutdown
    <3>8. ASSUME ExecuteStarts  PROVE states' = [j \in Job |-> "PENDING"]
      BY Zenon, <3>8 DEF ExecuteStarts, RunLoop
    <3>9. ASSUME PrepareFails \/ ExecuteEnds \/ Restart  PROVE states' = [j \in Job |-> "PENDING"]
      <4>1. LoopDone
        BY Zenon, <3>9 DEF PrepareFails, ExecuteEnds, FinishRun, Restart
      <4>. QED
        BY Zenon, <4>1 DEF LoopDone
    <3>10. ASSUME NEW j \in Job, JobEnds(j)  PROVE UNCHANGED states
      BY Zenon, <3>10 DEF JobEnds, Send
    <3>. QED
      BY Zenon, <3>2, <3>3, <3>4, <3>5, <3>6, <3>7, <3>8, <3>9, <3>10 DEF Next, Execute
  <2>. QED
    BY Zenon, <2>1, <2>2, <2>3, <2>4
<1>. QED
  BY <1>1, InvHolds, PTL DEF Spec, NeverStuck

-----------------------------------------------------------------------------
(***************************************************************************)
(* No run is forgotten.  The dispatcher goes back to its select only when  *)
(* no row is queued, and every row that is queued is one of those it looks *)
(* at.                                                                     *)
(***************************************************************************)
Listed == {created[i] : i \in DOMAIN created}

\* The token, or somebody, for a queued run; the dispatcher for a running one.
HasAttention(r) ==
  /\ runStatus[r] = "QUEUED" => wake \/ r \in submitting \/ dispatcher # "select"
  /\ runStatus[r] = "RUNNING" => claimed = r /\ dispatcher \in {"begin", "run"}

Attended ==
  /\ faults \in Nat
  /\ \A r \in Run : runStatus[r] = "QUEUED" => r \in Listed
  /\ RunIsAttended

\* A failed call of the store leaves nothing to be shown of the attention.
LEMMA AttendedAfter ==
  ASSUME Attended, NoFault \/ Fault,
         \A r \in Run : runStatus'[r] = "QUEUED" => r \in Listed',
         NoFault /\ (\A r \in Run : HasAttention(r)) => \A r \in Run : HasAttention(r)'
  PROVE  Attended'
<1>1. faults \in Nat /\ faults' \in Nat /\ (faults' = 0 => faults = 0 /\ NoFault)
  BY DEF Attended, NoFault, Fault
<1>2. faults = 0 => \A r \in Run : HasAttention(r)
  BY Zenon DEF Attended, RunIsAttended, HasAttention
<1>3. faults' = 0 => \A r \in Run : HasAttention(r)'
  BY Zenon, <1>1, <1>2
<1>4. RunIsAttended'
  BY Zenon, <1>3 DEF RunIsAttended, HasAttention
<1>. QED
  BY Zenon, <1>1, <1>4 DEF Attended

\* Submit lists the run, and is to notify unless it fails.
LEMMA SubmitAttends ==
  ASSUME Inv, Attended, NEW r \in Run, SubmitCreate(r)
  PROVE  Attended'
<1>1. /\ runStatus' = [runStatus EXCEPT ![r] = "QUEUED"] /\ created' = Append(created, r)
      /\ UNCHANGED <<wake, dispatcher, claimed>>
      /\ (NoFault /\ submitting' = submitting \cup {r}) \/ Fault
  BY Zenon DEF SubmitCreate, ManagerOnly
<1>2. created \in Seq(Run) /\ runStatus \in [Run -> RunStatus]
  BY Zenon DEF Inv, ManagerInv, ManagerTypeOK
<1>3. /\ runStatus'[r] = "QUEUED" /\ \A s \in Run \ {r} : runStatus'[s] = runStatus[s]
  BY Zenon, <1>1, <1>2
<1>4. Listed \subseteq Listed' /\ r \in Listed'
  <2>1. /\ \A i \in DOMAIN created : i \in DOMAIN Append(created, r) /\ Append(created, r)[i] = created[i]
        /\ Len(created) + 1 \in DOMAIN Append(created, r)
        /\ Append(created, r)[Len(created) + 1] = r
    BY <1>2
  <2>. QED
    BY Zenon, <1>1, <2>1 DEF Listed
<1>5. \A s \in Run : runStatus'[s] = "QUEUED" => s \in Listed'
  BY Zenon, <1>3, <1>4 DEF Attended
<1>6. NoFault => submitting' = submitting \cup {r}
  <2>1. Fault => ~NoFault
    BY DEF Fault, NoFault, Attended
  <2>. QED
    BY Zenon, <1>1, <2>1
<1>7. ASSUME NoFault, \A s \in Run : HasAttention(s), NEW s \in Run  PROVE HasAttention(s)'
  <2>1. CASE s = r
    BY Zenon, <1>3, <1>6, <1>7, <2>1 DEF HasAttention
  <2>2. CASE s # r
    BY Zenon, <1>1, <1>3, <1>6, <1>7, <2>2 DEF HasAttention
  <2>. QED
    BY Zenon, <2>1, <2>2
<1>. QED
  BY Zenon, <1>1, <1>5, <1>7, AttendedAfter

\* A step that queues no run, and after which the runs that are still queued or
\* running have the attention they had.
LEMMA OthersAttend ==
  ASSUME Attended, NoFault \/ Fault, created' = created,
         \A r \in Run : runStatus'[r] = "QUEUED" => runStatus[r] = "QUEUED",
         ASSUME NoFault, NEW r \in Run, HasAttention(r), \A s \in Run : HasAttention(s)
         PROVE  HasAttention(r)'
  PROVE  Attended'
<1>1. \A r \in Run : runStatus'[r] = "QUEUED" => r \in Listed'
  BY Zenon DEF Attended, Listed
<1>. QED
  BY Zenon, <1>1, AttendedAfter

\* The calls of the API.
LEMMA CallsAttend ==
  ASSUME Inv, Attended,
         \/ \E r \in Run : SubmitNotify(r)
         \/ \E c \in Client, r \in Run : CancelRead(c, r)
         \/ \E c \in Client : CancelQueued(c) \/ RequestCancel(c) \/ ActiveCancel(c)
  PROVE  Attended'
<1>1. /\ NoFault /\ UNCHANGED <<created, dispatcher, claimed>>
      /\ wake' = wake \/ wake' = TRUE
      /\ submitting' = submitting \/ wake'
  BY Zenon DEF SubmitNotify, CancelRead, CancelQueued, RequestCancel, ActiveCancel, ManagerOnly,
               NoFault, Notify, tables
<1>2. runStatus \in [Run -> RunStatus] /\ \A c \in Client : client[c].pc # "idle" => client[c].run \in Run
  BY Zenon DEF Inv, ManagerInv, ManagerTypeOK, ClientOK
<1>3. \A r \in Run : \/ runStatus'[r] = runStatus[r]
                     \/ runStatus'[r] \notin RunActive
  <2>1. CASE UNCHANGED runStatus
    BY Zenon, <2>1
  <2>2. ASSUME NEW c \in Client, CancelQueued(c) \/ RequestCancel(c)
        PROVE  \A r \in Run : runStatus'[r] = runStatus[r] \/ runStatus'[r] \notin RunActive
    <3>1. PICK r \in Run : r = client[c].run
      BY Zenon, <1>2, <2>2 DEF CancelQueued, RequestCancel
    <3>2. Outcome(CanceledJobs(r), TRUE, r) \notin RunActive /\ "CANCELED" \notin RunActive
      BY Zenon DEF Outcome, RunActive
    <3>3. PICK v : v = Outcome(CanceledJobs(r), TRUE, r)
      BY Zenon
    <3>4. \/ UNCHANGED runStatus
          \/ runStatus' = [runStatus EXCEPT ![r] = "CANCELED"]
          \/ runStatus' = [runStatus EXCEPT ![r] = v]
          \/ runStatus' = [runStatus EXCEPT ![r] = runStatus[r]]
      BY Zenon, <2>2, <3>1, <3>3 DEF CancelQueued, RequestCancel
    <3>. QED
      BY Zenon, <1>2, <3>2, <3>3, <3>4
  <2>. QED
    BY Zenon, <2>1, <2>2 DEF SubmitNotify, CancelRead, ActiveCancel, tables
<1>4. \A r \in Run : HasAttention(r) => HasAttention(r)'
  BY Zenon, <1>1, <1>3 DEF HasAttention, RunActive
<1>. QED
  BY Zenon, <1>1, <1>3, <1>4, OthersAttend DEF RunActive

\* A claim: the dispatcher waits again only when nothing is queued, or after a
\* failure.
LEMMA ClaimAttends ==
  ASSUME Inv, Attended, ClaimNextQueuedRun
  PROVE  Attended'
<1>. DEFINE oldest == created[First(queued)]
<1>1. /\ dispatcher = "claim" /\ UNCHANGED <<created, wake, submitting>>
      /\ \/ queued = {} /\ NoFault /\ UNCHANGED runStatus /\ dispatcher' = "select"
         \/ /\ queued # {} /\ NoFault /\ runStatus' = [runStatus EXCEPT ![oldest] = "RUNNING"]
            /\ claimed' = oldest /\ dispatcher' = "begin"
         \/ /\ queued # {} /\ Fault
            /\ runStatus' = runStatus \/ runStatus' = [runStatus EXCEPT ![oldest] = "RUNNING"]
  BY Zenon DEF ClaimNextQueuedRun, DispatcherAt, calls
<1>2. runStatus \in [Run -> RunStatus] /\ created \in Seq(Run)
  BY Zenon DEF Inv, ManagerInv, ManagerTypeOK
<1>3. queued # {} => oldest \in Run
  <2>1. queued \in SUBSET DOMAIN created /\ DOMAIN created \in SUBSET Nat
    BY <1>2 DEF queued
  <2>2. ASSUME queued # {}  PROVE First(queued) \in queued
    BY Zenon, <2>1, <2>2, FirstIn
  <2>. QED
    BY <1>2, <2>1, <2>2
<1>. HIDE DEF oldest
<1>4. queued = {} => \A r \in Run : runStatus[r] # "QUEUED"
  BY Zenon DEF queued, Attended, Listed
<1>5. \A r \in Run : runStatus'[r] = "QUEUED" => runStatus[r] = "QUEUED"
  BY Zenon, <1>1, <1>2, <1>3
<1>6. Fault => ~NoFault
  BY DEF Fault, NoFault, Attended
<1>7. ASSUME NoFault, NEW r \in Run, HasAttention(r)  PROVE HasAttention(r)'
  <2>1. runStatus[r] # "RUNNING"
    BY Zenon, <1>1, <1>7 DEF HasAttention
  <2>2. CASE queued = {} /\ UNCHANGED runStatus
    BY Zenon, <1>4, <2>1, <2>2 DEF HasAttention
  <2>3. CASE /\ queued # {} /\ runStatus' = [runStatus EXCEPT ![oldest] = "RUNNING"]
             /\ claimed' = oldest /\ dispatcher' = "begin"
    BY Zenon, <1>2, <1>3, <2>1, <2>3 DEF HasAttention
  <2>. QED
    BY Zenon, <1>1, <1>6, <1>7, <2>2, <2>3
<1>. QED
  BY Zenon, <1>1, <1>5, <1>7, OthersAttend

\* The end of execute: the run is over, or the call has failed.
LEMMA FinishAttends ==
  ASSUME Inv, Attended, dispatcher \in {"begin", "run"}, NEW v \in RunTerminal, FinishRun(v)
  PROVE  Attended'
<1>1. /\ UNCHANGED <<created, submitting>> /\ dispatcher' = "claim"
      /\ (runStatus' = Finished(v) /\ NoFault) \/ (runStatus' \in {runStatus, Finished(v)} /\ Fault)
  BY Zenon DEF FinishRun, ClaimAgain, DispatcherAt, calls
<1>2. runStatus \in [Run -> RunStatus] /\ claimed \in Run /\ v \notin RunActive
  BY Zenon DEF Inv, ManagerInv, ManagerTypeOK, ClaimHeld, RunTerminal, RunActive
<1>3. /\ Finished(v)[claimed] # "RUNNING"
      /\ \A r \in Run : /\ Finished(v)[r] = "QUEUED" => runStatus[r] = "QUEUED"
                        /\ r # claimed => Finished(v)[r] = runStatus[r]
  BY Zenon, <1>2 DEF Finished, RunActive
<1>4. Fault => ~NoFault
  BY DEF Fault, NoFault, Attended
<1>5. \A r \in Run : runStatus'[r] = "QUEUED" => runStatus[r] = "QUEUED"
  BY Zenon, <1>1, <1>3
<1>6. ASSUME NoFault, NEW r \in Run, HasAttention(r)  PROVE HasAttention(r)'
  BY Zenon, <1>1, <1>3, <1>4, <1>6 DEF HasAttention
<1>. QED
  BY Zenon, <1>1, <1>5, <1>6, OthersAttend

\* Everything else that the dispatcher, the loop and the process do.
LEMMA ProcessAttends ==
  ASSUME Inv, Attended,
         \/ Execute \/ (\E j \in Job : JobEnds(j)) \/ Shutdown \/ Restart
  PROVE  Attended'
<1>1. CASE Wake \/ Stop \/ ExecuteStarts
  <2>1. /\ NoFault /\ UNCHANGED <<created, runStatus, submitting, claimed>>
        /\ dispatcher' # "select"
        /\ dispatcher \in {"begin", "run"} => dispatcher' \in {"begin", "run"}
    BY Zenon, <1>1 DEF Wake, Stop, ExecuteStarts, DispatcherAt, tables, calls, NoFault, ManagerOnly
  <2>2. \A r \in Run : HasAttention(r) => HasAttention(r)'
    BY Zenon, <2>1 DEF HasAttention
  <2>. QED
    BY Zenon, <2>1, <2>2, OthersAttend
<1>2. CASE Loop \/ (\E j \in Job : JobEnds(j)) \/ Shutdown
  <2>1. /\ NoFault \/ Fault
        /\ UNCHANGED <<created, runStatus, submitting, claimed, dispatcher, wake>>
    BY Zenon, <1>2 DEF Loop, JobEnds, Shutdown, UpdateJob, NoFault, tables, calls, ManagerOnly
  <2>2. \A r \in Run : HasAttention(r) => HasAttention(r)'
    BY Zenon, <2>1 DEF HasAttention
  <2>. QED
    BY Zenon, <2>1, <2>2, OthersAttend
<1>3. CASE PrepareFails
  BY Zenon, <1>3, FinishAttends DEF PrepareFails, RunTerminal
<1>4. CASE ExecuteEnds
  <2>1. VerdictOf \in RunTerminal
    BY Zenon DEF VerdictOf, RunTerminal
  <2>2. PICK v \in RunTerminal : v = VerdictOf
    BY Zenon, <2>1
  <2>3. FinishRun(v) /\ dispatcher = "run"
    BY Zenon, <1>4, <2>2 DEF ExecuteEnds
  <2>. QED
    BY Zenon, <2>3, FinishAttends
<1>5. CASE Restart
  <2>1. /\ NoFault /\ UNCHANGED created /\ wake' = TRUE
        /\ \A r \in Run : runStatus'[r] # "RUNNING" /\ (runStatus'[r] = "QUEUED" => runStatus[r] = "QUEUED")
    BY Zenon, <1>5 DEF Restart, RecoverRuns, NoFault
  <2>2. \A r \in Run : HasAttention(r)'
    BY Zenon, <2>1 DEF HasAttention
  <2>. QED
    BY Zenon, <2>1, <2>2, OthersAttend
<1>. QED
  BY Zenon, <1>1, <1>2, <1>3, <1>4, <1>5, ClaimAttends DEF Execute

\* Neither a dropped token, nor a cancellation, nor a crash leaves a run that
\* nobody attends to, as long as no call of the store fails.
THEOREM RunsAreAttended == Spec => []RunIsAttended
<1>1. Init => Attended
  <2>. SUFFICES ASSUME Init PROVE Attended
    BY Zenon
  <2>1. faults \in Nat
    BY Zenon DEF Init
  <2>2. /\ wake = TRUE
        /\ \A r \in Run : /\ runStatus[r] # "RUNNING"
                          /\ runStatus[r] = "QUEUED" => r \in Range(created)
    BY Zenon DEF Init
  <2>3. Range(created) = Listed
    BY Zenon DEF Range, Listed
  <2>. QED
    BY Zenon, <2>1, <2>2, <2>3 DEF Attended, RunIsAttended
<1>2. Inv /\ Attended /\ [Next]_vars => Attended'
  <2>. SUFFICES ASSUME Inv, Attended, [Next]_vars PROVE Attended'
    BY Zenon
  <2>1. CASE UNCHANGED vars
    BY Zenon, <2>1 DEF vars, tables, calls, bounds, Attended, RunIsAttended, Listed
  <2>. QED
    BY Zenon, <2>1, SubmitAttends, CallsAttend, ProcessAttends DEF Next
<1>3. Attended => RunIsAttended
  BY Zenon DEF Attended
<1>. QED
  BY <1>1, <1>2, <1>3, InvInit, InvHolds, PTL DEF Spec
=============================================================================
