------------------------- MODULE SharedSignInProofs -------------------------
(***************************************************************************)
(* Proofs about OfflineRepair and SharedSignIn: types, that a repair which *)
(* is not completed gives nobody an identifier to sign in with and a       *)
(* completed one gives everybody theirs, and that no sign-in under way     *)
(* overtakes it.                                                           *)
(***************************************************************************)
EXTENDS SharedSignIn, TLAPS

-----------------------------------------------------------------------------
(* Types *)

\* The batch in hand exists while batches are being worked on; cancel() has
\* none left when it is through with them.
AtInv ==
    \A r \in Runner :
        runner[r].pc \notin {"reopen", "abandon", "finish"} => runner[r].at \in Batch

\* The statuses that a command or a job writes from are those of an operation
\* that was not over; a cleanup is of one that is.
FromInv ==
    /\ \A r \in Runner : runner[r].pc = "start" => runner[r].from \notin Terminal
    /\ \A w \in Worker :
          /\ worker[w].pc \in {"attach", "move"} => worker[w].from \notin Terminal
          /\ worker[w].pc = "ungate" =>
                worker[w].from \in Terminal /\ op.status = worker[w].from

TypeInv == TypeOK /\ AtInv /\ FromInv

\* An active replacement is behind the gate until the repair is completed.
GateInv ==
    \A b \in Batch :
        target[b].status = "active" => target[b].gated \/ op.status = "completed"

RepairInv == TypeInv /\ GateInv

\* What a step does to the operation: a terminal status stays.
Stays == op.status \in Terminal => op'.status = op.status

\* There is a first and a last batch.
LEMMA BatchFacts == 1 \in Batch /\ Batches \in Batch /\ Batches \in Nat
BY BoundsAssumption DEF Batch

\* Nothing is under way at first.
LEMMA InitRepairInv == Init => RepairInv
BY BatchFacts, BoundsAssumption DEF Init, RepairInv, TypeInv, TypeOK, AtInv,
    FromInv, GateInv, Operation, OperationStatus, Terminal, Conflict, Target,
    BatchStatus, RunnerState, WorkerState, IdleRunner, IdleWorker, Batch

\* A new status for the operation leaves an operation.
LEMMA OperationType ==
    ASSUME TypeOK, NEW s \in OperationStatus
    PROVE  [op EXCEPT !.status = s] \in Operation
BY DEF TypeOK, Operation

\* A command that writes nothing but the operation, and moves on.
LEMMA CommandMoves ==
    ASSUME RepairInv, NEW r \in Runner, NEW q \in RunnerState,
           op' \in Operation, Stays,
           runner' = [runner EXCEPT ![r] = q],
           q.pc \notin {"reopen", "abandon", "finish"} => q.at \in Batch,
           q.pc = "start" => q.from \notin Terminal,
           UNCHANGED <<batch, target, account, worker>>,
           conflict' \in Conflict, events' \subseteq Terminal, faults' \in 0..MaxFaults
    PROVE  RepairInv'
<1>1. TypeOK'
  BY DEF RepairInv, TypeInv, TypeOK
<1>2. AtInv'
  BY DEF RepairInv, TypeInv, TypeOK, AtInv
<1>3. FromInv'
  BY DEF RepairInv, TypeInv, TypeOK, FromInv, Stays
<1>4. GateInv'
  BY DEF RepairInv, GateInv, Stays, Terminal
<1> QED BY <1>1, <1>2, <1>3, <1>4 DEF RepairInv, TypeInv

\* A command that writes a batch, and moves on.
LEMMA BatchMoves ==
    ASSUME RepairInv, NEW r \in Runner, NEW q \in RunnerState,
           runner' = [runner EXCEPT ![r] = q],
           q.pc \notin {"reopen", "abandon", "finish"} => q.at \in Batch,
           q.pc # "start",
           UNCHANGED <<op, conflict, events, worker, faults>>,
           batch' \in [Batch -> [ status : BatchStatus, expired : BOOLEAN ]],
           target' \in [Batch -> Target],
           account' \in [Batch -> {"original", "replacement"}],
           \A b \in Batch : target'[b].status = "active" =>
                target'[b] = target[b] \/ target'[b].gated
    PROVE  RepairInv'
<1>1. TypeOK'
  BY DEF RepairInv, TypeInv, TypeOK
<1>2. AtInv'
  BY DEF RepairInv, TypeInv, TypeOK, AtInv
<1>3. FromInv'
  BY DEF RepairInv, TypeInv, TypeOK, FromInv
<1>4. GateInv'
  BY DEF RepairInv, GateInv
<1> QED BY <1>1, <1>2, <1>3, <1>4 DEF RepairInv, TypeInv

\* A job that writes nothing but the operation, and moves on.
LEMMA JobMoves ==
    ASSUME RepairInv, NEW w \in Worker, NEW j \in WorkerState,
           op' \in Operation, Stays,
           worker' = [worker EXCEPT ![w] = j],
           j.pc \in {"attach", "move"} => j.from \notin Terminal,
           j.pc = "ungate" => j.from \in Terminal /\ op'.status = j.from,
           UNCHANGED <<conflict, batch, target, account, runner>>,
           events' \subseteq Terminal, faults' \in 0..MaxFaults
    PROVE  RepairInv'
<1>1. TypeOK'
  BY DEF RepairInv, TypeInv, TypeOK
<1>2. AtInv'
  BY DEF RepairInv, TypeInv, AtInv
<1>3. FromInv'
  BY DEF RepairInv, TypeInv, TypeOK, FromInv, Stays
<1>4. GateInv'
  BY DEF RepairInv, GateInv, Stays, Terminal
<1> QED BY <1>1, <1>2, <1>3, <1>4 DEF RepairInv, TypeInv

-----------------------------------------------------------------------------
(* Commands *)

\* The next batch of a phase is one of the manifest's.
LEMMA AdvanceTo ==
    ASSUME TypeOK, NEW r \in Runner, runner[r].at \in Batch,
           NEW pc \in {"prepare", "activate"}, NEW next \in {"activate", "finalize"},
           Advance(r, pc, next)
    PROVE  \E q \in RunnerState : /\ runner' = [runner EXCEPT ![r] = q]
                                  /\ q.at \in Batch
                                  /\ q.pc \in {pc, next}
<1> DEFINE x == IF runner[r].at < Batches THEN pc ELSE next
           y == IF runner[r].at < Batches THEN runner[r].at + 1 ELSE 1
           d == runner[r]
<1>1. x \in {pc, next} /\ y \in Batch /\ y \in 0..(Batches + 1) /\ d \in RunnerState
  BY BatchFacts DEF TypeOK, Batch
<1>2. runner' = [runner EXCEPT ![r].pc = x, ![r].at = y]
  BY DEF Advance
<1>3. runner' = [runner EXCEPT ![r] = [d EXCEPT !.pc = x, !.at = y]]
  <2> HIDE DEF x, y
  <2> QED BY <1>2 DEF TypeOK
<1> HIDE DEF x, y, d
<1>4. [d EXCEPT !.pc = x, !.at = y] \in RunnerState
  BY <1>1 DEF RunnerState
<1>5. /\ [d EXCEPT !.pc = x, !.at = y].pc = x
      /\ [d EXCEPT !.pc = x, !.at = y].at = y
  BY <1>1 DEF RunnerState
<1> QED BY <1>1, <1>3, <1>4, <1>5

\* A command that moves on within a batch.
LEMMA StepTo ==
    ASSUME TypeOK, NEW r \in Runner, NEW pc,
           pc \in {"idle", "prepare", "activating", "applyFailed", "complete",
                   "cancel", "abandon", "finish", "cancelFailed"}
    PROVE  /\ [runner[r] EXCEPT !.pc = pc] \in RunnerState
           /\ [runner[r] EXCEPT !.pc = pc].pc = pc
           /\ [runner[r] EXCEPT !.pc = pc].at = runner[r].at
           /\ [runner EXCEPT ![r].pc = pc]
                 = [runner EXCEPT ![r] = [runner[r] EXCEPT !.pc = pc]]
BY DEF TypeOK, RunnerState

\* A command that has ended, or that failed and has its catch block to run.
LEMMA EndedType ==
    ASSUME NEW pc \in {"idle", "applyFailed", "cancelFailed"}
    PROVE  /\ [IdleRunner EXCEPT !.pc = pc] \in RunnerState
           /\ [IdleRunner EXCEPT !.pc = pc].pc = pc
           /\ [IdleRunner EXCEPT !.pc = pc].at \in Batch
           /\ IdleRunner \in RunnerState /\ IdleRunner.pc = "idle"
           /\ IdleRunner.at \in Batch
BY BatchFacts DEF IdleRunner, RunnerState, OperationStatus, BatchStatus, Batch

\* apply() up to the batches.
LEMMA ApplyKeeps ==
    ASSUME RepairInv, NEW r \in Runner, Apply(r) \/ StartApplying(r)
    PROVE  RepairInv'
<1>0. /\ TypeOK /\ runner[r] \in RunnerState /\ op \in Operation
      /\ runner[r].pc \notin {"reopen", "abandon", "finish"} => runner[r].at \in Batch
  BY DEF RepairInv, TypeInv, TypeOK, AtInv
<1>1. CASE Apply(r)
  <2> DEFINE s == op.status
             x == IF op.status \in {"pending", "failed-retryable"}
                  THEN "start" ELSE "prepare"
             d == runner[r]
             q == [d EXCEPT !.from = s, !.pc = x]
  <2>1. /\ s \in OperationStatus /\ s \notin Terminal /\ x \in {"start", "prepare"}
        /\ d \in RunnerState /\ d.at \in Batch
    BY <1>0, <1>1 DEF Apply, Resumable, Operation
  <2>2. runner' = [runner EXCEPT ![r] = q]
    BY <1>0, <1>1 DEF Apply, TypeOK
  <2> HIDE DEF s, x, d
  <2>3. q \in RunnerState
    BY <2>1 DEF RunnerState
  <2>4. q.at = d.at /\ q.pc = x /\ q.from = s
    BY <2>1 DEF RunnerState
  <2> HIDE DEF q
  <2> QED BY <1>0, <1>1, <2>1, <2>2, <2>3, <2>4, CommandMoves
          DEF Apply, documents, Stays, TypeOK
<1>2. CASE StartApplying(r)
  <2>1. op' \in Operation
    BY <1>0, <1>2, OperationType DEF StartApplying, OperationStatus
  <2>2. Stays
    BY <1>2 DEF StartApplying, Stays, RepairInv, TypeInv, FromInv
  <2>3. runner[r].at \in Batch
    BY <1>0, <1>2 DEF StartApplying
  <2> DEFINE q == [runner[r] EXCEPT !.pc = "prepare"]
  <2>4. /\ q \in RunnerState /\ q.pc = "prepare" /\ q.at \in Batch
        /\ runner' = [runner EXCEPT ![r] = q]
    BY <1>0, <1>2, <2>3, StepTo DEF StartApplying
  <2> HIDE DEF q
  <2> QED BY <1>0, <1>2, <2>1, <2>2, <2>4, CommandMoves DEF StartApplying, TypeOK
<1> QED BY <1>1, <1>2

\* The batches of apply().
LEMMA BatchesKeep ==
    ASSUME RepairInv, NEW r \in Runner,
           PrepareBatch(r) \/ ActivateBatch(r) \/ ActivateReservations(r)
    PROVE  RepairInv'
<1>0. /\ TypeOK /\ runner[r].at \in Batch
      /\ op \in Operation /\ conflict \in Conflict /\ events \subseteq Terminal
  BY DEF RepairInv, TypeInv, TypeOK, AtInv, PrepareBatch, ActivateBatch,
      ActivateReservations
<1> DEFINE b == runner[r].at
<1>s. ASSUME NEW pc \in {"applyFailed", "activating"},
             runner' = [runner EXCEPT ![r].pc = pc]
      PROVE  \E q \in RunnerState : /\ runner' = [runner EXCEPT ![r] = q]
                                    /\ q.at \in Batch
                                    /\ q.pc = pc
  BY <1>0, <1>s, StepTo
<1>a. ASSUME NEW pc \in {"prepare", "activate"}, NEW next \in {"activate", "finalize"},
             Advance(r, pc, next)
      PROVE  \E q \in RunnerState : /\ runner' = [runner EXCEPT ![r] = q]
                                    /\ q.at \in Batch
                                    /\ q.pc \in {pc, next}
  BY <1>0, <1>a, AdvanceTo
<1>q. ASSUME UNCHANGED <<op, conflict, events, worker, faults>>,
             batch' \in [Batch -> [ status : BatchStatus, expired : BOOLEAN ]],
             target' \in [Batch -> Target],
             account' \in [Batch -> {"original", "replacement"}],
             \A c \in Batch : target'[c].status = "active" =>
                  target'[c] = target[c] \/ target'[c].gated,
             NEW q \in RunnerState, runner' = [runner EXCEPT ![r] = q],
             q.at \in Batch, q.pc # "start"
      PROVE  RepairInv'
  BY <1>q, BatchMoves
<1>1. CASE PrepareBatch(r)
  <2>1. \/ UNCHANGED <<batch, target, account>>
        \/ /\ batch' = [batch EXCEPT ![b].status = "prepared"]
           /\ target' = [target EXCEPT ![b].status = "pending"]
           /\ account' = [account EXCEPT ![b] = "replacement"]
    BY <1>1 DEF PrepareBatch, SetAggregateIdentifier
  <2>2. /\ batch' \in [Batch -> [ status : BatchStatus, expired : BOOLEAN ]]
        /\ account' \in [Batch -> {"original", "replacement"}]
        /\ target' \in [Batch -> Target]
        /\ \A c \in Batch : target'[c].status = "active" => target'[c] = target[c]
    <3>1. CASE UNCHANGED <<batch, target, account>>
      BY <1>0, <3>1 DEF TypeOK
    <3>2. CASE ~ UNCHANGED <<batch, target, account>>
      <4>1. batch' \in [Batch -> [ status : BatchStatus, expired : BOOLEAN ]]
        BY <1>0, <2>1, <3>2 DEF TypeOK, BatchStatus
      <4>2. account' \in [Batch -> {"original", "replacement"}]
        BY <1>0, <2>1, <3>2 DEF TypeOK
      <4>3. target' \in [Batch -> Target]
        BY <1>0, <2>1, <3>2 DEF TypeOK, Target
      <4>4. ASSUME NEW c \in Batch, target'[c].status = "active"
            PROVE  target'[c] = target[c]
        BY <1>0, <2>1, <3>2, <4>4 DEF TypeOK, Target
      <4> QED BY <4>1, <4>2, <4>3, <4>4
    <3> QED BY <3>1, <3>2
  <2>3. UNCHANGED <<op, conflict, events, worker, faults>>
    BY <1>1 DEF PrepareBatch
  <2>4. Advance(r, "prepare", "activate")
        \/ runner' = [runner EXCEPT ![r].pc = "applyFailed"]
    BY <1>1 DEF PrepareBatch
  <2>5. PICK q \in RunnerState : /\ runner' = [runner EXCEPT ![r] = q]
                                 /\ q.at \in Batch
                                 /\ q.pc # "start"
    BY <2>4, <1>a, <1>s
  <2> QED BY <2>2, <2>3, <2>5, <1>q
<1>2. CASE ActivateBatch(r)
  <2>1. UNCHANGED <<op, conflict, events, worker, faults, batch, target, account>>
    BY <1>2 DEF ActivateBatch, documents
  <2>2. \/ Advance(r, "activate", "finalize")
        \/ runner' = [runner EXCEPT ![r].pc = "applyFailed"]
        \/ runner' = [runner EXCEPT ![r].pc = "activating"]
    BY <1>2 DEF ActivateBatch
  <2>3. PICK q \in RunnerState : /\ runner' = [runner EXCEPT ![r] = q]
                                 /\ q.at \in Batch
                                 /\ q.pc # "start"
    BY <2>2, <1>a, <1>s
  <2> QED BY <1>0, <2>1, <2>3, <1>q DEF TypeOK
<1>3. CASE ActivateReservations(r)
  <2>1. batch' \in [Batch -> [ status : BatchStatus, expired : BOOLEAN ]]
    BY <1>0, <1>3 DEF ActivateReservations, TypeOK, BatchStatus
  <2>2. /\ target' \in [Batch -> Target]
        /\ \A c \in Batch : target'[c].status = "active" =>
              target'[c] = target[c] \/ target'[c].gated
    BY <1>0, <1>3 DEF ActivateReservations, TypeOK, Target
  <2>3. UNCHANGED <<op, conflict, events, worker, faults, account>>
    BY <1>3 DEF ActivateReservations
  <2>4. PICK q \in RunnerState : /\ runner' = [runner EXCEPT ![r] = q]
                                 /\ q.at \in Batch
                                 /\ q.pc # "start"
    BY <1>3, <1>a DEF ActivateReservations
  <2> QED BY <1>0, <2>1, <2>2, <2>3, <2>4, <1>q DEF TypeOK
<1> QED BY <1>1, <1>2, <1>3

\* A command that writes the operation, the conflict or the events, and stays
\* with its batch or ends.
LEMMA CommandWrites ==
    ASSUME RepairInv, NEW r \in Runner, Stays,
           \E s \in OperationStatus, c \in {"not-required", "pending", "completed"},
              e \in Terminal \cup {None} :
              \/ op' = op
              \/ op' = [op EXCEPT !.status = s]
              \/ op' = [op EXCEPT !.status = s, !.cleanup = c, !.terminalEvent = e],
           NEW pc, pc \in {"idle", "complete", "cancel", "abandon", "finish"},
           \/ pc = "idle" /\ runner' = [runner EXCEPT ![r] = IdleRunner]
           \/ runner' = [runner EXCEPT ![r].pc = pc],
           pc \notin {"idle", "abandon", "finish"} => runner[r].at \in Batch,
           pc = "idle" => runner' = [runner EXCEPT ![r] = IdleRunner],
           UNCHANGED <<batch, target, account, worker, faults>>,
           conflict' \in Conflict, events' \subseteq Terminal
    PROVE  RepairInv'
<1>0. TypeOK /\ op \in Operation /\ faults' \in 0..MaxFaults
  BY DEF RepairInv, TypeInv, TypeOK
<1>1. op' \in Operation
  BY <1>0 DEF Operation
<1>2. CASE pc = "idle"
  BY <1>0, <1>1, <1>2, EndedType, CommandMoves
<1>3. CASE pc # "idle"
  <2> DEFINE q == [runner[r] EXCEPT !.pc = pc]
  <2>1. /\ q \in RunnerState /\ q.pc = pc /\ q.at = runner[r].at
        /\ runner' = [runner EXCEPT ![r] = q]
    BY <1>0, <1>3, StepTo
  <2> HIDE DEF q
  <2> QED BY <1>0, <1>1, <1>3, <2>1, CommandMoves
<1> QED BY <1>2, <1>3

\* The statuses a command may write over are those of an operation that is not
\* over, whatever it writes.
LEMMA OutcomesKeep ==
    ASSUME RepairInv, NEW r \in Runner,
           \/ BeginFinalizing(r) \/ CompleteParent(r) \/ ApplyFailed(r)
           \/ BeginAbandoning(r) \/ FinishFailedParent(r) \/ CancelFailed(r)
    PROVE  RepairInv'
<1>0. /\ TypeOK /\ conflict \in Conflict /\ events \subseteq Terminal
      /\ runner[r].pc \notin {"reopen", "abandon", "finish"} => runner[r].at \in Batch
  BY DEF RepairInv, TypeInv, TypeOK, AtInv
<1>1. CASE BeginFinalizing(r)
  <2>1. Stays /\ (op' = op \/ op' = [op EXCEPT !.status = "finalizing"])
    BY <1>0, <1>1 DEF BeginFinalizing, Stays, TypeOK, Operation, Terminal
  <2>2. /\ runner' = [runner EXCEPT ![r].pc = "complete"]
        /\ runner[r].at \in Batch
        /\ UNCHANGED <<conflict, batch, target, account, events, worker, faults>>
    BY <1>0, <1>1 DEF BeginFinalizing
  <2> QED BY <1>0, <2>1, <2>2, CommandWrites DEF OperationStatus
<1>2. CASE CompleteParent(r)
  <2>1. Stays /\ \/ op' = op
                 \/ op' = [op EXCEPT !.status = "completed", !.cleanup = "pending",
                                     !.terminalEvent = "completed"]
    BY <1>0, <1>2 DEF CompleteParent, Stays, TypeOK, Operation, Terminal
  <2>2. /\ runner' = [runner EXCEPT ![r] = IdleRunner]
        /\ UNCHANGED <<batch, target, account, worker, faults>>
        /\ conflict' \in Conflict /\ events' \subseteq Terminal
    BY <1>0, <1>2 DEF CompleteParent, Conflict, Terminal
  <2> QED BY <2>1, <2>2, CommandWrites DEF OperationStatus, Terminal
<1>3. CASE ApplyFailed(r)
  <2>1. Stays /\ (op' = op \/ op' = [op EXCEPT !.status = "failed-retryable"])
    BY <1>0, <1>3 DEF ApplyFailed, Stays, TypeOK, Operation, Terminal
  <2>2. /\ runner' = [runner EXCEPT ![r] = IdleRunner]
        /\ UNCHANGED <<conflict, batch, target, account, events, worker, faults>>
    BY <1>3 DEF ApplyFailed
  <2> QED BY <1>0, <2>1, <2>2, CommandWrites DEF OperationStatus
<1>4. CASE BeginAbandoning(r)
  <2>1. Stays /\ (op' = op \/ op' = [op EXCEPT !.status = "finalizing"])
    BY <1>0, <1>4 DEF BeginAbandoning, Stays, TypeOK, Operation, Terminal
  <2>2. /\ runner' = [runner EXCEPT ![r].pc = "finish"]
        /\ UNCHANGED <<conflict, batch, target, account, events, worker, faults>>
    BY <1>4 DEF BeginAbandoning
  <2> QED BY <1>0, <2>1, <2>2, CommandWrites DEF OperationStatus
<1>5. CASE FinishFailedParent(r)
  <2>1. Stays /\ \/ op' = op
                 \/ op' = [op EXCEPT !.status = "failed-terminal",
                             !.cleanup = "pending", !.terminalEvent = "failed-terminal"]
    BY <1>0, <1>5 DEF FinishFailedParent, Stays, TypeOK, Operation, Terminal
  <2>2. /\ runner' = [runner EXCEPT ![r] = IdleRunner]
        /\ UNCHANGED <<conflict, batch, target, account, worker, faults>>
        /\ events' \subseteq Terminal
    BY <1>0, <1>5 DEF FinishFailedParent, Terminal
  <2> QED BY <1>0, <2>1, <2>2, CommandWrites DEF OperationStatus, Terminal
<1>6. CASE CancelFailed(r)
  <2>1. Stays /\ (op' = op \/ op' = [op EXCEPT !.status = "failed-retryable"])
    BY <1>0, <1>6 DEF CancelFailed, Stays, TypeOK, Operation, Terminal
  <2>2. /\ runner' = [runner EXCEPT ![r] = IdleRunner]
        /\ UNCHANGED <<conflict, batch, target, account, events, worker, faults>>
    BY <1>6 DEF CancelFailed
  <2> QED BY <1>0, <2>1, <2>2, CommandWrites DEF OperationStatus
<1> QED BY <1>1, <1>2, <1>3, <1>4, <1>5, <1>6

\* cancel() up to the operation's end.
LEMMA CancelKeeps ==
    ASSUME RepairInv, NEW r \in Runner,
           Cancel(r) \/ BeginCancelling(r) \/ ReopenConflict(r)
    PROVE  RepairInv'
<1>0. /\ TypeOK /\ conflict \in Conflict /\ events \subseteq Terminal
      /\ op \in Operation /\ runner[r] \in RunnerState
      /\ runner[r].pc \notin {"reopen", "abandon", "finish"} => runner[r].at \in Batch
  BY DEF RepairInv, TypeInv, TypeOK, AtInv
<1>1. CASE Cancel(r)
  <2>1. /\ Stays /\ op' = op
        /\ runner' = [runner EXCEPT ![r].pc = "cancel"]
        /\ runner[r].at \in Batch
        /\ UNCHANGED <<conflict, batch, target, account, events, worker, faults>>
    BY <1>0, <1>1 DEF Cancel, documents, Stays
  <2> QED BY <1>0, <2>1, CommandWrites DEF OperationStatus
<1>2. CASE ReopenConflict(r)
  <2>1. /\ Stays /\ op' = op
        /\ runner' = [runner EXCEPT ![r].pc = "abandon"]
        /\ UNCHANGED <<batch, target, account, events, worker, faults>>
    BY <1>2 DEF ReopenConflict, Stays
  <2>2. conflict' \in Conflict
    BY <1>0, <1>2 DEF ReopenConflict, Conflict
  <2> QED BY <1>0, <2>1, <2>2, CommandWrites DEF OperationStatus
<1>3. CASE BeginCancelling(r)
  <2>1. op' \in Operation /\ Stays
    BY <1>0, <1>3, OperationType
       DEF BeginCancelling, OperationStatus, Stays, Operation, Terminal
  <2> DEFINE y == [b \in Batch |-> batch[b].status]
             d == runner[r]
             q == [d EXCEPT !.pc = "compensate", !.at = Batches, !.seen = y]
  <2>2. y \in [Batch -> BatchStatus] /\ d \in RunnerState /\ Batches \in 0..(Batches + 1)
    BY <1>0, BatchFacts DEF TypeOK
  <2>3. runner' = [runner EXCEPT ![r].pc = "compensate", ![r].at = Batches,
                                 ![r].seen = y]
    BY <1>3 DEF BeginCancelling
  <2>4. runner' = [runner EXCEPT ![r] = q]
    <3> HIDE DEF y
    <3> QED BY <1>0, <2>3 DEF TypeOK
  <2> HIDE DEF y, d
  <2>5. q \in RunnerState /\ q.pc = "compensate" /\ q.at = Batches
    BY <2>2 DEF RunnerState
  <2> HIDE DEF q
  <2>6. UNCHANGED <<conflict, batch, target, account, events, worker, faults>>
    BY <1>3 DEF BeginCancelling
  <2> QED BY <1>0, <2>1, <2>4, <2>5, <2>6, BatchFacts, CommandMoves DEF TypeOK
<1> QED BY <1>1, <1>2, <1>3

\* A batch is compensated: its reservation is released, and nothing activated.
LEMMA CompensateKeeps ==
    ASSUME RepairInv, NEW r \in Runner, CompensateBatch(r)
    PROVE  RepairInv'
<1>0. /\ TypeOK /\ runner[r].at \in Batch /\ runner[r] \in RunnerState
  BY DEF RepairInv, TypeInv, TypeOK, AtInv, CompensateBatch
<1> DEFINE b == runner[r].at
           x == IF b = 1 THEN "reopen" ELSE "compensate"
           y == b - 1
           d == runner[r]
<1>1. \/ /\ UNCHANGED <<batch, target, account>>
      \/ /\ batch' = [batch EXCEPT ![b].status = "compensated"]
         /\ target' = [target EXCEPT ![b] = [ status |-> "released", gated |-> FALSE ]]
         /\ account' = [account EXCEPT ![b] = "original"]
  BY DEF CompensateBatch, SetAggregateIdentifier
<1>2. /\ batch' \in [Batch -> [ status : BatchStatus, expired : BOOLEAN ]]
      /\ target' \in [Batch -> Target]
      /\ account' \in [Batch -> {"original", "replacement"}]
      /\ \A c \in Batch : target'[c].status = "active" => target'[c] = target[c]
  <2>1. CASE UNCHANGED <<batch, target, account>>
    BY <1>0, <2>1 DEF TypeOK
  <2>2. CASE ~ UNCHANGED <<batch, target, account>>
    <3>1. batch' \in [Batch -> [ status : BatchStatus, expired : BOOLEAN ]]
      BY <1>0, <1>1, <2>2 DEF TypeOK, BatchStatus
    <3>2. account' \in [Batch -> {"original", "replacement"}]
      BY <1>0, <1>1, <2>2 DEF TypeOK
    <3>3. target' \in [Batch -> Target]
      <4> DEFINE e == [ status |-> "released", gated |-> FALSE ]
      <4>1. e \in Target
        BY DEF Target
      <4>2. target' = [target EXCEPT ![b] = e]
        BY <1>1, <2>2
      <4> HIDE DEF e
      <4> QED BY <1>0, <4>1, <4>2 DEF TypeOK
    <3>4. ASSUME NEW c \in Batch, target'[c].status = "active"
          PROVE  target'[c] = target[c]
      BY <1>0, <1>1, <2>2, <3>4 DEF TypeOK, Target
    <3> QED BY <3>1, <3>2, <3>3, <3>4
  <2> QED BY <2>1, <2>2
<1>3. UNCHANGED <<op, conflict, events, worker, faults>>
  BY DEF CompensateBatch
<1>4. CASE runner' = [runner EXCEPT ![r].pc = "cancelFailed"]
  <2> DEFINE q == [runner[r] EXCEPT !.pc = "cancelFailed"]
  <2>1. /\ q \in RunnerState /\ q.pc = "cancelFailed" /\ q.at \in Batch
        /\ runner' = [runner EXCEPT ![r] = q]
    BY <1>0, <1>4, StepTo
  <2> HIDE DEF q
  <2> QED BY <1>2, <1>3, <2>1, BatchMoves
<1>5. CASE runner' # [runner EXCEPT ![r].pc = "cancelFailed"]
  <2>1. runner' = [runner EXCEPT ![r].at = y, ![r].pc = x]
    BY <1>0, <1>5 DEF CompensateBatch, TypeOK
  <2> DEFINE q == [d EXCEPT !.at = y, !.pc = x]
  <2>2. /\ d \in RunnerState /\ y \in 0..(Batches + 1) /\ x \in {"reopen", "compensate"}
        /\ x = "compensate" => y \in Batch
    BY <1>0, BatchFacts DEF Batch
  <2> HIDE DEF x, y
  <2>3. runner' = [runner EXCEPT ![r] = q]
    BY <1>0, <2>1 DEF TypeOK
  <2> HIDE DEF d
  <2>4. q \in RunnerState /\ q.pc = x /\ q.at = y
    BY <2>2 DEF RunnerState
  <2> HIDE DEF q
  <2>5. q.pc \notin {"reopen", "abandon", "finish"} => q.at \in Batch
    BY <2>2, <2>4
  <2>6. q.pc # "start"
    BY <2>2, <2>4
  <2> QED BY <1>2, <1>3, <2>3, <2>4, <2>5, <2>6, BatchMoves
<1> QED BY <1>4, <1>5

\* A command that fails has at most its catch block left to run.
LEMMA FailedTo ==
    ASSUME NEW r \in Runner, FailRunner(r)
    PROVE  \/ runner' = [runner EXCEPT ![r] = [IdleRunner EXCEPT !.pc = "applyFailed"]]
           \/ runner' = [runner EXCEPT ![r] = [IdleRunner EXCEPT !.pc = "cancelFailed"]]
           \/ runner' = [runner EXCEPT ![r] = IdleRunner]
<1>1. CASE runner[r].pc \in {"prepare", "activate", "activating", "finalize",
                             "complete"}
  BY <1>1 DEF FailRunner
<1>2. CASE runner[r].pc \in {"compensate", "reopen", "abandon", "finish"}
  BY <1>2 DEF FailRunner
<1>3. CASE runner[r].pc \notin {"prepare", "activate", "activating", "finalize",
              "complete", "compensate", "reopen", "abandon", "finish"}
  BY <1>3 DEF FailRunner
<1> QED BY <1>1, <1>2, <1>3

LEMMA FailRunnerKeeps ==
    ASSUME RepairInv, NEW r \in Runner, FailRunner(r)
    PROVE  RepairInv'
<1>0. /\ TypeOK /\ op \in Operation /\ conflict \in Conflict
      /\ events \subseteq Terminal /\ faults' \in 0..MaxFaults
  BY BoundsAssumption DEF RepairInv, TypeInv, TypeOK, FailRunner
<1>1. UNCHANGED <<op, conflict, batch, target, account, events, worker>> /\ Stays
  BY DEF FailRunner, documents, Stays
<1>2. \/ runner' = [runner EXCEPT ![r] = [IdleRunner EXCEPT !.pc = "applyFailed"]]
      \/ runner' = [runner EXCEPT ![r] = [IdleRunner EXCEPT !.pc = "cancelFailed"]]
      \/ runner' = [runner EXCEPT ![r] = IdleRunner]
  BY FailedTo
<1> QED BY <1>0, <1>1, <1>2, EndedType, CommandMoves

-----------------------------------------------------------------------------
(* The reconciliation job *)

\* A job that moves on.
LEMMA JobTo ==
    ASSUME TypeOK, NEW w \in Worker, NEW pc,
           pc \in {"move", "record", "finish", "close", "leave"}
    PROVE  /\ [worker[w] EXCEPT !.pc = pc] \in WorkerState
           /\ [worker[w] EXCEPT !.pc = pc].pc = pc
           /\ [worker[w] EXCEPT !.pc = pc].from = worker[w].from
           /\ [worker EXCEPT ![w].pc = pc]
                 = [worker EXCEPT ![w] = [worker[w] EXCEPT !.pc = pc]]
           /\ IdleWorker \in WorkerState /\ IdleWorker.pc = "idle"
BY DEF TypeOK, WorkerState, IdleWorker, OperationStatus

\* A job that writes nothing but the operation, with the step that follows.
LEMMA JobStep ==
    ASSUME RepairInv, NEW w \in Worker, NEW pc,
           pc \in {"move", "record", "finish", "close", "leave"},
           worker' = [worker EXCEPT ![w].pc = pc],
           pc = "move" => worker[w].from \notin Terminal,
           op' \in Operation, Stays,
           UNCHANGED <<conflict, batch, target, account, runner>>,
           events' \subseteq Terminal, faults' \in 0..MaxFaults
    PROVE  RepairInv'
<1>1. TypeOK
  BY DEF RepairInv, TypeInv
<1> DEFINE j == [worker[w] EXCEPT !.pc = pc]
<1>2. /\ j \in WorkerState /\ j.pc = pc /\ j.from = worker[w].from
      /\ worker' = [worker EXCEPT ![w] = j]
  BY <1>1, JobTo
<1> HIDE DEF j
<1>3. (j.pc \in {"attach", "move"} => j.from \notin Terminal) /\ j.pc # "ungate"
  BY <1>2
<1> QED BY <1>2, <1>3, JobMoves

\* Claiming and recovering an operation.
LEMMA RecoverKeeps ==
    ASSUME RepairInv, NEW w \in Worker,
           \/ Claim(w) \/ AttachMissingReferences(w) \/ Move(w)
           \/ RecordRecovered(w) \/ FinishRecovered(w)
    PROVE  RepairInv'
<1>0. /\ TypeOK /\ op \in Operation /\ worker[w] \in WorkerState
      /\ events \subseteq Terminal /\ faults \in 0..MaxFaults
      /\ worker[w].pc \in {"attach", "move"} => worker[w].from \notin Terminal
  BY DEF RepairInv, TypeInv, TypeOK, FromInv
<1>1. CASE Claim(w)
  <2> DEFINE j == [ from |-> op.status,
                    pc |-> IF op.status \in Terminal THEN "ungate" ELSE "attach" ]
  <2>1. /\ j \in WorkerState
        /\ j.pc \in {"attach", "move"} => j.from \notin Terminal
        /\ j.pc = "ungate" => j.from \in Terminal /\ op.status = j.from
    BY <1>0 DEF Operation, WorkerState
  <2>2. worker' = [worker EXCEPT ![w] = j]
    BY <1>1 DEF Claim
  <2> HIDE DEF j
  <2>3. op' \in Operation /\ op'.status = op.status
    BY <1>0, <1>1 DEF Claim, Operation
  <2>4. UNCHANGED <<conflict, batch, target, account, events, runner, faults>>
    BY <1>1 DEF Claim
  <2> QED BY <1>0, <2>1, <2>2, <2>3, <2>4, JobMoves DEF Stays
<1>2. CASE AttachMissingReferences(w)
  <2> DEFINE pc == IF worker[w].from = "finalizing" THEN "record" ELSE "move"
  <2>1. \/ op' = op
        \/ /\ op.status = worker[w].from
           /\ op' = [op EXCEPT !.status = "failed-retryable"]
    BY <1>2 DEF AttachMissingReferences
  <2>2. op' \in Operation /\ Stays
    BY <1>0, <1>2, <2>1, OperationType
       DEF OperationStatus, Stays, AttachMissingReferences
  <2>3. /\ worker' = [worker EXCEPT ![w].pc = pc]
        /\ worker[w].from \notin Terminal
        /\ UNCHANGED <<conflict, batch, target, account, events, runner, faults>>
    BY <1>0, <1>2 DEF AttachMissingReferences
  <2>4. pc \in {"move", "record"}
    OBVIOUS
  <2> HIDE DEF pc
  <2> QED BY <1>0, <2>2, <2>3, <2>4, JobStep
<1>3. CASE Move(w)
  <2>1. NextStatus(worker[w].from) \in OperationStatus
    BY DEF NextStatus, OperationStatus
  <2>2. op' \in Operation /\ Stays
    BY <1>0, <1>3, <2>1, OperationType DEF Move, Stays
  <2>3. /\ worker' = [worker EXCEPT ![w].pc = "leave"]
        /\ UNCHANGED <<conflict, batch, target, account, events, runner, faults>>
    BY <1>3 DEF Move
  <2> QED BY <1>0, <2>2, <2>3, JobStep
<1>4. CASE RecordRecovered(w)
  <2>1. /\ op' \in Operation /\ Stays /\ events' \subseteq Terminal
        /\ worker' = [worker EXCEPT ![w].pc = "finish"]
        /\ UNCHANGED <<conflict, batch, target, account, runner, faults>>
    BY <1>0, <1>4 DEF RecordRecovered, Stays, Terminal
  <2> QED BY <1>0, <2>1, JobStep
<1>5. CASE FinishRecovered(w)
  <2>1. op' \in Operation /\ Stays
    BY <1>0, <1>5 DEF FinishRecovered, Stays, Operation, OperationStatus, Terminal
  <2>2. /\ worker' = [worker EXCEPT ![w].pc = "leave"]
        /\ UNCHANGED <<conflict, batch, target, account, events, runner, faults>>
    BY <1>5 DEF FinishRecovered
  <2> QED BY <1>0, <2>1, <2>2, JobStep
<1> QED BY <1>1, <1>2, <1>3, <1>4, <1>5

\* The cleanup opens a gate only with the repair completed, or releases what was
\* behind it.
LEMMA CleanupKeeps ==
    ASSUME RepairInv, NEW w \in Worker, Cleanup(w)
    PROVE  RepairInv'
<1>0. /\ TypeOK /\ AtInv /\ FromInv /\ worker[w].pc = "ungate"
      /\ worker[w].from \in Terminal /\ op.status = worker[w].from
  BY DEF RepairInv, TypeInv, FromInv, Cleanup
<1>1. PICK G \in SUBSET {b \in Batch : target[b].gated},
           B \in SUBSET {b \in Batch : batch[b].status # "absent" /\ ~batch[b].expired} :
        /\ target' = [b \in Batch |->
              IF b \notin G THEN target[b]
              ELSE [ status |-> IF worker[w].from = "failed-terminal"
                                THEN "released" ELSE target[b].status,
                     gated |-> FALSE ]]
        /\ batch' = [b \in Batch |->
              IF b \in B THEN [batch[b] EXCEPT !.expired = TRUE] ELSE batch[b]]
  BY Zenon DEF Cleanup
<1>2. worker' = [worker EXCEPT ![w].pc = "close"]
      /\ UNCHANGED <<op, conflict, account, events, runner, faults>>
  BY DEF Cleanup
<1>3. ASSUME NEW b \in Batch
      PROVE  /\ target'[b] \in Target
             /\ target'[b].status = "active" =>
                    target'[b] = target[b] \/ op.status = "completed"
  <2>1. target[b] \in Target
    BY <1>0 DEF TypeOK
  <2>2. CASE b \notin G
    BY <1>1, <2>1, <2>2
  <2>3. CASE b \in G
    <3>1. CASE worker[w].from = "failed-terminal"
      <4>1. target'[b] = [ status |-> "released", gated |-> FALSE ]
        BY <1>1, <2>3, <3>1
      <4> QED BY <4>1 DEF Target
    <3>2. CASE worker[w].from # "failed-terminal"
      <4>1. target'[b] = [ status |-> target[b].status, gated |-> FALSE ]
        BY <1>1, <2>3, <3>2
      <4>2. op.status = "completed"
        BY <1>0, <3>2 DEF Terminal
      <4> QED BY <2>1, <4>1, <4>2 DEF Target
    <3> QED BY <3>1, <3>2
  <2> QED BY <2>2, <2>3
<1>4. target' \in [Batch -> Target]
  <2>1. \A b \in Batch : target'[b] \in Target
    BY <1>3
  <2>2. target' = [b \in Batch |-> target'[b]]
    BY <1>1
  <2> QED BY <2>1, <2>2
<1>5. ASSUME NEW b \in Batch
      PROVE  batch'[b] \in [ status : BatchStatus, expired : BOOLEAN ]
  BY <1>0, <1>1 DEF TypeOK
<1>6. batch' \in [Batch -> [ status : BatchStatus, expired : BOOLEAN ]]
  BY <1>1, <1>5
<1>7. worker' \in [Worker -> WorkerState]
  BY <1>0, <1>2 DEF TypeOK, WorkerState
<1>8. TypeOK'
  BY <1>0, <1>2, <1>4, <1>6, <1>7 DEF TypeOK
<1>9. AtInv'
  BY <1>0, <1>2 DEF AtInv
<1>10. FromInv'
  BY <1>0, <1>2 DEF FromInv, TypeOK, WorkerState
<1>11. GateInv'
  BY <1>2, <1>3 DEF GateInv, RepairInv
<1> QED BY <1>8, <1>9, <1>10, <1>11 DEF RepairInv, TypeInv

\* The end of a job, the failure of one, and its lease.
LEMMA LeaveKeeps ==
    ASSUME RepairInv, NEW w \in Worker,
           CloseCleanup(w) \/ ReleaseLease(w) \/ FailWorker(w)
    PROVE  RepairInv'
<1>0. /\ TypeOK /\ op \in Operation /\ events \subseteq Terminal
      /\ faults \in 0..MaxFaults
  BY DEF RepairInv, TypeInv, TypeOK
<1>1. CASE CloseCleanup(w)
  <2>1. op' \in Operation /\ Stays
    BY <1>0, <1>1 DEF CloseCleanup, Stays, Operation
  <2>2. /\ worker' = [worker EXCEPT ![w].pc = "leave"]
        /\ UNCHANGED <<conflict, batch, target, account, events, runner, faults>>
    BY <1>1 DEF CloseCleanup
  <2> QED BY <1>0, <2>1, <2>2, JobStep
<1>2. CASE ReleaseLease(w)
  <2>1. op' \in Operation /\ Stays
    BY <1>0, <1>2 DEF ReleaseLease, Stays, Operation
  <2>2. /\ worker' = [worker EXCEPT ![w] = IdleWorker]
        /\ UNCHANGED <<conflict, batch, target, account, events, runner, faults>>
    BY <1>2 DEF ReleaseLease
  <2> QED BY <1>0, <2>1, <2>2, JobTo, JobMoves
<1>3. CASE FailWorker(w)
  <2>1. /\ UNCHANGED <<op, conflict, batch, target, account, events, runner>> /\ Stays
        /\ faults' \in 0..MaxFaults
    BY <1>0, <1>3, BoundsAssumption DEF FailWorker, documents, Stays
  <2>2. CASE worker' = [worker EXCEPT ![w] = IdleWorker]
    BY <1>0, <2>1, <2>2, JobTo, JobMoves
  <2>3. CASE worker' = [worker EXCEPT ![w].pc = "leave"]
    BY <1>0, <2>1, <2>3, JobStep
  <2> QED BY <1>3, <2>2, <2>3 DEF FailWorker
<1> QED BY <1>1, <1>2, <1>3

-----------------------------------------------------------------------------
(* Every step *)

\* The dry run, an expired lease and an account that takes a free identifier.
LEMMA OthersKeep ==
    ASSUME RepairInv, DryRun \/ ExpireLease \/ \E b \in Batch : TakeIdentifier(b)
    PROVE  RepairInv'
<1>0. /\ TypeOK /\ AtInv /\ FromInv /\ GateInv /\ op \in Operation
      /\ faults \in 0..MaxFaults
  BY DEF RepairInv, TypeInv, TypeOK
<1>1. CASE DryRun \/ ExpireLease
  <2>1. op' \in Operation /\ (op.status \in Terminal => op'.status = op.status)
    BY <1>0, <1>1 DEF DryRun, ExpireLease, Operation, OperationStatus, Terminal
  <2>2. faults' \in 0..MaxFaults
    BY <1>0, <1>1, BoundsAssumption DEF DryRun, ExpireLease
  <2>3. UNCHANGED <<conflict, batch, target, account, events, runner, worker>>
    BY <1>1 DEF DryRun, ExpireLease
  <2>4. TypeOK'
    BY <1>0, <2>1, <2>2, <2>3 DEF TypeOK
  <2>5. AtInv' /\ FromInv' /\ GateInv'
    BY <1>0, <2>1, <2>3 DEF AtInv, FromInv, GateInv, Terminal
  <2> QED BY <2>4, <2>5 DEF RepairInv, TypeInv
<1>2. CASE \E b \in Batch : TakeIdentifier(b)
  <2>1. PICK b \in Batch : TakeIdentifier(b)
    BY <1>2
  <2>2. /\ target' \in [Batch -> Target]
        /\ \A c \in Batch : target'[c].status = "active" => target'[c] = target[c]
    BY <1>0, <2>1 DEF TakeIdentifier, TypeOK, Target
  <2>3. UNCHANGED <<op, conflict, batch, account, events, runner, worker, faults>>
    BY <2>1 DEF TakeIdentifier
  <2>4. TypeOK'
    BY <1>0, <2>2, <2>3 DEF TypeOK
  <2>5. AtInv' /\ FromInv' /\ GateInv'
    BY <1>0, <2>2, <2>3 DEF AtInv, FromInv, GateInv
  <2> QED BY <2>4, <2>5 DEF RepairInv, TypeInv
<1> QED BY <1>1, <1>2

LEMMA NextRepairInv == RepairInv /\ [Next]_vars => RepairInv'
<1> SUFFICES ASSUME RepairInv, [Next]_vars PROVE RepairInv'
  OBVIOUS
<1>1. ASSUME NEW r \in Runner, Command(r) PROVE RepairInv'
  BY <1>1, ApplyKeeps, BatchesKeep, OutcomesKeep, CancelKeeps, CompensateKeeps
     DEF Command
<1>2. ASSUME NEW r \in Runner, FailRunner(r) PROVE RepairInv'
  BY <1>2, FailRunnerKeeps
<1>3. ASSUME NEW w \in Worker, Pass(w) PROVE RepairInv'
  BY <1>3, RecoverKeeps, CleanupKeeps, LeaveKeeps DEF Pass
<1>4. ASSUME NEW w \in Worker, FailWorker(w) PROVE RepairInv'
  BY <1>4, LeaveKeeps
<1>5. CASE UNCHANGED vars
  BY <1>5 DEF vars, documents, RepairInv, TypeInv, TypeOK, AtInv, FromInv, GateInv
<1> QED BY <1>1, <1>2, <1>3, <1>4, <1>5, OthersKeep DEF Next

\* A completed repair stays completed.
LEMMA CompletedStays ==
    ASSUME RepairInv, [Next]_vars, op.status = "completed"
    PROVE  op'.status = "completed"
<1>0. op \in Operation /\ FromInv
  BY DEF RepairInv, TypeInv, TypeOK
<1>1. ASSUME NEW r \in Runner, Command(r) PROVE op'.status = "completed"
  <2>1. op' = op \/ StartApplying(r)
    BY <1>0, <1>1 DEF Command, Apply, PrepareBatch, ActivateBatch, ActivateReservations,
        BeginFinalizing, CompleteParent, ApplyFailed, Cancel, BeginCancelling,
        CompensateBatch, ReopenConflict, BeginAbandoning, FinishFailedParent,
        CancelFailed, documents
  <2> QED BY <1>0, <2>1 DEF StartApplying, FromInv, Terminal
<1>2. ASSUME NEW w \in Worker, Pass(w) PROVE op'.status = "completed"
  <2>1. CASE Claim(w)
    BY <1>0, <2>1 DEF Claim, Operation
  <2>2. CASE AttachMissingReferences(w)
    BY <1>0, <2>2 DEF AttachMissingReferences, FromInv, Terminal
  <2>3. CASE Move(w)
    BY <1>0, <2>3 DEF Move, FromInv, Terminal
  <2>4. CASE RecordRecovered(w) \/ FinishRecovered(w) \/ Cleanup(w)
    BY <1>0, <2>4 DEF RecordRecovered, FinishRecovered, Cleanup
  <2>5. CASE CloseCleanup(w) \/ ReleaseLease(w)
    BY <1>0, <2>5 DEF CloseCleanup, ReleaseLease, Operation
  <2> QED BY <1>2, <2>1, <2>2, <2>3, <2>4, <2>5 DEF Pass
<1>3. ASSUME \/ \E r \in Runner : FailRunner(r)
             \/ \E w \in Worker : FailWorker(w)
             \/ \E b \in Batch : TakeIdentifier(b)
             \/ UNCHANGED vars
      PROVE op'.status = "completed"
  BY <1>3 DEF FailRunner, FailWorker, TakeIdentifier, documents, vars
<1>4. CASE ExpireLease
  BY <1>0, <1>4 DEF ExpireLease, Operation
<1>5. CASE DryRun
  BY <1>5 DEF DryRun
<1> QED BY <1>1, <1>2, <1>3, <1>4, <1>5 DEF Next

-----------------------------------------------------------------------------
(* The repair *)

\* Every variable of the repair has its type, for any number of batches, commands
\* and jobs, and with any number of failures.
THEOREM RepairTypes == Spec => []TypeOK
<1>1. RepairInv => TypeOK
  BY DEF RepairInv, TypeInv
<1> QED BY <1>1, InitRepairInv, NextRepairInv, PTL DEF Spec

\* A repair takes effect at once: as long as it is not completed no account signs
\* in with its replacement (completeParent, cleanup, the gates).
THEOREM RepairUnlocksAtOnce == Spec => []NoPartialOwnership
<1>1. RepairInv => NoPartialOwnership
  BY DEF RepairInv, GateInv, NoPartialOwnership, SignsIn
<1> QED BY <1>1, InitRepairInv, NextRepairInv, PTL DEF Spec

-----------------------------------------------------------------------------
(***************************************************************************)
(* One command at a time.  The two commands of the procedure are run by an *)
(* administrator, one after the other, beside any number of reconciliation *)
(* jobs; two of them at once can complete and compensate the same batches. *)
(* Under that hypothesis a batch, its reservation and its account move     *)
(* together, and what a command has done so far can be read off where it   *)
(* is.                                                                     *)
(***************************************************************************)

SingleRunner == \A r, s \in Runner : r = s

Undone == {"absent", "compensated"}

\* A batch, the replacement reserved for it and the identifier of its account.
LinkInv ==
    \A b \in Batch :
        /\ batch[b].status \in Undone =>
              /\ account[b] = "original" /\ ~target[b].gated
              /\ target[b].status \notin {"pending", "active"}
        /\ batch[b].status = "prepared" =>
              /\ account[b] = "replacement" /\ ~target[b].gated
              /\ target[b].status = "pending"
        /\ batch[b].status = "activated" =>
              account[b] = "replacement" /\ target[b].status = "active"

\* How far apply() has come, with the command in state q.
ApplyAt(q) ==
    /\ q.pc \in {"idle", "start"} => q.at = 1
    /\ q.pc = "prepare" => \A b \in Batch : b < q.at => batch[b].status # "absent"
    /\ q.pc \in {"activate", "activating"} =>
          \A b \in Batch : /\ batch[b].status # "absent"
                           /\ b < q.at => batch[b].status = "activated"
    /\ q.pc = "activating" => batch[q.at].status = "prepared"
    /\ q.pc \in {"finalize", "complete"} =>
          \A b \in Batch : batch[b].status = "activated"

\* How far cancel() has come: it read the batches still to be compensated.
CancelAt(q) ==
    /\ q.pc = "compensate" =>
          \A b \in Batch : /\ b <= q.at => q.seen[b] = batch[b].status
                           /\ b > q.at => batch[b].status \in Undone
    /\ q.pc \in {"reopen", "abandon", "finish"} =>
          \A b \in Batch : batch[b].status \in Undone

CommandInv == \A r \in Runner : ApplyAt(runner[r]) /\ CancelAt(runner[r])

\* A repair that a command has ended is over for it: all of it is done, or
\* nothing is.
EndInv ==
    /\ op.cleanup # "not-required" =>
          op.status \in Terminal /\ \A r \in Runner : runner[r].pc = "idle"
    /\ op.status = "completed" =>
          /\ op.cleanup # "not-required"
          /\ \A b \in Batch : batch[b].status = "activated"
    /\ op.status = "failed-terminal" /\ op.cleanup # "not-required" =>
          \A b \in Batch : batch[b].status \in Undone

\* A job cleans up what a command ended.
CleanupInv ==
    \A w \in Worker : worker[w].pc = "ungate" => op.cleanup # "not-required"

ProgressInv == LinkInv /\ CommandInv /\ EndInv /\ CleanupInv /\ CleanedUp

\* Nothing is under way at first.
LEMMA InitProgressInv == Init => ProgressInv
BY DEF Init, ProgressInv, LinkInv, CommandInv, ApplyAt, CancelAt, EndInv, CleanupInv,
    CleanedUp, Undone, IdleRunner, IdleWorker, Terminal, Batch

\* Where a command is after a step that moves it within a batch, ends it, or
\* takes it to the next batch.
LEMMA CommandAt ==
    ASSUME TypeOK, NEW r \in Runner, NEW pc
    PROVE  /\ runner' = [runner EXCEPT ![r].pc = pc] =>
                 /\ runner'[r].pc = pc
                 /\ runner'[r].at = runner[r].at /\ runner'[r].seen = runner[r].seen
           /\ runner' = [runner EXCEPT ![r] = [IdleRunner EXCEPT !.pc = pc]] =>
                 runner'[r].pc = pc /\ runner'[r].at = 1
           /\ runner' = [runner EXCEPT ![r] = IdleRunner] =>
                 runner'[r].pc = "idle" /\ runner'[r].at = 1
BY DEF TypeOK, RunnerState, IdleRunner

LEMMA AdvanceAt ==
    ASSUME TypeOK, NEW r \in Runner, runner[r].at \in Batch, NEW pc, NEW next,
           Advance(r, pc, next)
    PROVE  \/ /\ runner'[r].pc = pc /\ runner'[r].at = runner[r].at + 1
           \/ /\ runner'[r].pc = next /\ runner'[r].at = 1
              /\ runner[r].at = Batches
<1>1. runner[r] \in RunnerState /\ runner \in [Runner -> RunnerState]
  BY DEF TypeOK
<1>2. CASE runner[r].at < Batches
  BY <1>1, <1>2 DEF Advance, RunnerState
<1>3. CASE ~(runner[r].at < Batches)
  <2>1. runner[r].at = Batches
    BY <1>3, BatchFacts DEF Batch
  <2> QED BY <1>1, <1>3, <2>1 DEF Advance, RunnerState
<1> QED BY <1>2, <1>3

\* A command that leaves the operation as far from its end as it was.
LEMMA CommandProgress ==
    ASSUME SingleRunner, ProgressInv, NEW r \in Runner,
           runner[r].pc # "idle" \/ op.status \notin Terminal,
           op'.cleanup = op.cleanup, op'.status # "completed",
           worker' = worker, LinkInv', ApplyAt(runner[r])', CancelAt(runner[r])'
    PROVE  ProgressInv'
<1>1. op.cleanup = "not-required"
  BY DEF ProgressInv, EndInv
<1>2. CommandInv'
  BY DEF CommandInv, SingleRunner
<1>3. EndInv' /\ CleanedUp'
  BY <1>1 DEF EndInv, CleanedUp
<1>4. CleanupInv'
  BY <1>1 DEF CleanupInv, ProgressInv
<1> QED BY <1>2, <1>3, <1>4 DEF ProgressInv

\* A command under way, or one that may begin, finds the operation open.
LEMMA CommandFinds ==
    ASSUME ProgressInv, TypeOK, NEW r \in Runner,
           runner[r].pc # "idle" \/ op.status \notin Terminal
    PROVE  /\ op.status # "completed" /\ op.cleanup = "not-required"
           /\ LinkInv /\ ApplyAt(runner[r]) /\ CancelAt(runner[r])
           /\ op \in Operation /\ runner[r] \in RunnerState
BY DEF ProgressInv, EndInv, CommandInv, Terminal, TypeOK

\* A command that leaves the batches alone keeps them linked.
LEMMA LinkStays ==
    ASSUME LinkInv, UNCHANGED <<batch, target, account>>
    PROVE  LinkInv'
BY DEF LinkInv

\* apply() up to the batches.
LEMMA ApplyProgress ==
    ASSUME SingleRunner, TypeOK, ProgressInv, NEW r \in Runner,
           Apply(r) \/ StartApplying(r)
    PROVE  ProgressInv'
<1>1. runner[r].pc # "idle" \/ op.status \notin Terminal
  BY DEF Apply, StartApplying, Resumable
<1>2. /\ op.status # "completed" /\ op.cleanup = "not-required" /\ LinkInv
      /\ ApplyAt(runner[r]) /\ op \in Operation /\ runner[r] \in RunnerState
  BY <1>1, CommandFinds
<1>3. /\ UNCHANGED <<batch, target, account, worker>>
      /\ op'.cleanup = op.cleanup /\ op'.status # "completed"
  BY <1>2 DEF Apply, StartApplying, documents, Operation
<1>4. LinkInv'
  BY <1>2, <1>3, LinkStays
<1>5. /\ runner'[r].pc \in {"start", "prepare"}
      /\ runner'[r].at = 1
  <2>1. runner[r].at = 1
    BY <1>2 DEF Apply, StartApplying, ApplyAt
  <2>2. CASE Apply(r)
    BY <1>2, <2>1, <2>2 DEF Apply, TypeOK, RunnerState
  <2>3. CASE StartApplying(r)
    BY <1>2, <2>1, <2>3 DEF StartApplying, TypeOK, RunnerState
  <2> QED BY <2>2, <2>3
<1>6. ApplyAt(runner[r])' /\ CancelAt(runner[r])'
  BY <1>5 DEF ApplyAt, CancelAt, Batch
<1> QED BY <1>1, <1>3, <1>4, <1>6, CommandProgress

\* A batch is prepared, or found to be.
LEMMA PrepareProgress ==
    ASSUME SingleRunner, TypeOK, AtInv, ProgressInv, NEW r \in Runner, PrepareBatch(r)
    PROVE  ProgressInv'
<1> DEFINE b == runner[r].at
<1>1. runner[r].pc = "prepare" /\ b \in Batch
  BY DEF PrepareBatch, AtInv
<1>2. /\ op.status # "completed" /\ LinkInv
      /\ ApplyAt(runner[r]) /\ op \in Operation /\ runner[r] \in RunnerState
  BY <1>1, CommandFinds
<1>3. op' = op /\ worker' = worker
  BY DEF PrepareBatch
<1>4. LinkInv' /\ \A c \in Batch :
          batch'[c].status = IF batch[c].status = "absent" /\ c = b
                                /\ runner' # [runner EXCEPT ![r].pc = "applyFailed"]
                             THEN "prepared" ELSE batch[c].status
  <2>1. CASE UNCHANGED <<batch, target, account>>
    <3>1. LinkInv'
      BY <1>2, <2>1, LinkStays
    <3>2. batch[b].status # "absent" \/ runner' = [runner EXCEPT ![r].pc = "applyFailed"]
      BY <1>1, <2>1 DEF PrepareBatch, TypeOK
    <3> QED BY <2>1, <3>1, <3>2
  <2>2. CASE ~UNCHANGED <<batch, target, account>>
    <3>1. /\ batch[b].status = "absent"
          /\ batch' = [batch EXCEPT ![b].status = "prepared"]
          /\ target' = [target EXCEPT ![b].status = "pending"]
          /\ account' = [account EXCEPT ![b] = "replacement"]
          /\ Advance(r, "prepare", "activate")
      BY <2>2 DEF PrepareBatch, SetAggregateIdentifier
    <3>2. runner' # [runner EXCEPT ![r].pc = "applyFailed"]
      <4>1. runner'[r].pc \in {"prepare", "activate"}
        BY <1>1, <3>1, AdvanceAt
      <4> QED BY <4>1, CommandAt
    <3>3. /\ batch'[b].status = "prepared" /\ account'[b] = "replacement"
          /\ target'[b].status = "pending" /\ target'[b].gated = target[b].gated
          /\ \A c \in Batch \ {b} : /\ batch'[c] = batch[c] /\ account'[c] = account[c]
                                    /\ target'[c] = target[c]
      <4> HIDE DEF b
      <4> QED BY <1>1, <3>1 DEF TypeOK, Target
    <3>4. LinkInv'
      <4> HIDE DEF b
      <4> QED BY <1>1, <1>2, <3>1, <3>3 DEF LinkInv, Undone
    <3> QED BY <3>1, <3>2, <3>3, <3>4
  <2> QED BY <2>1, <2>2
<1>5. /\ \/ Advance(r, "prepare", "activate")
         \/ runner' = [runner EXCEPT ![r].pc = "applyFailed"]
  BY DEF PrepareBatch
<1>6. CASE runner' = [runner EXCEPT ![r].pc = "applyFailed"]
  <2>1. runner'[r].pc = "applyFailed"
    BY <1>6, CommandAt
  <2>2. ApplyAt(runner[r])' /\ CancelAt(runner[r])'
    BY <2>1 DEF ApplyAt, CancelAt
  <2> QED BY <1>1, <1>2, <1>3, <1>4, <2>2, CommandProgress
<1>7. CASE Advance(r, "prepare", "activate")
  <2>1. \/ runner'[r].pc = "prepare" /\ runner'[r].at = b + 1
        \/ runner'[r].pc = "activate" /\ runner'[r].at = 1 /\ b = Batches
    BY <1>1, <1>7, AdvanceAt
  <2>2. runner' # [runner EXCEPT ![r].pc = "applyFailed"]
    BY <2>1, CommandAt
  <2>3. \A c \in Batch : c <= b => batch'[c].status # "absent"
    BY <1>1, <1>2, <1>4, <2>2 DEF ApplyAt, Batch
  <2>4. ApplyAt(runner[r])' /\ CancelAt(runner[r])'
    BY <1>1, <2>1, <2>3 DEF ApplyAt, CancelAt, Batch
  <2> QED BY <1>1, <1>2, <1>3, <1>4, <2>4, CommandProgress
<1> QED BY <1>5, <1>6, <1>7

\* A batch is found, or becomes, activated; a compensated one ends apply().
LEMMA ActivateProgress ==
    ASSUME SingleRunner, TypeOK, AtInv, ProgressInv, NEW r \in Runner,
           ActivateBatch(r) \/ ActivateReservations(r)
    PROVE  ProgressInv'
<1> DEFINE b == runner[r].at
<1>1. runner[r].pc \in {"activate", "activating"} /\ b \in Batch
  BY DEF ActivateBatch, ActivateReservations, AtInv
<1>2. /\ op.status # "completed" /\ LinkInv
      /\ ApplyAt(runner[r]) /\ op \in Operation /\ runner[r] \in RunnerState
  BY <1>1, CommandFinds
<1>3. op' = op /\ worker' = worker
  BY DEF ActivateBatch, ActivateReservations, documents
<1>4. ASSUME LinkInv', Advance(r, "activate", "finalize"),
             \A c \in Batch \ {b} : batch'[c] = batch[c],
             batch'[b].status = "activated"
      PROVE  ProgressInv'
  <2>1. \/ runner'[r].pc = "activate" /\ runner'[r].at = b + 1
        \/ runner'[r].pc = "finalize" /\ runner'[r].at = 1 /\ b = Batches
    BY <1>1, <1>4, AdvanceAt
  <2>2. \A c \in Batch : /\ batch'[c].status # "absent"
                         /\ c <= b => batch'[c].status = "activated"
    BY <1>1, <1>2, <1>4 DEF ApplyAt, Batch
  <2>3. ApplyAt(runner[r])' /\ CancelAt(runner[r])'
    BY <1>1, <2>1, <2>2 DEF ApplyAt, CancelAt, Batch
  <2> QED BY <1>1, <1>2, <1>3, <1>4, <2>3, CommandProgress
<1>5. CASE ActivateBatch(r)
  <2>1. LinkInv' /\ UNCHANGED <<batch, target, account>>
    BY <1>2, <1>5, LinkStays DEF ActivateBatch, documents
  <2>2. batch[b].status # "absent"
    BY <1>1, <1>2, <1>5 DEF ActivateBatch, ApplyAt
  <2>3. CASE batch[b].status = "activated" /\ Advance(r, "activate", "finalize")
    BY <1>4, <2>1, <2>3
  <2>4. CASE runner' = [runner EXCEPT ![r].pc = "applyFailed"]
    <3>1. runner'[r].pc = "applyFailed"
      BY <2>4, CommandAt
    <3>2. ApplyAt(runner[r])' /\ CancelAt(runner[r])'
      BY <3>1 DEF ApplyAt, CancelAt
    <3> QED BY <1>1, <1>2, <1>3, <2>1, <3>2, CommandProgress
  <2>5. CASE /\ batch[b].status = "prepared"
             /\ runner' = [runner EXCEPT ![r].pc = "activating"]
    <3>1. runner'[r].pc = "activating" /\ runner'[r].at = b
      BY <2>5, CommandAt
    <3>2. ApplyAt(runner[r])' /\ CancelAt(runner[r])'
      BY <1>1, <1>2, <1>5, <2>1, <2>5, <3>1 DEF ActivateBatch, ApplyAt, CancelAt
    <3> QED BY <1>1, <1>2, <1>3, <2>1, <3>2, CommandProgress
  <2> QED BY <1>5, <2>2, <2>3, <2>4, <2>5 DEF ActivateBatch
<1>6. CASE ActivateReservations(r)
  <2>1. batch[b].status = "prepared" /\ target[b].status = "pending"
    BY <1>1, <1>2, <1>6 DEF ActivateReservations, ApplyAt, LinkInv
  <2>2. /\ batch'[b].status = "activated"
        /\ target'[b].status = "active"
        /\ account' = account
        /\ \A c \in Batch \ {b} : batch'[c] = batch[c] /\ target'[c] = target[c]
    <3> HIDE DEF b
    <3>1. /\ batch' = [batch EXCEPT ![b].status = "activated"]
          /\ target' = [target EXCEPT ![b] = [ status |-> "active", gated |-> TRUE ]]
          /\ account' = account
      BY <1>6, <2>1 DEF ActivateReservations, TypeOK, b
    <3> QED BY <1>1, <3>1 DEF TypeOK
  <2>3. LinkInv'
    <3> HIDE DEF b
    <3> QED BY <1>1, <1>2, <2>1, <2>2 DEF LinkInv, Undone
  <2>4. Advance(r, "activate", "finalize")
    BY <1>6 DEF ActivateReservations
  <2> QED BY <1>4, <2>2, <2>3, <2>4
<1> QED BY <1>5, <1>6

\* The statuses a command writes over, and a command that dies.
LEMMA OutcomeProgress ==
    ASSUME SingleRunner, TypeOK, ProgressInv, NEW r \in Runner,
           \/ BeginFinalizing(r) \/ ApplyFailed(r) \/ BeginAbandoning(r)
           \/ CancelFailed(r) \/ Cancel(r) \/ ReopenConflict(r) \/ FailRunner(r)
    PROVE  ProgressInv'
<1>1. runner[r].pc # "idle" \/ op.status \notin Terminal
  BY DEF BeginFinalizing, ApplyFailed, BeginAbandoning, CancelFailed, Cancel,
      ReopenConflict, FailRunner, Resumable
<1>2. /\ op.status # "completed" /\ LinkInv /\ ApplyAt(runner[r])
      /\ CancelAt(runner[r]) /\ op \in Operation /\ runner[r] \in RunnerState
  BY <1>1, CommandFinds
<1>3. /\ UNCHANGED <<batch, target, account, worker>>
      /\ \/ op' = op
         \/ op' = [op EXCEPT !.status = "finalizing"]
         \/ op' = [op EXCEPT !.status = "failed-retryable"]
  BY Zenon DEF BeginFinalizing, ApplyFailed, BeginAbandoning, CancelFailed, Cancel,
      ReopenConflict, FailRunner, documents
<1>4. op'.cleanup = op.cleanup /\ op'.status # "completed"
  BY <1>2, <1>3 DEF Operation
<1>5. LinkInv'
  BY <1>2, <1>3, LinkStays
<1>6. ApplyAt(runner[r])' /\ CancelAt(runner[r])'
  <2>1. CASE BeginFinalizing(r)
    <3>1. runner[r].pc = "finalize" /\ runner'[r].pc = "complete"
      BY <2>1, CommandAt, Zenon DEF BeginFinalizing
    <3> QED BY <1>2, <1>3, <3>1 DEF ApplyAt, CancelAt
  <2>2. CASE BeginAbandoning(r)
    <3>1. runner[r].pc = "abandon" /\ runner'[r].pc = "finish"
      BY <2>2, CommandAt, Zenon DEF BeginAbandoning
    <3> QED BY <1>2, <1>3, <3>1 DEF ApplyAt, CancelAt
  <2>3. CASE ReopenConflict(r)
    <3>1. runner[r].pc = "reopen" /\ runner'[r].pc = "abandon"
      BY <2>3, CommandAt, Zenon DEF ReopenConflict
    <3> QED BY <1>2, <1>3, <3>1 DEF ApplyAt, CancelAt
  <2>4. CASE Cancel(r)
    <3>1. runner'[r].pc = "cancel"
      BY <2>4, CommandAt DEF Cancel
    <3> QED BY <3>1 DEF ApplyAt, CancelAt
  <2>5. CASE ApplyFailed(r) \/ CancelFailed(r)
    <3>1. runner'[r].pc = "idle" /\ runner'[r].at = 1
      BY <2>5, CommandAt DEF ApplyFailed, CancelFailed
    <3> QED BY <3>1 DEF ApplyAt, CancelAt
  <2>6. CASE FailRunner(r)
    <3>1. \/ runner' = [runner EXCEPT ![r] = [IdleRunner EXCEPT !.pc = "applyFailed"]]
          \/ runner' = [runner EXCEPT ![r] = [IdleRunner EXCEPT !.pc = "cancelFailed"]]
          \/ runner' = [runner EXCEPT ![r] = IdleRunner]
      BY <2>6, FailedTo
    <3>2. /\ runner'[r].pc \in {"applyFailed", "cancelFailed", "idle"}
          /\ runner'[r].at = 1
      BY <3>1, CommandAt
    <3> QED BY <3>2 DEF ApplyAt, CancelAt
  <2> QED BY <2>1, <2>2, <2>3, <2>4, <2>5, <2>6
<1> QED BY <1>1, <1>3, <1>4, <1>5, <1>6, CommandProgress

\* The end of a repair: every batch of a completed one is activated, every batch
\* of a cancelled one undone.
LEMMA EndProgress ==
    ASSUME SingleRunner, TypeOK, ProgressInv, NEW r \in Runner,
           CompleteParent(r) \/ FinishFailedParent(r)
    PROVE  ProgressInv'
<1>1. runner[r].pc \in {"complete", "finish"}
  BY DEF CompleteParent, FinishFailedParent
<1>2. /\ op.status # "completed" /\ op.cleanup = "not-required" /\ LinkInv
      /\ ApplyAt(runner[r]) /\ CancelAt(runner[r])
      /\ op \in Operation /\ runner[r] \in RunnerState
  BY <1>1, CommandFinds
<1>3. UNCHANGED <<batch, target, account, worker>>
  BY DEF CompleteParent, FinishFailedParent
<1>4. LinkInv'
  BY <1>2, <1>3, LinkStays
<1>5. runner'[r].pc = "idle" /\ runner'[r].at = 1
  BY CommandAt DEF CompleteParent, FinishFailedParent
<1>6. CommandInv' /\ \A s \in Runner : runner'[s].pc = "idle"
  <2>1. ApplyAt(runner[r])' /\ CancelAt(runner[r])'
    BY <1>5 DEF ApplyAt, CancelAt
  <2> QED BY <1>5, <2>1 DEF CommandInv, SingleRunner
<1>7. \/ op' = op
      \/ /\ op' = [op EXCEPT !.status = "completed", !.cleanup = "pending",
                             !.terminalEvent = "completed"]
         /\ \A b \in Batch : batch[b].status = "activated"
      \/ /\ op' = [op EXCEPT !.status = "failed-terminal", !.cleanup = "pending",
                             !.terminalEvent = "failed-terminal"]
         /\ \A b \in Batch : batch[b].status \in Undone
  <2>1. CASE CompleteParent(r)
    BY <1>2, <2>1 DEF CompleteParent, ApplyAt
  <2>2. CASE FinishFailedParent(r)
    BY <1>2, <2>2 DEF FinishFailedParent, CancelAt
  <2> QED BY <2>1, <2>2
<1>8. \/ op' = op
      \/ /\ op'.status = "completed" /\ op'.cleanup = "pending"
         /\ \A b \in Batch : batch'[b].status = "activated"
      \/ /\ op'.status = "failed-terminal" /\ op'.cleanup = "pending"
         /\ \A b \in Batch : batch'[b].status \in Undone
  BY <1>2, <1>3, <1>7 DEF Operation
<1>9. EndInv'
  BY <1>2, <1>6, <1>8 DEF EndInv, Terminal
<1>10. CleanupInv' /\ CleanedUp'
  BY <1>2, <1>3, <1>8 DEF CleanupInv, CleanedUp, ProgressInv
<1> QED BY <1>4, <1>6, <1>9, <1>10 DEF ProgressInv

\* cancel() reads the batches, and undoes them from the last to the first.
LEMMA CancelProgress ==
    ASSUME SingleRunner, TypeOK, AtInv, ProgressInv, NEW r \in Runner,
           BeginCancelling(r) \/ CompensateBatch(r)
    PROVE  ProgressInv'
<1> DEFINE b == runner[r].at
<1>1. runner[r].pc \in {"cancel", "compensate"} /\ b \in Batch
  BY DEF BeginCancelling, CompensateBatch, AtInv
<1>2. /\ op.status # "completed" /\ LinkInv
      /\ CancelAt(runner[r]) /\ op \in Operation /\ runner[r] \in RunnerState
  BY <1>1, CommandFinds
<1>3. /\ op'.cleanup = op.cleanup /\ op'.status # "completed"
      /\ worker' = worker
  BY <1>2 DEF BeginCancelling, CompensateBatch, Operation
<1>4. CASE BeginCancelling(r)
  <2>1. UNCHANGED <<batch, target, account>> /\ LinkInv'
    BY <1>2, <1>4, LinkStays DEF BeginCancelling
  <2> DEFINE y == [c \in Batch |-> batch[c].status]
  <2>2. runner' = [runner EXCEPT ![r].pc = "compensate", ![r].at = Batches,
                                 ![r].seen = y]
    BY <1>4 DEF BeginCancelling
  <2>3. \A c \in Batch : y[c] = batch[c].status /\ c <= Batches
    BY BatchFacts DEF Batch
  <2> HIDE DEF y
  <2>4. /\ runner'[r].pc = "compensate" /\ runner'[r].at = Batches
        /\ runner'[r].seen = y
    BY <2>2 DEF TypeOK, RunnerState
  <2>5. ApplyAt(runner[r])' /\ CancelAt(runner[r])'
    BY <2>1, <2>3, <2>4, BatchFacts DEF ApplyAt, CancelAt, Batch
  <2> QED BY <1>1, <1>3, <2>1, <2>5, CommandProgress
<1>5. CASE CompensateBatch(r)
  <2>1. /\ runner[r].pc = "compensate" /\ runner[r].seen[b] = batch[b].status
        /\ \A c \in Batch : /\ c <= b => runner[r].seen[c] = batch[c].status
                            /\ c > b => batch[c].status \in Undone
    BY <1>1, <1>2, <1>5 DEF CompensateBatch, CancelAt, Batch
  <2>2. CASE /\ runner' = [runner EXCEPT ![r].pc = "cancelFailed"]
             /\ UNCHANGED <<batch, target, account>>
    <3>1. LinkInv'
      BY <1>2, <2>2, LinkStays
    <3>2. runner'[r].pc = "cancelFailed"
      BY <2>2, CommandAt
    <3>3. ApplyAt(runner[r])' /\ CancelAt(runner[r])'
      BY <3>2 DEF ApplyAt, CancelAt
    <3> QED BY <1>1, <1>3, <3>1, <3>3, CommandProgress
  <2>3. CASE /\ runner' = [runner EXCEPT ![r].at = @ - 1,
                                ![r].pc = IF b = 1 THEN "reopen" ELSE "compensate"]
             /\ \/ /\ runner[r].seen[b] \in Undone
                   /\ UNCHANGED <<batch, target, account>>
                \/ /\ batch' = [batch EXCEPT ![b].status = "compensated"]
                   /\ target' = [target EXCEPT ![b] =
                                    [ status |-> "released", gated |-> FALSE ]]
                   /\ account' = [account EXCEPT ![b] = "original"]
    <3>1. /\ LinkInv' /\ batch'[b].status \in Undone
          /\ \A c \in Batch \ {b} : batch'[c] = batch[c]
      <4>1. CASE /\ runner[r].seen[b] \in Undone
                 /\ UNCHANGED <<batch, target, account>>
        BY <1>2, <2>1, <4>1, LinkStays
      <4>2. CASE /\ batch' = [batch EXCEPT ![b].status = "compensated"]
                 /\ target' = [target EXCEPT ![b] =
                                  [ status |-> "released", gated |-> FALSE ]]
                 /\ account' = [account EXCEPT ![b] = "original"]
        <5> HIDE DEF b
        <5>1. /\ batch'[b].status = "compensated" /\ account'[b] = "original"
              /\ target'[b].status = "released" /\ ~target'[b].gated
              /\ \A c \in Batch \ {b} : /\ batch'[c] = batch[c]
                                        /\ account'[c] = account[c]
                                        /\ target'[c] = target[c]
          BY <1>1, <4>2 DEF TypeOK
        <5> QED BY <1>1, <1>2, <5>1 DEF LinkInv, Undone
      <4> QED BY <2>3, <4>1, <4>2
    <3>2. /\ runner'[r].pc = IF b = 1 THEN "reopen" ELSE "compensate"
          /\ runner'[r].at = b - 1
          /\ runner'[r].seen = runner[r].seen
      BY <2>3 DEF TypeOK, RunnerState
    <3>3. ApplyAt(runner[r])' /\ CancelAt(runner[r])'
      <4>1. ASSUME NEW c \in Batch
            PROVE  /\ c <= b - 1 => runner[r].seen[c] = batch'[c].status
                   /\ c > b - 1 => batch'[c].status \in Undone
        BY <1>1, <2>1, <3>1 DEF Batch
      <4>2. CASE b = 1
        <5>1. \A c \in Batch : batch'[c].status \in Undone
          BY <4>1, <4>2 DEF Batch
        <5> QED BY <3>2, <4>2, <5>1 DEF ApplyAt, CancelAt
      <4>3. CASE b # 1
        BY <3>2, <4>1, <4>3 DEF ApplyAt, CancelAt
      <4> QED BY <4>2, <4>3
    <3> QED BY <1>1, <1>3, <3>1, <3>3, CommandProgress
  <2> QED BY <1>5, <2>2, <2>3 DEF CompensateBatch, SetAggregateIdentifier, Undone
<1> QED BY <1>4, <1>5

\* A job, or anything else that leaves batches and commands alone.
LEMMA JobProgress ==
    ASSUME ProgressInv, UNCHANGED <<batch, target, account, runner>>, Stays,
           op'.status = "completed" => op.status = "completed",
           \/ op'.cleanup = op.cleanup
           \/ /\ op.cleanup = "pending" /\ op'.cleanup = "completed"
              /\ \A b \in Batch : /\ ~target[b].gated
                                  /\ batch[b].status # "absent" => batch[b].expired,
           \A w \in Worker : worker'[w].pc = "ungate" =>
                worker[w].pc = "ungate" \/ op.cleanup # "not-required"
    PROVE  ProgressInv'
<1>1. LinkInv' /\ CommandInv'
  BY LinkStays DEF ProgressInv, CommandInv, ApplyAt, CancelAt
<1>2. EndInv'
  BY DEF ProgressInv, EndInv, Stays, Terminal
<1>3. CleanupInv'
  BY DEF ProgressInv, CleanupInv
<1>4. CleanedUp'
  BY DEF ProgressInv, CleanedUp
<1> QED BY <1>1, <1>2, <1>3, <1>4 DEF ProgressInv

LEMMA PassProgress ==
    ASSUME RepairInv, ProgressInv, NEW w \in Worker, Pass(w), ~Cleanup(w)
    PROVE  ProgressInv'
<1>0. /\ op \in Operation /\ worker[w] \in WorkerState
      /\ worker \in [Worker -> WorkerState]
      /\ worker[w].pc \in {"attach", "move"} => worker[w].from \notin Terminal
  BY DEF RepairInv, TypeInv, TypeOK, FromInv
<1>1. CASE Claim(w)
  <2>1. /\ UNCHANGED <<batch, target, account, runner>>
        /\ op'.status = op.status /\ op'.cleanup = op.cleanup
        /\ op.status \in Terminal => op.cleanup = "pending"
    BY <1>0, <1>1 DEF Claim, Operation
  <2>2. /\ worker'[w].pc = "ungate" => op.status \in Terminal
        /\ \A v \in Worker \ {w} : worker'[v] = worker[v]
    <3> DEFINE j == [ from |-> op.status,
                      pc |-> IF op.status \in Terminal THEN "ungate" ELSE "attach" ]
    <3>1. j.pc = "ungate" => op.status \in Terminal
      OBVIOUS
    <3>2. worker' = [worker EXCEPT ![w] = j]
      BY <1>1 DEF Claim
    <3> HIDE DEF j
    <3> QED BY <1>0, <3>1, <3>2
  <2> QED BY <2>1, <2>2, JobProgress DEF Stays
<1>2. CASE AttachMissingReferences(w) \/ Move(w)
  <2>1. /\ UNCHANGED <<batch, target, account, runner>>
        /\ op'.cleanup = op.cleanup /\ Stays
        /\ op'.status = "completed" => op.status = "completed"
    BY <1>0, <1>2 DEF AttachMissingReferences, Move, NextStatus, Operation, Stays
  <2>2. \A v \in Worker : worker'[v].pc = "ungate" => worker[v].pc = "ungate"
    BY <1>0, <1>2 DEF AttachMissingReferences, Move, WorkerState
  <2> QED BY <2>1, <2>2, JobProgress
<1>3. CASE RecordRecovered(w) \/ FinishRecovered(w)
  <2>1. /\ UNCHANGED <<batch, target, account, runner>>
        /\ op'.cleanup = op.cleanup /\ Stays
        /\ op'.status = "completed" => op.status = "completed"
    BY <1>0, <1>3 DEF RecordRecovered, FinishRecovered, Operation, Stays, Terminal
  <2>2. \A v \in Worker : worker'[v].pc = "ungate" => worker[v].pc = "ungate"
    BY <1>0, <1>3 DEF RecordRecovered, FinishRecovered, WorkerState
  <2> QED BY <2>1, <2>2, JobProgress
<1>4. CASE CloseCleanup(w)
  <2>1. /\ UNCHANGED <<batch, target, account, runner>>
        /\ op'.status = op.status
        /\ \/ op'.cleanup = op.cleanup
           \/ /\ op.cleanup = "pending" /\ op'.cleanup = "completed"
              /\ \A b \in Batch : /\ ~target[b].gated
                                  /\ batch[b].status # "absent" => batch[b].expired
    BY <1>0, <1>4 DEF CloseCleanup, Operation
  <2>2. \A v \in Worker : worker'[v].pc = "ungate" => worker[v].pc = "ungate"
    BY <1>0, <1>4 DEF CloseCleanup, WorkerState
  <2> QED BY <2>1, <2>2, JobProgress DEF Stays
<1>5. CASE ReleaseLease(w)
  <2>1. /\ UNCHANGED <<batch, target, account, runner>>
        /\ op'.status = op.status /\ op'.cleanup = op.cleanup
    BY <1>0, <1>5 DEF ReleaseLease, Operation
  <2>2. \A v \in Worker : worker'[v].pc = "ungate" => worker[v].pc = "ungate"
    BY <1>0, <1>5 DEF ReleaseLease, WorkerState, IdleWorker
  <2> QED BY <2>1, <2>2, JobProgress DEF Stays
<1> QED BY <1>1, <1>2, <1>3, <1>4, <1>5 DEF Pass

\* The cleanup opens gates, and of a cancelled repair there are none: it is run
\* when the commands have ended.
LEMMA CleanupProgress ==
    ASSUME RepairInv, ProgressInv, NEW w \in Worker, Cleanup(w)
    PROVE  ProgressInv'
<1>0. /\ TypeOK /\ worker[w].pc = "ungate" /\ op.status = worker[w].from
      /\ op.cleanup # "not-required"
      /\ op.status \in Terminal /\ \A r \in Runner : runner[r].pc = "idle"
  BY DEF RepairInv, TypeInv, FromInv, Cleanup, ProgressInv, CleanupInv, EndInv
<1>1. PICK G \in SUBSET {b \in Batch : target[b].gated},
           B \in SUBSET {b \in Batch : batch[b].status # "absent" /\ ~batch[b].expired} :
        /\ target' = [b \in Batch |->
              IF b \notin G THEN target[b]
              ELSE [ status |-> IF worker[w].from = "failed-terminal"
                                THEN "released" ELSE target[b].status,
                     gated |-> FALSE ]]
        /\ batch' = [b \in Batch |->
              IF b \in B THEN [batch[b] EXCEPT !.expired = TRUE] ELSE batch[b]]
  BY Zenon DEF Cleanup
<1>2. /\ worker' = [worker EXCEPT ![w].pc = "close"]
      /\ UNCHANGED <<op, conflict, account, events, runner, faults>>
  BY DEF Cleanup
<1>3. ASSUME NEW b \in Batch
      PROVE  /\ batch'[b].status = batch[b].status
             /\ batch[b].expired => batch'[b].expired
  BY <1>0, <1>1 DEF TypeOK
<1>4. ASSUME NEW b \in Batch
      PROVE  /\ target'[b].status = target[b].status
             /\ target'[b].gated => target[b].gated
  <2>1. CASE b \notin G
    BY <1>1, <2>1
  <2>2. CASE b \in G
    <3>1. worker[w].from # "failed-terminal"
      BY <1>0, <1>1, <2>2 DEF ProgressInv, EndInv, LinkInv
    <3>2. target'[b] = [ status |-> target[b].status, gated |-> FALSE ]
      BY <1>1, <2>2, <3>1
    <3> QED BY <3>2
  <2> QED BY <2>1, <2>2
<1>5. LinkInv'
  <2>1. account' = account
    BY <1>2
  <2> QED BY <1>3, <1>4, <2>1 DEF LinkInv, ProgressInv
<1>6. CommandInv'
  BY <1>0, <1>2 DEF CommandInv, ProgressInv, ApplyAt, CancelAt
<1>7. EndInv'
  BY <1>2, <1>3 DEF EndInv, ProgressInv
<1>8. CleanupInv'
  BY <1>0, <1>2 DEF CleanupInv
<1>9. CleanedUp'
  BY <1>2, <1>3, <1>4 DEF CleanedUp, ProgressInv
<1> QED BY <1>5, <1>6, <1>7, <1>8, <1>9 DEF ProgressInv

\* The dry run, an expired lease, a job that dies and an account that takes a
\* free identifier.
LEMMA OtherProgress ==
    ASSUME RepairInv, ProgressInv,
           \/ DryRun \/ ExpireLease \/ UNCHANGED vars
           \/ \E w \in Worker : FailWorker(w)
           \/ \E b \in Batch : TakeIdentifier(b)
    PROVE  ProgressInv'
<1>0. TypeOK /\ op \in Operation /\ worker \in [Worker -> WorkerState]
  BY DEF RepairInv, TypeInv, TypeOK
<1>1. CASE DryRun \/ ExpireLease \/ UNCHANGED vars
  <2>1. /\ UNCHANGED <<batch, target, account, runner, worker>>
        /\ op'.cleanup = op.cleanup /\ Stays
        /\ op'.status = "completed" => op.status = "completed"
    BY <1>0, <1>1 DEF DryRun, ExpireLease, vars, documents, Operation, Stays, Terminal
  <2> QED BY <2>1, JobProgress
<1>2. ASSUME NEW w \in Worker, FailWorker(w) PROVE ProgressInv'
  <2>1. UNCHANGED <<batch, target, account, runner, op>>
    BY <1>2 DEF FailWorker, documents
  <2>2. \A v \in Worker : worker'[v].pc = "ungate" => worker[v].pc = "ungate"
    BY <1>0, <1>2 DEF FailWorker, WorkerState, IdleWorker
  <2> QED BY <2>1, <2>2, JobProgress DEF Stays
<1>3. ASSUME NEW b \in Batch, TakeIdentifier(b) PROVE ProgressInv'
  <2>1. /\ UNCHANGED <<op, batch, account, runner, worker>>
        /\ target[b].status \in {"absent", "released"}
        /\ target'[b].status = "other" /\ target'[b].gated = target[b].gated
        /\ \A c \in Batch \ {b} : target'[c] = target[c]
    BY <1>0, <1>3 DEF TakeIdentifier, TypeOK, Target
  <2>2. LinkInv'
    BY <2>1 DEF ProgressInv, LinkInv
  <2>3. CommandInv'
    BY <2>1 DEF ProgressInv, CommandInv, ApplyAt, CancelAt
  <2>4. EndInv' /\ CleanupInv' /\ CleanedUp'
    BY <2>1 DEF ProgressInv, EndInv, CleanupInv, CleanedUp
  <2> QED BY <2>2, <2>3, <2>4 DEF ProgressInv
<1> QED BY <1>1, <1>2, <1>3

LEMMA NextProgressInv ==
    ASSUME SingleRunner, RepairInv, ProgressInv, [Next]_vars
    PROVE  ProgressInv'
<1>0. TypeOK /\ AtInv
  BY DEF RepairInv, TypeInv
<1>1. ASSUME NEW r \in Runner, Command(r) PROVE ProgressInv'
  BY <1>0, <1>1, ApplyProgress, PrepareProgress, ActivateProgress, OutcomeProgress,
     EndProgress, CancelProgress DEF Command
<1>2. ASSUME NEW r \in Runner, FailRunner(r) PROVE ProgressInv'
  BY <1>0, <1>2, OutcomeProgress
<1>3. ASSUME NEW w \in Worker, Pass(w) PROVE ProgressInv'
  BY <1>3, PassProgress, CleanupProgress
<1> QED BY <1>1, <1>2, <1>3, OtherProgress DEF Next

LEMMA RepairAndProgressInvariant ==
    ASSUME SingleRunner
    PROVE  Spec => [](RepairInv /\ ProgressInv)
<1>1. Init => RepairInv /\ ProgressInv
  BY InitRepairInv, InitProgressInv
<1>2. (RepairInv /\ ProgressInv) /\ [Next]_vars => (RepairInv /\ ProgressInv)'
  BY NextRepairInv, NextProgressInv
<1> QED BY <1>1, <1>2, PTL DEF Spec

\* A completed repair is complete: every account signs in with its replacement,
\* also when a cancellation undid some batches, failed, and apply() was run again
\* (prepareBatch, activateBatch, completeParent).
THEOREM RepairsAllOrNothing ==
    ASSUME SingleRunner
    PROVE  Spec => []AllOrNothing
<1>1. RepairInv /\ ProgressInv => AllOrNothing
  BY DEF ProgressInv, LinkInv, EndInv, AllOrNothing, SignsIn
<1> QED BY <1>1, RepairAndProgressInvariant, PTL

\* An account has its replacement exactly while the reservation is held for it,
\* between any two transactions of the commands (prepareBatch, compensateBatch).
THEOREM AccountsFollowReservations ==
    ASSUME SingleRunner
    PROVE  Spec => []AccountFollowsReservation
<1>1. RepairInv /\ ProgressInv => AccountFollowsReservation
  <2> SUFFICES ASSUME RepairInv, ProgressInv, NEW b \in Batch
               PROVE  account[b] = "replacement"
                        <=> target[b].status \in {"pending", "active"}
    BY DEF AccountFollowsReservation
  <2>1. batch[b].status \in BatchStatus
    BY DEF RepairInv, TypeInv, TypeOK
  <2> QED BY <2>1 DEF ProgressInv, LinkInv, BatchStatus, Undone
<1> QED BY <1>1, RepairAndProgressInvariant, PTL

\* A cleanup that is closed left no gate and no batch behind, in however many
\* bounded passes and by however many jobs it was done (cleanup()).
THEOREM RepairsCleanedUp ==
    ASSUME SingleRunner
    PROVE  Spec => []CleanedUp
<1>1. RepairInv /\ ProgressInv => CleanedUp
  BY DEF ProgressInv
<1> QED BY <1>1, RepairAndProgressInvariant, PTL

-----------------------------------------------------------------------------
(* The sign-in beside the repair *)

\* A sign-in past the gate, and a session, are of a repair that is completed.
SignInInv ==
    /\ RepairInv
    /\ signIn \in [Client -> SignInState]
    /\ session \subseteq Batch
    /\ \A c \in Client :
          signIn[c].pc \in {"account", "session"} => op.status = "completed"
    /\ session # {} => op.status = "completed"

LEMMA InitSignInInv == SignInInit => SignInInv
BY InitRepairInv, BatchFacts DEF SignInInit, SignInInv, SignInState, IdleSignIn

\* The check of a sign-in that is past the gate, or passes it.
LEMMA CheckKeeps ==
    ASSUME SignInInv, NEW c \in Client, NEW passes \in BOOLEAN,
           NEW next \in {"account", "session"}, Check(c, passes, next),
           passes => op.status = "completed"
    PROVE  SignInInv'
<1>1. UNCHANGED <<vars, session>> /\ RepairInv'
  BY NextRepairInv DEF Check, SignInInv
<1>2. op' = op
  BY <1>1 DEF vars, documents
<1>3. CASE passes
  BY <1>1, <1>2, <1>3 DEF Check, SignInInv, SignInState
<1>4. CASE ~passes
  BY <1>1, <1>2, <1>4, BatchFacts DEF Check, Deny, IdleSignIn, SignInInv, SignInState
<1> QED BY <1>3, <1>4

LEMMA StepSignInInv ==
    ASSUME SignInInv, NEW c \in Client, SignInStep(c)
    PROVE  SignInInv'
<1>0. RepairInv /\ signIn[c] \in SignInState
  BY DEF SignInInv
<1>1. UNCHANGED vars
  BY DEF SignInStep, ResolveIdentifier, AssertActivationGateCompleted,
      AuthenticateReserved, Check, CreateFamily, RecordSuccess, FailSignIn
<1>2. RepairInv' /\ op' = op
  BY <1>0, <1>1, NextRepairInv DEF vars, documents
<1>3. ASSUME NEW b \in Batch, ResolveIdentifier(c, b) PROVE SignInInv'
  <2>1. ~target[b].gated => op.status = "completed"
    BY <1>0, <1>3 DEF ResolveIdentifier, RepairInv, GateInv
  <2> DEFINE q == [ pc |-> IF target[b].gated THEN "gate" ELSE "account", at |-> b ]
  <2>2. q \in SignInState /\ (q.pc \in {"account", "session"} => op.status = "completed")
    BY <2>1 DEF SignInState
  <2>3. signIn' = [signIn EXCEPT ![c] = q] /\ session' = session
    BY <1>3 DEF ResolveIdentifier
  <2> HIDE DEF q
  <2> QED BY <1>2, <2>2, <2>3 DEF SignInInv
<1>4. CASE AssertActivationGateCompleted(c)
  BY <1>4, CheckKeeps DEF AssertActivationGateCompleted, GateCompleted
<1>5. CASE AuthenticateReserved(c)
  <2>1. op.status = "completed"
    BY <1>5 DEF AuthenticateReserved, SignInInv
  <2> QED BY <1>5, <2>1, CheckKeeps DEF AuthenticateReserved
<1>6. CASE CreateFamily(c)
  BY <1>2, <1>6 DEF CreateFamily, SignInInv, SignInState
<1>7. CASE RecordSuccess(c) \/ FailSignIn(c)
  <2>1. IdleSignIn \in SignInState /\ IdleSignIn.pc = "idle"
    BY BatchFacts DEF IdleSignIn, SignInState
  <2>2. signIn' = [signIn EXCEPT ![c] = IdleSignIn] /\ session' = session
    BY <1>7 DEF RecordSuccess, FailSignIn
  <2> QED BY <1>2, <2>1, <2>2 DEF SignInInv
<1> QED BY <1>3, <1>4, <1>5, <1>6, <1>7 DEF SignInStep

LEMMA NextSignInInv == SignInInv /\ [SignInNext]_signInVars => SignInInv'
<1> SUFFICES ASSUME SignInInv, [SignInNext]_signInVars PROVE SignInInv'
  OBVIOUS
<1>1. CASE Next /\ UNCHANGED <<signIn, session>>
  <2>1. RepairInv' /\ (op.status = "completed" => op'.status = "completed")
    BY <1>1, NextRepairInv, CompletedStays DEF SignInInv
  <2> QED BY <1>1, <2>1 DEF SignInInv
<1>2. ASSUME NEW c \in Client, SignInStep(c) PROVE SignInInv'
  BY <1>2, StepSignInInv
<1>3. CASE UNCHANGED signInVars
  <2>1. UNCHANGED vars /\ UNCHANGED <<signIn, session>>
    BY <1>3 DEF signInVars
  <2>2. RepairInv' /\ op' = op
    BY <2>1, NextRepairInv DEF SignInInv, vars, documents
  <2> QED BY <2>1, <2>2 DEF SignInInv
<1> QED BY <1>1, <1>2, <1>3 DEF SignInNext

\* The variables of the sign-ins and of the repair beside them keep their types.
THEOREM SignInTypes == SignInSpec => []SignInTypeOK
<1>1. SignInInv => SignInTypeOK
  BY DEF SignInInv, RepairInv, TypeInv, SignInTypeOK
<1> QED BY <1>1, InitSignInInv, NextSignInInv, PTL DEF SignInSpec

\* No session is created with an identifier of a repair that is not completed,
\* however the steps of the sign-in, of the commands and of the reconciliation
\* jobs interleave (createSharedSession, assertActivationGateCompleted).
THEOREM SignInWaitsForRepair == SignInSpec => []NoEarlySession
<1>1. SignInInv => NoEarlySession
  BY DEF SignInInv, NoEarlySession
<1> QED BY <1>1, InitSignInInv, NextSignInInv, PTL DEF SignInSpec

\* The composition leaves the repair as it is: what holds of it alone holds of it
\* beside the sign-ins.
THEOREM SignInKeepsRepair == SignInSpec => Spec
<1>1. SignInInit => Init
  BY DEF SignInInit
<1>2. [SignInNext]_signInVars => [Next]_vars
  <2>1. ASSUME NEW c \in Client, SignInStep(c) PROVE UNCHANGED vars
    BY <2>1 DEF SignInStep, ResolveIdentifier, AssertActivationGateCompleted,
        AuthenticateReserved, Check, CreateFamily, RecordSuccess, FailSignIn
  <2> QED BY <2>1 DEF SignInNext, signInVars
<1> QED BY <1>1, <1>2, PTL DEF SignInSpec, Spec

=============================================================================
