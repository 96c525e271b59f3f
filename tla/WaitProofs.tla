----------------------------- MODULE WaitProofs -----------------------------
(***************************************************************************)
(* Proofs about coroutines that wait for others.                           *)
(*                                                                         *)
(* The safety properties of Pool for any set of tasks and any number of    *)
(* workers.  File operations use the pool as its callers may, so they have *)
(* its guarantees; and a file object is neither moved from nor closed      *)
(* under a worker, for any number of files, tasks and workers.             *)
(*                                                                         *)
(* No notification of a futex (F) is lost or swallowed, for any number of  *)
(* waiters and writers.  The joins (W) leave no child behind and report    *)
(* the first result they observed, for any number of inputs.               *)
(***************************************************************************)
EXTENDS File, Futexes, Joins, FiniteSetTheorems, TLAPS

PoolTypes ==
  /\ jobs \in Seq(Tasks)
  /\ wk \in [Workers -> {"lock", "wait", "start", "busy", "post", "exited"}]
  /\ job \in [Workers -> Tasks \cup {"none"}]
  /\ st \in [Tasks -> {"idle", "pushed", "joined", "ready"}]
  /\ slot \in [Tasks -> {"none", "value", "error"}]
  /\ mail \in [Tasks -> BOOLEAN]
  /\ tok \in [Tasks -> BOOLEAN] /\ stopping \in [Tasks -> BOOLEAN]
  /\ res \in [Tasks -> {"none", "canceled", "closed", "value", "error", "empty"}]

\* A worker has a job exactly while it is inside one.
Inside == \A w \in Workers : job[w] = "none" <=> wk[w] \in {"lock", "wait", "exited"}

\* A task has at most one job, in the queue or in a worker.
OneJob ==
  /\ \A i, j \in 1..Len(jobs) : jobs[i] = jobs[j] => i = j
  /\ \A w, v \in Workers : job[w] # "none" /\ job[w] = job[v] => w = v
  /\ \A i \in 1..Len(jobs), w \in Workers : jobs[i] # job[w]

\* The task of a job is suspended or about to be, and its post is still to come.
Suspended(t) == st[t] \in {"pushed", "joined"} /\ ~mail[t]
Owners ==
  /\ \A i \in 1..Len(jobs) : Suspended(jobs[i])
  /\ \A w \in Workers : job[w] # "none" => Suspended(job[w])
  /\ \A t \in Tasks : mail[t] => st[t] \in {"pushed", "joined"}

\* From the end of the function to the return of run(), the slot is filled or the stop
\* that kept it empty is still visible.
Answered(t) ==
  \/ mail[t] \/ st[t] = "ready"
  \/ \E w \in Workers : job[w] = t /\ wk[w] = "post"
Filled == \A t \in Tasks : Answered(t) => slot[t] # "none" \/ Canceled(t)

PoolInv == PoolTypes /\ Inside /\ OneJob /\ Owners /\ Filled /\ NeverEmpty
-----------------------------------------------------------------------------
\* A queue that gains t at its end holds what it held and t.
LEMMA Appended ==
  ASSUME NEW q \in Seq(Tasks), NEW t \in Tasks
  PROVE  /\ Append(q, t) \in Seq(Tasks) /\ Len(Append(q, t)) = Len(q) + 1
         /\ \A i \in 1..Len(q) : Append(q, t)[i] = q[i]
         /\ Append(q, t)[Len(q) + 1] = t
  OBVIOUS

\* What the head and the tail of a queue that is not empty hold.
LEMMA Taken ==
  ASSUME NEW q \in Seq(Tasks), q # <<>>
  PROVE  /\ Head(q) \in Tasks /\ Tail(q) \in Seq(Tasks) /\ Len(q) \in Nat \ {0}
         /\ Head(q) = q[1] /\ Len(Tail(q)) = Len(q) - 1
         /\ \A i \in 1..Len(Tail(q)) : Tail(q)[i] = q[i + 1]
  OBVIOUS

\* pool::run up to its push: the task was idle, so nothing of it is in the pool.
LEMMA EnqueueKeeps ==
  ASSUME PoolInv, NEW t \in Tasks, Enqueue(t)
  PROVE  PoolInv'
<1> USE DEF PoolInv
<1>1. CASE Canceled(t) \/ closing # "open"
  BY <1>1 DEF Enqueue, PoolTypes, Inside, OneJob, Owners, Suspended, Filled, Answered, Canceled, NeverEmpty
<1>2. CASE ~(Canceled(t) \/ closing # "open")
  <2>1. /\ jobs' = Append(jobs, t) /\ st' = [st EXCEPT ![t] = "pushed"] /\ st[t] = "idle"
        /\ res' = [res EXCEPT ![t] = "none"]
        /\ UNCHANGED <<closing, wk, job, slot, mail, tok, stopping>>
    BY <1>2, Zenon DEF Enqueue
  <2>2. PoolTypes' /\ Inside' /\ NeverEmpty'
    BY <2>1, Appended, Zenon DEF PoolTypes, Inside, NeverEmpty
  <2>3. OneJob'
    <3>1. /\ \A i \in 1..Len(jobs) : jobs[i] # t
          /\ \A w \in Workers : job[w] # t
      BY <2>1, NoneIsNoTask, Zenon DEF Owners, Suspended
    <3>2. ASSUME NEW i \in 1..Len(jobs'), NEW j \in 1..Len(jobs'), jobs'[i] = jobs'[j] PROVE i = j
      BY <2>1, <3>1, <3>2, Appended DEF PoolTypes, OneJob
    <3>3. ASSUME NEW i \in 1..Len(jobs'), NEW w \in Workers PROVE jobs'[i] # job'[w]
      BY <2>1, <3>1, Appended DEF PoolTypes, OneJob
    <3> QED BY <2>1, <3>2, <3>3, Zenon DEF OneJob
  <2>4. Owners'
    BY <2>1, Appended, SMTT(30) DEF PoolTypes, Owners, Suspended
  <2>5. Filled'
    BY <2>1 DEF PoolTypes, Filled, Answered, Canceled
  <2> QED BY <2>2, <2>3, <2>4, <2>5, Zenon
<1> QED BY <1>1, <1>2, Zenon

\* The calling task: notification, resumption and return.
LEMMA CallerKeeps ==
  ASSUME PoolInv, NEW t \in Tasks, CallerStep(t)
  PROVE  PoolInv'
<1> USE DEF PoolInv, PoolTypes
<1>1. CASE Notify(t)
  BY <1>1 DEF Notify, Woken, Wake, Inside, OneJob, Owners, Suspended, Filled, Answered, Canceled, NeverEmpty
<1>2. CASE Joined(t)
  BY <1>2 DEF Joined, Set, Inside, OneJob, Owners, Suspended, Filled, Answered, Canceled, NeverEmpty
<1>3. CASE Return(t)
  <2>1. Answered(t) BY <1>3, Zenon DEF Return, Answered
  <2>2. Outcome(t) \in {"canceled", "value", "error"}
    BY <2>1, Zenon DEF Filled, Outcome
  <2>3. PoolTypes' /\ Inside' /\ OneJob' /\ Owners' /\ NeverEmpty'
    BY <1>3, <2>2 DEF Return, Inside, OneJob, Owners, Suspended, NeverEmpty
  <2>4. Filled'
    <3>1. ~mail[t] /\ \A w \in Workers : job[w] # t
      BY <1>3, NoneIsNoTask, Zenon DEF Return, Owners, Suspended
    <3>2. ASSUME NEW u \in Tasks, Answered(u)' PROVE u # t /\ Answered(u)
      BY <1>3, <3>1, <3>2, Zenon DEF Return, Answered
    <3> QED BY <1>3, <3>2, Zenon DEF Return, Filled, Canceled
  <2> QED BY <2>3, <2>4, Zenon
<1> QED BY <1>1, <1>2, <1>3, Zenon DEF CallerStep

\* A worker: taking a job, beginning it, running the function and posting the end.
LEMMA WorkerKeeps ==
  ASSUME PoolInv, NEW w \in Workers, WorkerStep(w) \/ Spurious(w)
  PROVE  PoolInv'
<1> USE DEF PoolInv, PoolTypes
<1>1. CASE Work(w)
  <2>1. CASE jobs # <<>>
    <3>1. /\ wk' = [wk EXCEPT ![w] = "start"] /\ wk[w] = "lock"
          /\ job' = [job EXCEPT ![w] = Head(jobs)] /\ jobs' = Tail(jobs)
          /\ UNCHANGED <<closing, st, slot, mail, tok, stopping, res>>
      BY <1>1, <2>1, Zenon DEF Work, Take
    <3>2. PoolTypes' /\ Inside' /\ NeverEmpty'
      BY <2>1, <3>1, Taken, NoneIsNoTask DEF Inside, NeverEmpty
    <3>3. OneJob'
      <4>1. \A i \in 1..Len(jobs') : i + 1 \in 1..Len(jobs) /\ jobs'[i] = jobs[i + 1] /\ i + 1 # 1
        BY <2>1, <3>1, Taken
      <4>2. 1 \in 1..Len(jobs) /\ job' = [job EXCEPT ![w] = jobs[1]]
        BY <2>1, <3>1, Taken
      <4>3. ASSUME NEW i \in 1..Len(jobs'), NEW j \in 1..Len(jobs'), jobs'[i] = jobs'[j] PROVE i = j
        BY <4>1, <4>3 DEF OneJob
      <4>4. ASSUME NEW u \in Workers, NEW v \in Workers, job'[u] # "none", job'[u] = job'[v] PROVE u = v
        BY <4>2, <4>4, Zenon DEF OneJob
      <4>5. ASSUME NEW i \in 1..Len(jobs'), NEW v \in Workers PROVE jobs'[i] # job'[v]
        BY <4>1, <4>2 DEF OneJob
      <4> QED BY <4>3, <4>4, <4>5, Zenon DEF OneJob
    <3>4. Owners'
      BY <2>1, <3>1, Taken DEF Owners, Suspended
    <3>5. Filled'
      BY <3>1 DEF Filled, Answered, Canceled
    <3> QED BY <3>2, <3>3, <3>4, <3>5, Zenon
  <2>2. CASE jobs = <<>>
    BY <1>1, <2>2 DEF Work, Take, Inside, OneJob, Owners, Suspended, Filled, Answered, Canceled, NeverEmpty
  <2> QED BY <2>1, <2>2, Zenon
<1>2. CASE Start(w)
  BY <1>2 DEF Start, Inside, OneJob, Owners, Suspended, Filled, Answered, Canceled, NeverEmpty
<1>3. ASSUME NEW r \in {"value", "error"}, Call(w, r) PROVE PoolInv'
  <2>1. job[w] \in Tasks BY <1>3 DEF Call, Inside
  <2> QED BY <1>3, <2>1 DEF Call, Inside, OneJob, Owners, Suspended, Filled, Answered, Canceled, NeverEmpty
<1>4. CASE Post(w)
  <2>1. job[w] \in Tasks /\ Answered(job[w])
    BY <1>4, Zenon DEF Post, Inside, Answered
  <2>2. PoolTypes' /\ Inside' /\ NeverEmpty'
    BY <1>4, <2>1, Zenon DEF Post, Inside, NeverEmpty
  <2>3. OneJob'
    <3>1. \A v \in Workers : job'[v] = IF v = w THEN "none" ELSE job[v]
      BY <1>4, Zenon DEF Post
    <3>2. jobs' = jobs /\ \A i \in 1..Len(jobs) : jobs[i] \in Tasks
      BY <1>4 DEF Post
    <3> QED BY <3>1, <3>2, NoneIsNoTask DEF OneJob
  <2>4. Owners'
    BY <1>4, <2>1 DEF Post, Inside, OneJob, Owners, Suspended
  <2>5. ASSUME NEW t \in Tasks, Answered(t)' PROVE Answered(t)
    BY <1>4, <2>1, <2>5, NoneIsNoTask, Zenon DEF Post, Answered
  <2> QED BY <1>4, <2>2, <2>4, <2>5, <2>3, Zenon DEF Post, Filled, Canceled
<1>5. CASE Spurious(w)
  BY <1>5 DEF Spurious, Wake, Inside, OneJob, Owners, Suspended, Filled, Answered, Canceled, NeverEmpty
<1> QED BY <1>1, <1>2, <1>3, <1>4, <1>5, Zenon DEF WorkerStep

\* Stops and tokens: a token is replaced only between two calls of run().
LEMMA StopKeeps ==
  ASSUME PoolInv, NEW t \in Tasks, RequestStop(t) \/ NewToken(t) \/ Stop(t)
  PROVE  PoolInv'
<1> USE DEF PoolInv, PoolTypes
<1>1. CASE RequestStop(t) \/ Stop(t)
  <2>1. UNCHANGED <<jobs, wk, job, st, slot, mail, res>>
    BY <1>1, Zenon DEF RequestStop, Stop
  <2>2. tok' \in [Tasks -> BOOLEAN] /\ stopping' \in [Tasks -> BOOLEAN]
    BY <1>1, Zenon DEF RequestStop, Stop
  <2>3. \A u \in Tasks : (Answered(u)' => Answered(u)) /\ (Canceled(u) => Canceled(u)') /\ slot'[u] = slot[u]
    BY <1>1 DEF RequestStop, Stop, Answered, Canceled
  <2> QED BY <2>1, <2>3, <2>2 DEF Filled, Inside, OneJob, Owners, Suspended, NeverEmpty
<1>2. CASE NewToken(t)
  <2>1. ~Answered(t)
    BY <1>2, NoneIsNoTask, Zenon DEF NewToken, Owners, Suspended, Answered
  <2>2. Filled'
    BY <1>2, <2>1 DEF NewToken, Filled, Answered, Canceled
  <2> QED BY <1>2, <2>2, Zenon DEF NewToken, Inside, OneJob, Owners, Suspended, NeverEmpty
<1> QED BY <1>1, <1>2, Zenon

\* The destructor only wakes workers.
LEMMA CloseKeeps ==
  ASSUME PoolInv, Close \/ CloseNotify \/ CloseJoin
  PROVE  PoolInv'
  BY DEF Close, CloseNotify, CloseJoin, Wake, Woken, PoolInv, PoolTypes, Inside, OneJob, Owners,
         Suspended, Filled, Answered, Canceled, NeverEmpty

\* The inductive invariant of the pool: it holds initially, and run(), the workers, stops
\* and the destructor keep it.
THEOREM PoolInductive == Spec => []PoolInv
<1>1. Init => PoolInv
  BY DEF Init, PoolInv, PoolTypes, Inside, OneJob, Owners, Suspended, Filled, Answered, NeverEmpty
<1>2. ASSUME PoolInv, [Next]_vars PROVE PoolInv'
  <2>1. CASE UNCHANGED vars
    BY <1>2, <2>1 DEF vars, PoolInv, PoolTypes, Inside, OneJob, Owners, Suspended, Filled, Answered,
                      Canceled, NeverEmpty
  <2> QED
    BY <1>2, <2>1, EnqueueKeeps, CallerKeeps, WorkerKeeps, StopKeeps, CloseKeeps, Zenon DEF Next
<1> QED BY <1>1, <1>2, PTL DEF Spec

\* The lifetime barrier of pool::run, for any number of tasks and workers: the frame a
\* queued or running job refers to is suspended, and no task has two jobs.
THEOREM JobsHaveFrames == Spec => []FrameOutlivesJob
<1>1. PoolInv => FrameOutlivesJob
  <2> SUFFICES ASSUME PoolInv PROVE FrameOutlivesJob
    BY Zenon
  <2> DEFINE held == [w \in {v \in Workers : job[v] # "none"} |-> job[w]]
  <2>1. IsInjective(jobs) /\ DOMAIN jobs = 1..Len(jobs)
    BY DEF PoolInv, PoolTypes, OneJob, IsInjective
  <2>2. IsInjective(held)
    BY Zenon DEF PoolInv, OneJob, IsInjective
  <2>3. Range(jobs) \cap Range(held) = {}
    <3> SUFFICES ASSUME NEW x \in Range(jobs), x \in Range(held) PROVE FALSE
      BY Zenon
    <3>1. PICK i \in 1..Len(jobs) : x = jobs[i] BY <2>1, Zenon DEF Range
    <3>2. PICK w \in Workers : x = job[w] BY Zenon DEF Range
    <3> QED BY <3>1, <3>2, Zenon DEF PoolInv, OneJob
  <2>4. \A t \in Range(jobs) \cup Range(held) : st[t] \in {"pushed", "joined"} /\ ~mail[t]
    BY <2>1, Zenon DEF PoolInv, Owners, Suspended, Range
  <2> QED BY <2>1, <2>2, <2>3, <2>4, Zenon DEF FrameOutlivesJob
<1> QED BY <1>1, PoolInductive, PTL

\* pool::run never dereferences an empty slot.
THEOREM SlotsFilled == Spec => []NeverEmpty
  BY PoolInductive, PTL DEF PoolInv
-----------------------------------------------------------------------------
\* The files.

Operations == [file : Files, left : Int, size : Int]

Busy(f) == {t \in Tasks : op[t] # <<>> /\ st[t] # "idle" /\ op[t].file = f}

\* Only an operation of a file enters the pool, and its file knows of it.
FileInv ==
  /\ closing = "open"
  /\ fd \in [Files -> {"unborn", "open", "empty"}] /\ active \in [Files -> Nat]
  /\ op \in [Tasks -> Operations \cup {<<>>}]
  /\ \A t \in Tasks : st[t] # "idle" => op[t] # <<>>
  /\ \A f \in Files : active[f] = Cardinality(Busy(f)) /\ (Busy(f) # {} => fd[f] = "open")
-----------------------------------------------------------------------------
\* A record is not the empty tuple.
LEMMA OperationIsNotEmpty == \A o \in Operations : o # <<>>
<1> SUFFICES ASSUME NEW o \in Operations, o = <<>> PROVE FALSE
  BY Zenon
<1>1. "file" \in DOMAIN o BY Zenon DEF Operations
<1>2. DOMAIN <<>> = {} OBVIOUS
<1> QED BY <1>1, <1>2, Zenon

\* Every step of the files is a step of the pool or leaves the pool alone.
LEMMA FileStepsArePoolSteps ==
  ASSUME [FileNext]_<<vars, fileVars>>
  PROVE  [Next]_vars
<1>1. CASE \E f \in Files : FileStep(f)
  BY <1>1, Zenon DEF FileStep, Open, Destroy, Move, WriteAll, Flush, Operate
<1>2. ASSUME NEW t \in Tasks, Write(t) \/ Wrote(t) PROVE [Next]_vars
  BY <1>2, Zenon DEF Write, Wrote, Next, CallerStep
<1>3. ASSUME NEW w \in Workers, NEW k \in 0..Length, Pwrite(w, k) PROVE [Next]_vars
  <2>1. \E r \in {"value", "error"} : Call(w, r) BY <1>3, Zenon DEF Pwrite
  <2> QED BY <2>1, Zenon DEF Next, WorkerStep
<1>4. CASE PoolStep
  BY <1>4, Zenon DEF PoolStep, Next, CallerStep, WorkerStep
<1>5. CASE UNCHANGED <<vars, fileVars>>
  BY <1>5, Zenon
<1> QED BY <1>1, <1>2, <1>3, <1>4, <1>5, Zenon DEF FileNext

\* Files use the pool only as Pool describes its callers: what is proved of the pool holds
\* for the pool that serves them.
THEOREM FilesUsePool == FileSpec => Spec
  BY FileStepsArePoolSteps, PTL DEF FileSpec, Spec

\* The operations of a file in flight are finitely many, and none if active_ is zero.
LEMMA BusyFinite ==
  ASSUME NEW f \in Files
  PROVE  /\ IsFiniteSet(Busy(f)) /\ Cardinality(Busy(f)) \in Nat
         /\ Cardinality(Busy(f)) = 0 <=> Busy(f) = {}
<1>1. Busy(f) \subseteq Tasks BY Zenon DEF Busy
<1>2. IsFiniteSet(Busy(f)) BY <1>1, TasksFinite, FS_Subset, Zenon
<1> QED BY <1>2, FS_CardinalityType, FS_EmptySet, Zenon

\* What does not concern the operations of any file in flight keeps the invariant, if
\* files with such operations stay open.
LEMMA Idle ==
  ASSUME FileInv, closing' = closing, active' = active,
         fd' \in [Files -> {"unborn", "open", "empty"}],
         op' \in [Tasks -> Operations \cup {<<>>}],
         \A t \in Tasks : st'[t] # "idle" => op'[t] # <<>>,
         \A f \in Files : Busy(f)' = Busy(f) /\ (Busy(f) # {} => fd'[f] = fd[f])
  PROVE  FileInv'
<1>1. \A f \in Files : Cardinality(Busy(f))' = Cardinality(Busy(f)) BY Zenon
<1> QED BY <1>1, Zenon DEF FileInv

\* Objects are created, moved and destroyed, and operations begin, beside those in flight.
LEMMA FileStepKeeps ==
  ASSUME FileInv, NEW f \in Files, FileStep(f)
  PROVE  FileInv'
<1> USE DEF FileInv
<1>1. CASE Open(f)
  <2>1. \A g \in Files : Busy(g)' = Busy(g) BY <1>1, Zenon DEF Open, Busy, vars
  <2> QED BY <1>1, <2>1, Idle, Zenon DEF Open, vars
<1>2. CASE Destroy(f)
  <2>1. Busy(f) = {} /\ \A g \in Files : Busy(g)' = Busy(g) BY <1>2, Zenon DEF Destroy, Busy, vars
  <2> QED BY <1>2, <2>1, Idle, Zenon DEF Destroy, vars
<1>3. ASSUME NEW g \in Files, Move(f, g) PROVE FileInv'
  <2>1. Busy(f) = {} /\ \A h \in Files : Busy(h)' = Busy(h)
    BY <1>3, BusyFinite, Zenon DEF Move, Busy, vars
  <2> QED BY <1>3, <2>1, Idle, Zenon DEF Move, vars
<1>4. ASSUME NEW t \in Tasks, NEW k \in Int, Operate(t, f, k) PROVE FileInv'
  <2>1. op' \in [Tasks -> Operations \cup {<<>>}] BY <1>4, SMTT(30) DEF Operate, Operations
  <2>2. UNCHANGED <<st, closing, fd, active>> /\ st[t] = "idle" BY <1>4, Zenon DEF Operate, vars
  <2>3. \A u \in Tasks \ {t} : op'[u] = op[u] BY <1>4, Zenon DEF Operate
  <2>4. \A g \in Files : Busy(g)' = Busy(g) BY <2>2, <2>3 DEF Busy
  <2> QED BY <2>1, <2>2, <2>3, <2>4, Idle, Zenon
<1> QED BY <1>1, <1>2, <1>3, <1>4, LengthIsNatural, SMTT(30) DEF FileStep, WriteAll, Flush

\* The pool takes no task out of its call.
LEMMA PoolStepKeeps ==
  ASSUME FileInv, PoolTypes, PoolStep
  PROVE  FileInv'
<1>1. UNCHANGED <<closing, fd, active, op>>
  BY Zenon DEF PoolStep, fileVars, Notify, Joined, RequestStop, Stop, NewToken, Work, Start, Post, Spurious
<1>2. \A t \in Tasks : st'[t] = "idle" <=> st[t] = "idle"
  <2>1. ASSUME NEW t \in Tasks, Notify(t) \/ Joined(t)
        PROVE  \A u \in Tasks : st'[u] = "idle" <=> st[u] = "idle"
    BY <2>1 DEF PoolTypes, Notify, Joined
  <2>2. CASE ~\E t \in Tasks : Notify(t) \/ Joined(t)
    BY <2>2, Zenon DEF PoolStep, RequestStop, Stop, NewToken, Work, Start, Post, Spurious
  <2> QED BY <2>1, <2>2, Zenon
<1>3. \A f \in Files : Busy(f)' = Busy(f) BY <1>1, <1>2, Zenon DEF Busy
<1> QED BY <1>1, <1>2, <1>3, Idle, Zenon DEF FileInv

\* A round of an operation: it enters the pool and is counted in, or it is over.
LEMMA WriteKeeps ==
  ASSUME FileInv, PoolTypes, NEW t \in Tasks, Write(t)
  PROVE  FileInv'
<1>1. st[t] = "idle" /\ op[t] # <<>> /\ op[t].file \in Files BY Zenon DEF Write, FileInv, Operations
<1> PICK f \in Files : f = op[t].file BY <1>1, Zenon
<1>2. CASE op[t].left = 0 \/ fd[op[t].file] # "open" \/ Canceled(t)
  <2>1. op' = [op EXCEPT ![t] = <<>>] /\ UNCHANGED <<vars, active, fd>> BY <1>2, Zenon DEF Write
  <2>2. UNCHANGED <<st, closing>> BY <2>1, Zenon DEF vars
  <2>3. op' \in [Tasks -> Operations \cup {<<>>}] BY <2>1, Zenon DEF FileInv
  <2>4. \A u \in Tasks \ {t} : op'[u] = op[u] BY <2>1, Zenon DEF FileInv
  <2>5. \A g \in Files : Busy(g)' = Busy(g) BY <1>1, <2>2, <2>4, Zenon DEF Busy
  <2> QED BY <1>1, <2>1, <2>2, <2>3, <2>4, <2>5, Idle, Zenon DEF FileInv
<1>3. CASE ~(op[t].left = 0 \/ fd[op[t].file] # "open" \/ Canceled(t))
  <2>1. /\ Enqueue(t) /\ ~Canceled(t) /\ fd[f] = "open"
        /\ active' = [active EXCEPT ![f] = @ + 1] /\ UNCHANGED <<op, fd>>
    BY <1>3, Zenon DEF Write
  <2>2. st' = [st EXCEPT ![t] = "pushed"] /\ closing' = "open" BY <2>1, Zenon DEF Enqueue, FileInv
  <2>3. Busy(f)' = Busy(f) \cup {t} /\ t \notin Busy(f) /\ \A g \in Files \ {f} : Busy(g)' = Busy(g)
    BY <1>1, <2>1, <2>2 DEF Busy, PoolTypes
  <2>4. Cardinality(Busy(f)') = Cardinality(Busy(f)) + 1 BY <2>3, BusyFinite, FS_AddElement, SMTT(30)
  <2>5. \A g \in Files : Cardinality(Busy(g)') = active'[g] /\ active'[g] \in Nat
    <3>1. active[f] = Cardinality(Busy(f)) /\ active[f] \in Nat BY Zenon DEF FileInv
    <3>2. active'[f] = active[f] + 1 BY <2>1, Zenon DEF FileInv
    <3>3. ASSUME NEW g \in Files \ {f} PROVE Cardinality(Busy(g)') = active'[g] /\ active'[g] \in Nat
      <4>1. active'[g] = active[g] /\ active[g] = Cardinality(Busy(g)) /\ active[g] \in Nat
        BY <2>1, Zenon DEF FileInv
      <4> QED BY <2>3, <4>1, Zenon
    <3> QED BY <2>4, <3>1, <3>2, <3>3
  <2>6. \A g \in Files : Busy(g)' # {} => fd'[g] = "open" BY <2>1, <2>3, Zenon DEF FileInv
  <2>7. active' \in [Files -> Nat] BY <2>1, <2>5, Zenon DEF FileInv
  <2>8. \A u \in Tasks : st'[u] # "idle" => op'[u] # <<>> BY <1>1, <2>1, <2>2, Zenon DEF FileInv, PoolTypes
  <2> QED BY <2>1, <2>2, <2>5, <2>6, <2>7, <2>8, Zenon DEF FileInv
<1> QED BY <1>2, <1>3, Zenon

\* transfer() ends and is counted out.
LEMMA WroteKeeps ==
  ASSUME FileInv, PoolTypes, NEW t \in Tasks, Wrote(t)
  PROVE  FileInv'
<1>1. op[t] \in Operations /\ op[t].file \in Files BY Zenon DEF FileInv, Operations, Wrote, Return
<1> PICK f \in Files : f = op[t].file BY <1>1, Zenon
<1>2. /\ st[t] = "ready" /\ st' = [st EXCEPT ![t] = "idle"] /\ closing' = "open"
      /\ active' = [active EXCEPT ![f] = @ - 1] /\ fd' = fd
  BY Zenon DEF Wrote, Return, FileInv
<1>3. Advanced(op[t]) \in Operations BY <1>1 DEF Advanced, Operations
<1>4. op' \in [Tasks -> Operations \cup {<<>>}] /\ \A u \in Tasks \ {t} : op'[u] = op[u]
  BY <1>3, Zenon DEF Wrote, FileInv
<1>5. Busy(f)' = Busy(f) \ {t} /\ t \in Busy(f) /\ \A g \in Files \ {f} : Busy(g)' = Busy(g)
  BY <1>1, <1>2, <1>4, OperationIsNotEmpty DEF Busy, PoolTypes
<1>6. Cardinality(Busy(f)') = Cardinality(Busy(f)) - 1
  <2>1. \A S : IsFiniteSet(S) => \A x \in S : Cardinality(S \ {x}) = Cardinality(S) - 1 BY FS_RemoveElement, Zenon
  <2>2. IsFiniteSet(Busy(f)) BY BusyFinite, Zenon
  <2> QED BY <1>5, <2>1, <2>2, Zenon
<1>7. Cardinality(Busy(f)) \in Nat \ {0} BY <1>5, BusyFinite, Zenon
<1>8. \A g \in Files : Cardinality(Busy(g)') = active'[g] /\ active'[g] \in Nat
  <2>1. active[f] = Cardinality(Busy(f)) BY Zenon DEF FileInv
  <2>2. active'[f] = active[f] - 1 BY <1>2, Zenon DEF FileInv
  <2>3. ASSUME NEW g \in Files \ {f} PROVE Cardinality(Busy(g)') = active'[g] /\ active'[g] \in Nat
    <3>1. active'[g] = active[g] /\ active[g] = Cardinality(Busy(g)) /\ active[g] \in Nat
      BY <1>2, Zenon DEF FileInv
    <3> QED BY <1>5, <3>1, Zenon
  <2> QED BY <1>6, <1>7, <2>1, <2>2, <2>3
<1>9. active' \in [Files -> Nat] BY <1>2, <1>8, Zenon DEF FileInv
<1>10. \A g \in Files : Busy(g)' # {} => fd'[g] = "open" BY <1>2, <1>5, Zenon DEF FileInv
<1>11. \A u \in Tasks : st'[u] # "idle" => op'[u] # <<>> BY <1>2, <1>4 DEF FileInv, PoolTypes
<1> QED BY <1>2, <1>4, <1>8, <1>9, <1>10, <1>11, Zenon DEF FileInv

\* The system call on the worker leaves the counts alone.
LEMMA PwriteKeeps ==
  ASSUME FileInv, PoolInv, NEW w \in Workers, NEW k \in 0..Length, Pwrite(w, k)
  PROVE  FileInv'
<1> DEFINE t == job[w]
<1>1. wk[w] = "busy" /\ UNCHANGED <<closing, st, fd, active>> BY Zenon DEF Pwrite, Call
<1>2. t \in Tasks /\ st[t] # "idle"
  BY <1>1 DEF PoolInv, PoolTypes, Inside, Owners, Suspended
<1>3. op[t] \in Operations BY <1>2, Zenon DEF FileInv
<1>4. op' = [op EXCEPT ![t] = [op[t] EXCEPT !.size = k]] BY Zenon DEF Pwrite
<1>5. [op[t] EXCEPT !.size = k] \in Operations /\ [op[t] EXCEPT !.size = k].file = op[t].file
  BY <1>3, LengthIsNatural DEF Operations
<1>6. /\ op' \in [Tasks -> Operations \cup {<<>>}] /\ op'[t] # <<>> /\ op'[t].file = op[t].file
      /\ \A u \in Tasks \ {t} : op'[u] = op[u]
  BY <1>2, <1>4, <1>5, OperationIsNotEmpty, Zenon DEF FileInv
<1>7. \A f \in Files : Busy(f)' = Busy(f)
  BY <1>1, <1>2, <1>3, <1>6, OperationIsNotEmpty DEF Busy
<1> QED BY <1>1, <1>6, <1>7, Idle, Zenon DEF FileInv

\* active_ counts the operations in flight on a file, which stays open under them: no worker
\* finds the file object moved from or closed.
THEOREM FilesStaySteady == FileSpec => []FileSteady
<1>1. Init /\ FileInit => FileInv
  <2> SUFFICES ASSUME Init, FileInit PROVE FileInv
    BY Zenon
  <2>1. \A f \in Files : Busy(f) = {} BY Zenon DEF Init, FileInit, Busy
  <2> QED BY <2>1, FS_EmptySet, Zenon DEF Init, FileInit, FileInv
<1>2. ASSUME FileInv, PoolInv, [FileNext]_<<vars, fileVars>> PROVE FileInv'
  <2>1. CASE UNCHANGED <<vars, fileVars>>
    <3>1. \A f \in Files : Busy(f)' = Busy(f) BY <2>1, Zenon DEF vars, fileVars, Busy
    <3> QED BY <1>2, <2>1, <3>1, Idle, Zenon DEF vars, fileVars, FileInv
  <2> QED
    BY <1>2, <2>1, FileStepKeeps, PoolStepKeeps, WriteKeeps, WroteKeeps, PwriteKeeps, Zenon
       DEF FileNext, PoolInv
<1>3. FileInv => FileSteady BY Zenon DEF FileInv, FileSteady, Busy
<1> QED BY <1>1, <1>2, <1>3, FilesUsePool, PoolInductive, PTL DEF FileSpec
-----------------------------------------------------------------------------
\* The futex.

\* The queue holds the parked waiters, each once; an error is stored with a delivery.
LineInv ==
  /\ line \in Seq(Waiters) /\ IsInjective(line)
  /\ fst \in [Waiters -> {"idle", "asking", "parked", "mailed"}]
  /\ old \in [Waiters -> Values \cup {F!Unset}] /\ err \in [Waiters -> {"none", "canceled"}]
  /\ fres \in [Waiters -> {"none", "canceled", "changed", "notified"}]
  /\ wakes \in {"one", "all"}
  /\ \A t \in Waiters : fst[t] = "parked" <=> t \in Range(line)
  /\ \A t \in Waiters : fst[t] # "mailed" => err[t] = "none"
-----------------------------------------------------------------------------
\* What is left of a queue when its first k nodes are unlinked.
LEMMA DropFacts ==
  ASSUME NEW s \in Seq(Waiters), IsInjective(s), NEW k \in 0..Len(s)
  PROVE  LET d == SubSeq(s, k + 1, Len(s))
         IN /\ d \in Seq(Waiters) /\ IsInjective(d)
            /\ \A e : e \in Range(d) <=> e \in Range(s) /\ \A i \in 1..k : e # s[i]
<1> DEFINE d == SubSeq(s, k + 1, Len(s))
<1>1. Len(s) \in Nat /\ DOMAIN s = 1..Len(s) /\ \A i \in 1..Len(s) : s[i] \in Waiters
  OBVIOUS
<1>2. /\ d \in Seq(Waiters) /\ DOMAIN d = 1..Len(s) - k
      /\ \A i \in 1..Len(s) - k : d[i] = s[k + i]
  <2>1. d \in Seq(Waiters) BY <1>1
  <2>2. Len(d) = Len(s) - k
    <3>1. CASE k = Len(s) BY <1>1, <3>1
    <3>2. CASE k + 1 <= Len(s) BY <1>1, <3>2
    <3>3. k = Len(s) \/ k + 1 <= Len(s)
      <4> DEFINE z == Len(s)
      <4>1. z \in Nat /\ k \in 0..z BY <1>1, Zenon
      <4> HIDE DEF z
      <4>2. k = z \/ k + 1 <= z BY <4>1
      <4> QED BY <4>2, Zenon DEF z
    <3> QED BY <3>1, <3>2, <3>3, Zenon
  <2>3. \A i \in 1..Len(s) - k : d[i] = s[k + i] BY <1>1
  <2>4. DOMAIN d = 1..Len(d) BY <2>1
  <2> QED BY <2>1, <2>2, <2>3, <2>4, Zenon
<1> HIDE DEF d
<1>3. IsInjective(d)
  <2> SUFFICES ASSUME NEW i \in 1..Len(s) - k, NEW j \in 1..Len(s) - k, d[i] = d[j] PROVE i = j
    BY <1>2, Zenon DEF IsInjective
  <2>1. k + i \in 1..Len(s) /\ k + j \in 1..Len(s) /\ s[k + i] = s[k + j] BY <1>1, <1>2
  <2>2. k + i = k + j BY <1>1, <2>1, Zenon DEF IsInjective
  <2> QED BY <1>1, <2>2
<1>4. ASSUME NEW e, e \in Range(d) PROVE e \in Range(s) /\ \A i \in 1..k : e # s[i]
  <2>1. PICK j \in 1..Len(s) - k : e = s[k + j] BY <1>2, <1>4, Zenon DEF Range
  <2> QED BY <1>1, <2>1 DEF Range, IsInjective
<1>5. ASSUME NEW e, e \in Range(s), \A i \in 1..k : e # s[i] PROVE e \in Range(d)
  <2>1. PICK j \in 1..Len(s) : e = s[j] BY <1>1, <1>5, Zenon DEF Range
  <2>2. j - k \in 1..Len(s) - k /\ d[j - k] = e BY <1>1, <1>2, <1>5, <2>1
  <2> QED BY <1>2, <2>2, Zenon DEF Range
<1> QED BY <1>2, <1>3, <1>4, <1>5, Zenon DEF d

\* One sequence after another.
LEMMA Concats ==
  ASSUME NEW S, NEW a \in Seq(S), NEW b \in Seq(S)
  PROVE  a \o b \in Seq(S) /\ Len(a \o b) = Len(a) + Len(b)
OBVIOUS

\* What is left when one node is unlinked.
LEMMA RemoveFacts ==
  ASSUME NEW s \in Seq(Waiters), IsInjective(s), NEW k \in 1..Len(s)
  PROVE  LET d == SubSeq(s, 1, k - 1) \o SubSeq(s, k + 1, Len(s))
         IN d \in Seq(Waiters) /\ IsInjective(d) /\ \A e : e \in Range(d) <=> e \in Range(s) /\ e # s[k]
<1> DEFINE a == SubSeq(s, 1, k - 1)
           b == SubSeq(s, k + 1, Len(s))
           d == a \o b
<1>1. Len(s) \in Nat /\ DOMAIN s = 1..Len(s) /\ \A i \in 1..Len(s) : s[i] \in Waiters
  OBVIOUS
<1>2. a \in Seq(Waiters) /\ Len(a) = k - 1 /\ \A i \in 1..k - 1 : a[i] = s[i]
  BY <1>1
<1>3. b \in Seq(Waiters) /\ Len(b) = Len(s) - k /\ \A i \in 1..Len(s) - k : b[i] = s[k + i]
  <2>1. Len(b) = IF k + 1 <= Len(s) THEN Len(s) - (k + 1) + 1 ELSE 0 BY <1>1
  <2>2. b \in Seq(Waiters) BY <1>1
  <2>3. ASSUME NEW i \in 1..Len(s) - k PROVE b[i] = s[k + i] BY <1>1
  <2> HIDE DEF b
  <2>4. Len(b) = Len(s) - k
    <3>1. CASE k + 1 <= Len(s)
      <4>1. Len(b) = Len(s) - (k + 1) + 1 BY <2>1, <3>1, Zenon
      <4> QED BY <1>1, <4>1
    <3>2. CASE ~(k + 1 <= Len(s))
      <4>1. Len(b) = 0 BY <2>1, <3>2, Zenon
      <4>2. \A z \in Nat : \A m \in 1..z : ~(m + 1 <= z) => z - m = 0 OBVIOUS
      <4>3. Len(s) - k = 0 BY <1>1, <3>2, <4>2, Zenon
      <4> QED BY <4>1, <4>3, Zenon
    <3> QED BY <3>1, <3>2, Zenon
  <2> QED BY <2>2, <2>3, <2>4, Zenon
<1> HIDE DEF a, b
<1>4. /\ d \in Seq(Waiters) /\ DOMAIN d = 1..Len(s) - 1
      /\ \A i \in 1..Len(s) - 1 : d[i] = IF i <= k - 1 THEN a[i] ELSE b[i - (k - 1)]
  <2>1. d \in Seq(Waiters) /\ Len(d) = Len(a) + Len(b) BY <1>2, <1>3, Concats, Zenon
  <2>2. \A i \in 1..Len(a) + Len(b) : d[i] = IF i <= Len(a) THEN a[i] ELSE b[i - Len(a)]
    BY <1>2, <1>3
  <2>3. Len(a) + Len(b) = Len(s) - 1 BY <1>1, <1>2, <1>3
  <2> HIDE DEF d
  <2>4. DOMAIN d = 1..Len(s) - 1 BY <2>1, <2>3
  <2> QED BY <1>2, <2>1, <2>2, <2>3, <2>4, Zenon
<1> HIDE DEF d
<1>5. \A i \in 1..Len(s) - 1 : d[i] = IF i < k THEN s[i] ELSE s[i + 1]
  <2> SUFFICES ASSUME NEW i \in 1..Len(s) - 1 PROVE d[i] = IF i < k THEN s[i] ELSE s[i + 1]
    BY Zenon
  <2>1. CASE i < k BY <1>1, <1>2, <1>4, <2>1
  <2>2. CASE ~(i < k)
    <3>1. i - (k - 1) \in 1..Len(s) - k /\ k + (i - (k - 1)) = i + 1 BY <1>1, <2>2
    <3>2. b[i - (k - 1)] = s[i + 1] BY <1>3, <3>1, Zenon
    <3>3. d[i] = b[i - (k - 1)] BY <1>1, <1>4, <2>2
    <3> QED BY <2>2, <3>2, <3>3, Zenon
  <2> QED BY <2>1, <2>2, Zenon
<1>6. IsInjective(d)
  <2> SUFFICES ASSUME NEW i \in 1..Len(s) - 1, NEW j \in 1..Len(s) - 1, d[i] = d[j] PROVE i = j
    BY <1>4, Zenon DEF IsInjective
  <2> DEFINE at(x) == IF x < k THEN x ELSE x + 1
  <2>1. at(i) \in 1..Len(s) /\ at(j) \in 1..Len(s) BY <1>1
  <2>2. s[at(i)] = s[at(j)] BY <1>5, Zenon
  <2>3. at(i) = at(j) BY <1>1, <2>1, <2>2, Zenon DEF IsInjective
  <2> QED BY <1>1, <2>3
<1>7. ASSUME NEW e, e \in Range(d) PROVE e \in Range(s) /\ e # s[k]
  <2>1. PICK j \in 1..Len(s) - 1 : e = d[j] BY <1>4, <1>7, Zenon DEF Range
  <2> QED BY <1>1, <1>5, <2>1 DEF Range, IsInjective
<1>8. ASSUME NEW e, e \in Range(s), e # s[k] PROVE e \in Range(d)
  <2>1. PICK j \in 1..Len(s) : e = s[j] BY <1>1, <1>8, Zenon DEF Range
  <2>2. CASE j < k
    <3>1. j \in 1..Len(s) - 1 /\ d[j] = e BY <1>1, <1>5, <2>1, <2>2
    <3> QED BY <1>4, <3>1, Zenon DEF Range
  <2>3. CASE j > k
    <3>1. j - 1 \in 1..Len(s) - 1 /\ d[j - 1] = e BY <1>1, <1>5, <2>1, <2>3
    <3> QED BY <1>4, <3>1, Zenon DEF Range
  <2> QED BY <1>8, <2>1, <2>2, <2>3
<1> QED BY <1>4, <1>6, <1>7, <1>8, Zenon DEF d, a, b

\* A set of numbers that is not empty has a least one.
LEMMA Least ==
  ASSUME NEW T \in SUBSET Nat, T # {}
  PROVE  \E m \in T : \A j \in T : m <= j
<1>1. PICK m \in T : \A j \in T : ~(<<j, m>> \in OpToRel(<, Nat))
  BY NatLessThanWellFounded, WFMin, Zenon
<1>2. ASSUME NEW j \in T PROVE m <= j
  <2>1. <<j, m>> \in Nat \X Nat /\ <<j, m>>[1] = j /\ <<j, m>>[2] = m BY Zenon
  <2>2. ~(j < m) BY <1>1, <2>1, Zenon DEF OpToRel
  <2> QED BY <2>2
<1> QED BY <1>2, Zenon

\* front: the canceled waiters at the head of the queue, as many as there are.
LEMMA PruneFacts ==
  ASSUME LineInv
  PROVE  /\ F!Prune \in 0..Len(line)
         /\ \A i \in 1..F!Prune : F!Canceled(line[i])
         /\ F!Prune < Len(line) => ~F!Canceled(line[F!Prune + 1])
<1> DEFINE Prefix == {k \in 0..Len(line) : \A i \in 1..k : F!Canceled(line[i])}
           live == {i \in 1..Len(line) : ~F!Canceled(line[i])}
<1>1. Len(line) \in Nat BY DEF LineInv
<1>2. \E k \in Prefix : \A j \in Prefix : j <= k
  <2>1. CASE live = {}
    BY <1>1, <2>1
  <2>2. CASE live # {}
    <3>1. live \in SUBSET Nat BY <1>1
    <3>2. PICK m \in live : \A j \in live : m <= j
      <4> HIDE DEF live
      <4> QED BY <2>2, <3>1, Least, Zenon
    <3>3. m - 1 \in Prefix BY <1>1, <3>2
    <3>4. ASSUME NEW j \in Prefix PROVE j <= m - 1 BY <1>1, <3>2
    <3> QED BY <3>3, <3>4, Zenon
  <2> QED BY <2>1, <2>2, Zenon
<1>3. F!Prune \in Prefix /\ \A j \in Prefix : j <= F!Prune
  BY <1>2, Zenon DEF F!Prune
<1>4. ASSUME F!Prune < Len(line), F!Canceled(line[F!Prune + 1]) PROVE FALSE
  <2>1. F!Prune + 1 \in Prefix BY <1>1, <1>3, <1>4
  <2> QED BY <1>1, <1>3, <2>1
<1> QED BY <1>3, <1>4, Zenon
-----------------------------------------------------------------------------
\* A waiter goes to the end of the line.
LEMMA Joins ==
  ASSUME NEW s \in Seq(Waiters), NEW t \in Waiters
  PROVE  /\ Append(s, t) \in Seq(Waiters) /\ Range(Append(s, t)) = Range(s) \cup {t}
         /\ IsInjective(s) /\ t \notin Range(s) => IsInjective(Append(s, t))
<1>1. /\ Append(s, t) \in Seq(Waiters) /\ Len(s) \in Nat
      /\ DOMAIN s = 1..Len(s) /\ DOMAIN Append(s, t) = 1..Len(s) + 1
      /\ \A i \in 1..Len(s) : Append(s, t)[i] = s[i]
      /\ Append(s, t)[Len(s) + 1] = t
  OBVIOUS
<1>2. Range(Append(s, t)) = Range(s) \cup {t} BY <1>1 DEF Range
<1>3. IsInjective(s) /\ t \notin Range(s) => IsInjective(Append(s, t)) BY <1>1 DEF Range, IsInjective
<1> QED BY <1>1, <1>2, <1>3, Zenon

\* Initially nobody waits.
LEMMA LineInit == F!Init => LineInv
<1> SUFFICES ASSUME F!Init PROVE LineInv
  BY Zenon
<1>1. F!Unset \in Values \cup {F!Unset} BY Zenon
<1>2. line \in Seq(Waiters) /\ IsInjective(line) /\ Range(line) = {} BY DEF F!Init, Range, IsInjective
<1> QED BY <1>1, <1>2, Zenon DEF F!Init, LineInv

\* A wait that is not linked and not on its way ends: awaiters of other tasks are left alone.
LEMMA EndsKeeps ==
  ASSUME LineInv, NEW t \in Waiters, NEW r \in {"canceled", "changed", "notified"},
         F!Ends(t, r), line' \in Seq(Waiters), IsInjective(line'), UNCHANGED wakes,
         \A u \in Waiters : u \in Range(line') <=> u \in Range(line) /\ u # t
  PROVE  LineInv'
<1>1. F!Unset \in Values \cup {F!Unset} BY Zenon
<1>2. /\ fst' \in [Waiters -> {"idle", "asking", "parked", "mailed"}]
      /\ old' \in [Waiters -> Values \cup {F!Unset}] /\ err' \in [Waiters -> {"none", "canceled"}]
      /\ fres' \in [Waiters -> {"none", "canceled", "changed", "notified"}]
      /\ wakes' \in {"one", "all"}
  BY <1>1, Zenon DEF LineInv, F!Ends
<1>3. \A u \in Waiters : fst'[u] = (IF u = t THEN "idle" ELSE fst[u])
                       /\ err'[u] = (IF u = t THEN "none" ELSE err[u])
  BY Zenon DEF LineInv, F!Ends
<1>4. \A u \in Waiters : fst'[u] = "parked" <=> u \in Range(line')
  BY <1>3, Zenon DEF LineInv
<1>5. \A u \in Waiters : fst'[u] # "mailed" => err'[u] = "none"
  BY <1>3, Zenon DEF LineInv
<1> QED BY <1>2, <1>4, <1>5, Zenon DEF LineInv

\* A delivery takes the first k waiters out of the queue and mails exactly these.
LEMMA DeliverKeeps ==
  ASSUME LineInv, NEW k \in 0..Len(line), NEW K, K \subseteq {line[i] : i \in 1..k},
         F!Deliver(k, K), UNCHANGED <<old, fres, wakes>>
  PROVE  LineInv'
<1>1. /\ line' \in Seq(Waiters) /\ IsInjective(line')
      /\ \A e : e \in Range(line') <=> e \in Range(line) /\ \A i \in 1..k : e # line[i]
  BY DropFacts, Zenon DEF LineInv, F!Deliver
<1>2. /\ fst' \in [Waiters -> {"idle", "asking", "parked", "mailed"}]
      /\ old' \in [Waiters -> Values \cup {F!Unset}] /\ err' \in [Waiters -> {"none", "canceled"}]
      /\ fres' \in [Waiters -> {"none", "canceled", "changed", "notified"}]
      /\ wakes' \in {"one", "all"}
  BY Zenon DEF LineInv, F!Deliver
<1>3. \A u \in Waiters : fst'[u] = "parked" <=> u \in Range(line')
  <2> SUFFICES ASSUME NEW u \in Waiters PROVE fst'[u] = "parked" <=> u \in Range(line')
    BY Zenon
  <2>1. fst'[u] = IF \E i \in 1..k : u = line[i] THEN "mailed" ELSE fst[u] BY Zenon DEF F!Deliver
  <2>2. fst[u] = "parked" <=> u \in Range(line) BY Zenon DEF LineInv
  <2> QED BY <1>1, <2>1, <2>2, Zenon
<1>4. \A u \in Waiters : fst'[u] # "mailed" => err'[u] = "none"
  BY Zenon DEF LineInv, F!Deliver
<1> QED BY <1>1, <1>2, <1>3, <1>4, Zenon DEF LineInv

\* unlink takes one waiter out.
LEMMA LeaveFacts ==
  ASSUME LineInv, NEW t \in Waiters, fst[t] = "parked"
  PROVE  /\ F!Unlinked(t) \in Seq(Waiters) /\ IsInjective(F!Unlinked(t))
         /\ \A e : e \in Range(F!Unlinked(t)) <=> e \in Range(line) /\ e # t
<1>1. t \in Range(line) BY Zenon DEF LineInv
<1>2. DOMAIN line = 1..Len(line) BY DEF LineInv
<1> DEFINE i == CHOOSE i \in DOMAIN line : line[i] = t
<1>3. i \in 1..Len(line) /\ line[i] = t BY <1>1, <1>2, Zenon DEF Range
<1> HIDE DEF i
<1>4. LET d == SubSeq(line, 1, i - 1) \o SubSeq(line, i + 1, Len(line))
      IN d \in Seq(Waiters) /\ IsInjective(d)
         /\ \A e : e \in Range(d) <=> e \in Range(line) /\ e # line[i]
  BY <1>3, RemoveFacts DEF LineInv
<1> QED BY <1>3, <1>4, Zenon DEF F!Unlinked, i

\* Every step keeps the queue and the waiters' states in agreement.
LEMMA LineStep == LineInv /\ [F!Next]_(F!vars) => LineInv'
<1> SUFFICES ASSUME LineInv, [F!Next]_(F!vars) PROVE LineInv'
  BY Zenon
<1>1. ASSUME NEW t \in Waiters, NEW o \in Values, NEW j \in BOOLEAN, F!Begin(t, o, j) PROVE LineInv'
  <2>0. t \notin Range(line) BY <1>1, Zenon DEF LineInv, F!Begin
  <2>1. CASE ~j /\ (ftok[t] \/ t \in fstopping)
    BY <1>1, <2>0, <2>1, EndsKeeps, Zenon DEF LineInv, F!Begin
  <2>2. CASE ~(~j /\ (ftok[t] \/ t \in fstopping))
    BY <1>1, <2>0, <2>2 DEF LineInv, F!Begin
  <2> QED BY <2>1, <2>2, Zenon
<1>2. ASSUME NEW t \in Waiters, F!Enqueue(t) PROVE LineInv'
  <2>0. t \notin Range(line) BY <1>2, Zenon DEF LineInv, F!Enqueue
  <2>1. CASE F!Changed(t) \/ F!Stopped(t)
    <3>1. UNCHANGED <<line, wakes>> BY <1>2, <2>1, Zenon DEF F!Enqueue
    <3>2. F!Ends(t, "changed") \/ F!Ends(t, "canceled") BY <1>2, <2>1, Zenon DEF F!Enqueue
    <3> QED BY <2>0, <3>1, <3>2, EndsKeeps, Zenon DEF LineInv
  <2>2. CASE ~F!Changed(t) /\ ~F!Stopped(t)
    <3>1. /\ fst' = [fst EXCEPT ![t] = "parked"] /\ line' = Append(line, t)
          /\ UNCHANGED <<old, err, fres, wakes>>
      BY <1>2, <2>2, Zenon DEF F!Enqueue
    <3>2. line' \in Seq(Waiters) /\ IsInjective(line') /\ Range(line') = Range(line) \cup {t}
      BY <2>0, <3>1, Joins, Zenon DEF LineInv
    <3>3. \A u \in Waiters : fst'[u] = "parked" <=> u \in Range(line')
      BY <3>1, <3>2, Zenon DEF LineInv
    <3>4. \A u \in Waiters : fst'[u] # "mailed" => err'[u] = "none"
      BY <1>2, <3>1, Zenon DEF LineInv, F!Enqueue
    <3> QED BY <3>1, <3>2, <3>3, <3>4, Zenon DEF LineInv
  <2> QED BY <2>1, <2>2, Zenon
<1>3. ASSUME NEW t \in Waiters, F!Notified(t) PROVE LineInv'
  <2>1. t \notin Range(line) /\ UNCHANGED <<line, wakes>> BY <1>3, Zenon DEF LineInv, F!Notified
  <2>2. F!Ends(t, "notified") \/ F!Ends(t, "canceled") BY <1>3, Zenon DEF F!Notified
  <2> QED BY <2>1, <2>2, EndsKeeps, Zenon DEF LineInv
<1>4. ASSUME NEW t \in Waiters, F!Interrupt(t) PROVE LineInv'
  <2>1. fst[t] = "parked" /\ line' = F!Unlinked(t) /\ F!Ends(t, "canceled") /\ UNCHANGED wakes
    BY <1>4, Zenon DEF F!Interrupt
  <2> QED BY <2>1, LeaveFacts, EndsKeeps, Zenon
<1>5. ASSUME NEW t \in Waiters, F!RequestStop(t) \/ F!NewToken(t) \/ F!Callback(t) \/ F!Stop(t) PROVE LineInv'
  BY <1>5, Zenon DEF LineInv, F!RequestStop, F!NewToken, F!Callback, F!Stop
<1>6. ASSUME NEW x \in Writers, NEW v \in Values, F!Store(x, v) PROVE LineInv'
  BY <1>6, Zenon DEF LineInv, F!Store
<1>7. ASSUME NEW x \in Writers, F!NotifyOne(x) PROVE LineInv'
  <2> DEFINE z == IF F!Prune < Len(line) THEN F!Prune + 1 ELSE F!Prune
  <2>1. F!Prune \in 0..Len(line) /\ Len(line) \in Nat BY PruneFacts DEF LineInv
  <2>2. z \in 0..Len(line) /\ 1..F!Prune \subseteq 1..z BY <2>1
  <2>3. F!Deliver(z, {line[i] : i \in 1..F!Prune}) /\ UNCHANGED <<old, fres, wakes>>
    BY <1>7, Zenon DEF F!NotifyOne
  <2> HIDE DEF z
  <2>4. {line[i] : i \in 1..F!Prune} \subseteq {line[i] : i \in 1..z} BY <2>2, Zenon
  <2> QED BY <2>2, <2>3, <2>4, DeliverKeeps, Zenon
<1>8. ASSUME NEW x \in Writers, F!NotifyAll(x) PROVE LineInv'
  <2>1. Len(line) \in Nat /\ DOMAIN line = 1..Len(line) BY DEF LineInv
  <2>2. {t \in Range(line) : F!Canceled(t)} \subseteq {line[i] : i \in 1..Len(line)}
    BY <2>1, Zenon DEF Range
  <2>3. F!Deliver(Len(line), {t \in Range(line) : F!Canceled(t)}) /\ UNCHANGED <<old, fres, wakes>>
    BY <1>8, Zenon DEF F!NotifyAll, F!Range, Range
  <2> QED BY <2>1, <2>2, <2>3, DeliverKeeps
<1>9. CASE UNCHANGED F!vars
  BY <1>9, Zenon DEF LineInv, F!vars
<1> QED BY <1>1, <1>2, <1>3, <1>4, <1>5, <1>6, <1>7, <1>8, <1>9, Zenon DEF F!Next

\* The queue holds exactly the parked waiters, in every reachable state.
THEOREM LineInductive == F!Spec => []LineInv
<1> QED BY LineInit, LineStep, PTL DEF F!Spec
-----------------------------------------------------------------------------
\* Store makes its writer owe a notification; the wait parks only on the value it expects;
\* notify_all takes every parked waiter with it.
LEMMA StaleStep == LineInv /\ NoStaleWait /\ [F!Next]_(F!vars) => NoStaleWait'
<1> SUFFICES ASSUME LineInv, NoStaleWait, [F!Next]_(F!vars), wakes' = "all",
                    NEW u \in Waiters, fst'[u] = "parked", value' # old'[u]
             PROVE  owes' # {}
  BY Zenon DEF NoStaleWait
<1>1. wakes = "all" /\ ~(\E x \in Writers : F!NotifyOne(x))
  BY Zenon DEF F!Next, F!vars, F!Begin, F!Enqueue, F!Notified, F!Interrupt, F!RequestStop, F!NewToken, F!Callback, F!Stop,
         F!Store, F!NotifyOne, F!NotifyAll
<1>2. ASSUME fst[u] = "parked", value = value', old'[u] = old[u], owes' = owes PROVE owes' # {}
  BY <1>1, <1>2, Zenon DEF NoStaleWait
<1>3. ASSUME NEW t \in Waiters, NEW r, F!Ends(t, r), UNCHANGED <<value, owes>> PROVE owes' # {}
  <2>1. u # t BY <1>3, Zenon DEF F!Ends, LineInv
  <2>2. fst'[u] = fst[u] /\ old'[u] = old[u] BY <1>3, <2>1, Zenon DEF F!Ends, LineInv
  <2> QED BY <1>2, <1>3, <2>2, Zenon
<1>4. ASSUME NEW t \in Waiters, NEW o \in Values, NEW j \in BOOLEAN, F!Begin(t, o, j) PROVE owes' # {}
  <2>1. CASE ~j /\ (ftok[t] \/ t \in fstopping)
    BY <1>3, <1>4, <2>1, Zenon DEF F!Begin
  <2>2. CASE ~(~j /\ (ftok[t] \/ t \in fstopping))
    <3>1. fst' = [fst EXCEPT ![t] = "asking"] /\ old' = [old EXCEPT ![t] = o] /\ UNCHANGED <<value, owes>>
      BY <1>4, <2>2, Zenon DEF F!Begin
    <3>2. u # t BY <3>1, Zenon DEF LineInv
    <3>3. fst'[u] = fst[u] /\ old'[u] = old[u] BY <3>1, <3>2, Zenon DEF LineInv
    <3> QED BY <1>2, <3>1, <3>3, Zenon
  <2> QED BY <2>1, <2>2, Zenon
<1>5. ASSUME NEW t \in Waiters, F!Enqueue(t) PROVE owes' # {}
  <2>0. UNCHANGED <<value, owes>> BY <1>5, Zenon DEF F!Enqueue
  <2>1. CASE F!Changed(t) \/ F!Stopped(t)
    <3>1. F!Ends(t, "changed") \/ F!Ends(t, "canceled") BY <1>5, <2>1, Zenon DEF F!Enqueue
    <3> QED BY <1>3, <2>0, <3>1, Zenon
  <2>2. CASE ~F!Changed(t) /\ ~F!Stopped(t)
    <3>1. fst' = [fst EXCEPT ![t] = "parked"] /\ old' = old BY <1>5, <2>2, Zenon DEF F!Enqueue
    <3>2. u # t BY <2>0, <2>2, <3>1, Zenon DEF F!Changed
    <3>3. fst'[u] = fst[u] BY <3>1, <3>2, Zenon DEF LineInv
    <3> QED BY <1>2, <2>0, <3>1, <3>3, Zenon
  <2> QED BY <2>1, <2>2, Zenon
<1>6. ASSUME NEW t \in Waiters, F!Notified(t) \/ F!Interrupt(t) PROVE owes' # {}
  BY <1>3, <1>6, Zenon DEF F!Notified, F!Interrupt
<1>7. ASSUME NEW t \in Waiters, F!RequestStop(t) \/ F!NewToken(t) \/ F!Callback(t) \/ F!Stop(t) PROVE owes' # {}
  BY <1>2, <1>7, Zenon DEF F!RequestStop, F!NewToken, F!Callback, F!Stop
<1>8. ASSUME NEW x \in Writers, NEW v \in Values, F!Store(x, v) PROVE owes' # {}
  BY <1>8, Zenon DEF F!Store
<1>9. ASSUME NEW x \in Writers, F!NotifyAll(x) PROVE FALSE
  <2>1. fst'[u] = IF \E i \in 1..Len(line) : u = line[i] THEN "mailed" ELSE fst[u]
    BY <1>9, Zenon DEF F!NotifyAll, F!Deliver
  <2>2. fst[u] = "parked" /\ ~(\E i \in 1..Len(line) : u = line[i]) BY <2>1, Zenon
  <2>3. u \in Range(line) /\ DOMAIN line = 1..Len(line) BY <2>2 DEF LineInv
  <2> QED BY <2>2, <2>3, Zenon DEF Range
<1>10. CASE UNCHANGED F!vars
  BY <1>2, <1>10, Zenon DEF F!vars
<1> QED BY <1>1, <1>4, <1>5, <1>6, <1>7, <1>8, <1>9, <1>10, Zenon DEF F!Next

\* futex::wait and notify_all never lose a wake-up: a waiter that sleeps on a value that
\* has gone is always owed a notification, whatever the number of waiters and writers.
THEOREM FutexWakeupsKept == F!Spec => []NoStaleWait
<1>1. F!Init => NoStaleWait
  BY Zenon DEF F!Init, NoStaleWait
<1> QED BY <1>1, LineInit, LineStep, StaleStep, PTL DEF F!Spec
-----------------------------------------------------------------------------
\* A notify that finds a live waiter mails one without an error.
LEMMA NotifyWakes ==
  ASSUME LineInv, NEW x \in Writers, F!NotifyOne(x) \/ F!NotifyAll(x),
         \E t \in Range(line) : ~F!Canceled(t)
  PROVE  \E t \in Range(line) : ~F!Canceled(t) /\ fst'[t] = "mailed" /\ err'[t] = "none"
<1>0. /\ Len(line) \in Nat /\ DOMAIN line = 1..Len(line)
      /\ \A i \in 1..Len(line) : line[i] \in Waiters
  BY DEF LineInv
<1>1. \A i \in 1..Len(line) : line[i] \in Range(line) /\ err[line[i]] = "none"
  BY <1>0, Zenon DEF LineInv, Range
<1>2. PICK k \in 1..Len(line) : ~F!Canceled(line[k])
  BY <1>0, Zenon DEF Range
<1>3. CASE F!NotifyOne(x)
  <2>1. /\ F!Prune \in 0..Len(line) /\ \A i \in 1..F!Prune : F!Canceled(line[i])
        /\ F!Prune < Len(line) => ~F!Canceled(line[F!Prune + 1])
    BY PruneFacts, Zenon
  <2>2. F!Prune < Len(line) BY <1>0, <1>2, <2>1
  <2> DEFINE m == F!Prune + 1
  <2>3. m \in 1..Len(line) /\ ~F!Canceled(line[m]) BY <1>0, <2>1, <2>2
  <2>4. F!Deliver(m, {line[i] : i \in 1..F!Prune}) BY <1>3, <2>2, Zenon DEF F!NotifyOne
  <2>5. line[m] \notin {line[i] : i \in 1..F!Prune} BY <2>1, <2>3, Zenon
  <2> HIDE DEF m
  <2>6. m \in 1..m BY <2>3
  <2>7. fst'[line[m]] = "mailed" /\ err'[line[m]] = "none"
    BY <1>0, <1>1, <2>3, <2>4, <2>5, <2>6, Zenon DEF F!Deliver
  <2> QED BY <1>1, <2>3, <2>7, Zenon
<1>4. CASE F!NotifyAll(x)
  <2>1. F!Deliver(Len(line), {t \in Range(line) : F!Canceled(t)})
    BY <1>4, Zenon DEF F!NotifyAll, F!Range, Range
  <2>2. fst'[line[k]] = "mailed" /\ err'[line[k]] = "none"
    BY <1>0, <1>1, <1>2, <2>1, Zenon DEF F!Deliver
  <2> QED BY <1>1, <1>2, <2>2, Zenon
<1> QED BY <1>3, <1>4, Zenon

\* A wait that ends is the only thing that takes a message back, and only its owner ends it.
LEMMA MailKept ==
  ASSUME LineInv, F!Next, NEW u \in Waiters, fst[u] = "mailed", err[u] = "none", fst'[u] # "mailed"
  PROVE  fres'[u] = "notified"
<1>1. ASSUME NEW t \in Waiters, t # u, NEW r, F!Ends(t, r) PROVE FALSE
  BY <1>1, Zenon DEF F!Ends, LineInv
<1>2. ASSUME NEW k, NEW K, F!Deliver(k, K) PROVE FALSE
  BY <1>2, Zenon DEF F!Deliver
<1>3. ASSUME NEW t \in Waiters, NEW o \in Values, NEW j \in BOOLEAN, F!Begin(t, o, j) PROVE FALSE
  <2>1. t # u BY <1>3, Zenon DEF F!Begin
  <2>2. fst' = [fst EXCEPT ![t] = "idle"] \/ fst' = [fst EXCEPT ![t] = "asking"]
    BY <1>3, Zenon DEF F!Begin, F!Ends
  <2> QED BY <2>1, <2>2, Zenon DEF LineInv
<1>4. ASSUME NEW t \in Waiters, F!Enqueue(t) PROVE FALSE
  <2>1. t # u BY <1>4, Zenon DEF F!Enqueue
  <2>2. fst' = [fst EXCEPT ![t] = "idle"] \/ fst' = [fst EXCEPT ![t] = "parked"]
    BY <1>4, Zenon DEF F!Enqueue, F!Ends
  <2> QED BY <2>1, <2>2, Zenon DEF LineInv
<1>5. ASSUME NEW t \in Waiters, F!Notified(t) PROVE fres'[u] = "notified"
  <2>1. t = u BY <1>1, <1>5, Zenon DEF F!Notified
  <2>2. F!Ends(u, "notified") BY <1>5, <2>1, Zenon DEF F!Notified
  <2> QED BY <2>2, Zenon DEF F!Ends, LineInv
<1>6. ASSUME NEW t \in Waiters, F!Interrupt(t) PROVE FALSE
  <2>1. t # u /\ F!Ends(t, "canceled") BY <1>6, Zenon DEF F!Interrupt
  <2> QED BY <1>1, <2>1, Zenon
<1>7. ASSUME NEW t \in Waiters, F!RequestStop(t) \/ F!NewToken(t) \/ F!Callback(t) \/ F!Stop(t) PROVE FALSE
  BY <1>7, Zenon DEF F!RequestStop, F!NewToken, F!Callback, F!Stop
<1>8. ASSUME NEW x \in Writers, NEW v \in Values, F!Store(x, v) PROVE FALSE
  BY <1>8, Zenon DEF F!Store
<1>9. ASSUME NEW x \in Writers, F!NotifyOne(x) PROVE FALSE
  BY <1>2, <1>9, Zenon DEF F!NotifyOne
<1>10. ASSUME NEW x \in Writers, F!NotifyAll(x) PROVE FALSE
  BY <1>2, <1>10, Zenon DEF F!NotifyAll
<1> QED BY <1>3, <1>4, <1>5, <1>6, <1>7, <1>8, <1>9, <1>10, Zenon DEF F!Next

\* notify_one and notify_all wake a live waiter whenever there is one, past any number of
\* canceled ones, and a cancellation that arrives after the delivery does not take it back.
THEOREM NothingSwallowed == F!Spec => NotSwallowed
<1> DEFINE Heard == /\ owes' \subseteq owes /\ owes' # owes /\ (\E t \in Range(line) : ~F!Canceled(t))
                       => \E t \in Range(line) : ~F!Canceled(t) /\ fst'[t] = "mailed" /\ err'[t] = "none"
                    /\ \A t \in Waiters : fst[t] = "mailed" /\ err[t] = "none" /\ fst'[t] # "mailed"
                         => fres'[t] = "notified"
<1>1. LineInv /\ [F!Next]_(F!vars) => [Heard]_(F!vars)
  <2> SUFFICES ASSUME LineInv, F!Next PROVE Heard
    BY Zenon
  <2>1. ASSUME owes' \subseteq owes, owes' # owes PROVE \E x \in Writers : F!NotifyOne(x) \/ F!NotifyAll(x)
    BY <2>1, Zenon DEF F!Next, F!Begin, F!Enqueue, F!Notified, F!Interrupt, F!RequestStop, F!NewToken, F!Callback, F!Stop, F!Store
  <2> QED BY <2>1, NotifyWakes, MailKept, Zenon
<1> HIDE DEF Heard
<1>2. F!Spec => [][Heard]_(F!vars)
  BY <1>1, LineInductive, PTL DEF F!Spec
<1> QED BY <1>2, Zenon DEF Heard, NotSwallowed
-----------------------------------------------------------------------------
\* The joins.

\* The bridges that may still touch the parent's frame.
Alive == {c \in W!Children : child[c] \notin {"none", "gone"}}

WhenTypes ==
  /\ mode \in {"all", "any"} /\ n \in 0..N
  /\ parent \in {"launch", "join", "ready", "ended"}
  /\ child \in [W!Children -> {"none", "queued", "running", "away", "home", "gone"}]
  /\ outcome \in [W!Children -> {"none", "ok", "error", "canceled"}]
  /\ jvalue \in SUBSET W!Children /\ winner \in 0..N /\ error \in 0..N + 1
  /\ log \in Seq(W!Children)

\* pending counts the bridges that are alive; done is set by the last of them.
Barrier ==
  /\ pending = Cardinality(Alive)
  /\ done \/ parent \in {"launch", "ready", "ended"} => Alive = {}

\* What is in the slots and in the log is what the bridges that are gone left there.
Published ==
  \A c \in W!Children :
    /\ c \in Range(log) <=> child[c] = "gone"
    /\ c \in jvalue <=> child[c] = "gone" /\ outcome[c] = "ok"
    /\ child[c] \in {"away", "home", "gone"} => outcome[c] # "none"

\* Which bridges were launched: all of them, unless the launch failed.
Launched ==
  /\ parent = "launch" => /\ error = 0 /\ winner = 0 /\ ~startup /\ ~done
                          /\ \A c \in W!Children : child[c] = "none"
  /\ parent # "launch" /\ ~startup /\ error # N + 1 => \A c \in 1..n : child[c] # "none"
  /\ \A c \in W!Children : child[c] # "none" => c <= n
  /\ mode = "any" /\ n = 0 => parent = "launch" \/ (parent = "ended" /\ result = <<"invalid">>)
  /\ IF mode = "all" THEN ~startup ELSE error # N + 1

\* The parent's state holds the first completion of a race, the first failure of a join.
First ==
  IF mode = "any"
  THEN IF log = <<>> THEN winner = 0 /\ error = 0
       ELSE winner = log[1] /\ error = (IF outcome[log[1]] = "ok" THEN 0 ELSE log[1])
  ELSE /\ error = 0 => \A i \in DOMAIN log : outcome[log[i]] = "ok"
       /\ error \in W!Children =>
            \E i \in DOMAIN log : /\ error = log[i] /\ outcome[log[i]] # "ok"
                                  /\ \A j \in 1..i - 1 : outcome[log[j]] = "ok"

Returned ==
  parent = "ended" /\ result # <<"invalid">> =>
    result = IF mode = "all" THEN W!JoinResult ELSE W!RaceResult

WhenInv == WhenTypes /\ Barrier /\ Published /\ Launched /\ First /\ Returned
-----------------------------------------------------------------------------
\* The log of the completions holds what was added to it.
LEMMA LogFacts ==
  ASSUME NEW s \in Seq(W!Children)
  PROVE  /\ Range(s) = {} <=> s = <<>>
         /\ \A c \in W!Children : /\ Append(s, c) \in Seq(W!Children) /\ Append(s, c) # <<>>
                                /\ Range(Append(s, c)) = Range(s) \cup {c}
<1>1. DOMAIN s = 1..Len(s) /\ Len(s) \in Nat OBVIOUS
<1>2. ASSUME s # <<>> PROVE Range(s) # {}
  <2>1. 1 \in 1..Len(s) BY <1>2
  <2> QED BY <1>1, <2>1, Zenon DEF Range
<1>3. Range(<<>>) = {} BY DEF Range
<1>4. ASSUME NEW c \in W!Children
      PROVE  Append(s, c) \in Seq(W!Children) /\ Append(s, c) # <<>> /\ Range(Append(s, c)) = Range(s) \cup {c}
  <2>1. /\ Append(s, c) \in Seq(W!Children) /\ DOMAIN Append(s, c) = 1..Len(s) + 1
        /\ \A i \in 1..Len(s) : Append(s, c)[i] = s[i]
        /\ Append(s, c)[Len(s) + 1] = c
    OBVIOUS
  <2>2. Append(s, c) # <<>> BY <1>1, <2>1
  <2> QED BY <1>1, <2>1, <2>2 DEF Range
<1> QED BY <1>2, <1>3, <1>4, Zenon

\* The inputs are finitely many, and so are the bridges.
LEMMA AliveFinite == IsFiniteSet(Alive) /\ IsFiniteSet(Alive')
<1>1. IsFiniteSet(W!Children) BY InputsKnown, FS_Interval DEF W!Children
<1>2. Alive \in SUBSET W!Children /\ Alive' \in SUBSET W!Children BY Zenon DEF Alive
<1> QED BY <1>1, <1>2, FS_Subset, Zenon

\* Initially nothing is launched.
LEMMA WhenInit == W!Init => WhenInv
<1> SUFFICES ASSUME W!Init PROVE WhenInv
  BY Zenon
<1>1. WhenTypes BY InputsKnown, ModesKnown DEF W!Init, WhenTypes, W!Children
<1>2. Alive = {} BY Zenon DEF W!Init, Alive
<1>3. Barrier BY <1>2, FS_EmptySet, Zenon DEF W!Init, Barrier
<1>4. Published BY DEF W!Init, Published, Range
<1>5. Launched BY InputsKnown DEF W!Init, Launched
<1>6. First BY DEF W!Init, First
<1>7. Returned BY Zenon DEF W!Init, Returned
<1> QED BY <1>1, <1>3, <1>4, <1>5, <1>6, <1>7, Zenon DEF WhenInv

\* The parent launches the first k bridges, or refuses an empty race.
LEMMA CallKeeps ==
  ASSUME WhenInv, NEW k \in 0..n, W!Call(k)
  PROVE  WhenInv'
<1> USE DEF WhenInv
<1>0. n \in Nat /\ n <= N /\ N \in Nat /\ k \in Nat /\ k <= n
  BY InputsKnown DEF WhenTypes
<1>1. /\ parent = "launch" /\ error = 0 /\ winner = 0 /\ ~startup /\ ~done /\ Alive = {}
      /\ \A c \in W!Children : child[c] = "none"
  BY Zenon DEF W!Call, Launched, Barrier
<1>2. UNCHANGED <<mode, n, outcome, jvalue, winner, done, jstopping, log>>
  BY Zenon DEF W!Call
<1>3. log = <<>> /\ jvalue = {}
  <2>1. Range(log) = {}
    <3>1. Range(log) \subseteq W!Children BY DEF WhenTypes, Range
    <3> QED BY <1>1, <3>1, Zenon DEF Published
  <2> QED BY <1>1, <2>1, LogFacts, Zenon DEF WhenTypes, Published
<1>4. CASE mode = "any" /\ n = 0
  <2>1. parent' = "ended" /\ result' = <<"invalid">> /\ UNCHANGED <<child, pending, error, startup, stop>>
    BY <1>4, Zenon DEF W!Call
  <2>2. Alive' = Alive BY <2>1, Zenon DEF Alive
  <2>3. WhenTypes' BY <1>2, <2>1, Zenon DEF WhenTypes
  <2>4. Barrier' BY <1>1, <1>2, <2>1, <2>2, Zenon DEF Barrier
  <2>5. Published' BY <1>2, <2>1, Zenon DEF Published
  <2>6. Launched' BY <1>0, <1>1, <1>2, <1>4, <2>1 DEF Launched
  <2>7. First' BY <1>2, <2>1, Zenon DEF First
  <2>8. Returned' BY <2>1, Zenon DEF Returned
  <2> QED BY <2>3, <2>4, <2>5, <2>6, <2>7, <2>8, Zenon
<1>5. CASE ~(mode = "any" /\ n = 0)
  <2>1. W!Launch(k) /\ parent' = (IF k = 0 THEN "ready" ELSE "join") BY <1>5, Zenon DEF W!Call
  <2>2. /\ pending' = k /\ child' = [c \in W!Children |-> IF c <= k THEN "queued" ELSE "none"]
        /\ startup' = (k < n /\ mode = "any")
        /\ error' = IF k < n /\ mode = "all" THEN N + 1 ELSE 0
    BY <1>1, <2>1, Zenon DEF W!Launch
  <2>3. Alive' = 1..k BY <1>0, <2>2 DEF Alive, W!Children
  <2>4. WhenTypes'
    <3>1. error' \in 0..N + 1 BY <1>0, <2>2
    <3>2. child' \in [W!Children -> {"none", "queued", "running", "away", "home", "gone"}] BY <2>2, Zenon
    <3> QED BY <1>2, <2>1, <3>1, <3>2, Zenon DEF WhenTypes
  <2>5. Barrier'
    <3>1. Cardinality(1..k) = k BY <1>0, FS_Interval
    <3>2. parent' \in {"launch", "ready", "ended"} => 1..k = {} BY <1>0, <2>1
    <3> QED BY <1>1, <1>2, <2>2, <2>3, <3>1, <3>2, Zenon DEF Barrier
  <2>6. Published' BY <1>2, <1>3, <2>2, LogFacts, Zenon DEF Published, WhenTypes
  <2>7. Launched'
    <3>0. ~startup' <=> ~(k < n /\ mode = "any") BY <2>2, Zenon
    <3>1. parent' # "launch" /\ parent' # "ended" BY <2>1, Zenon
    <3>2. ~startup' /\ error' # N + 1 => \A c \in 1..n : child'[c] # "none"
      <4>1. ~(k < n /\ mode = "any") /\ ~(k < n /\ mode = "all") => k = n BY <1>0 DEF WhenTypes
      <4>2. error' # N + 1 => ~(k < n /\ mode = "all") BY <2>2, Zenon
      <4>3. ASSUME k = n, NEW c \in 1..n PROVE child'[c] # "none" BY <1>0, <2>2, <4>3 DEF W!Children
      <4> QED BY <3>0, <4>1, <4>2, <4>3, Zenon
    <3>3. \A c \in W!Children : child'[c] # "none" => c <= n BY <1>0, <2>2 DEF W!Children
    <3>4. IF mode = "all" THEN ~startup' ELSE error' # N + 1
      <4>1. mode = "all" => ~startup' BY <3>0, Zenon
      <4>2. mode # "all" => error' # N + 1 BY <1>0, <2>2
      <4> QED BY <4>1, <4>2, Zenon
    <3> QED BY <1>2, <1>5, <3>1, <3>2, <3>3, <3>4, Zenon DEF Launched
  <2>8. First' BY <1>0, <1>1, <1>2, <1>3, <2>2 DEF First, W!Children
  <2>9. Returned' BY <2>1, Zenon DEF Returned
  <2> QED BY <2>4, <2>5, <2>6, <2>7, <2>8, <2>9, Zenon
<1> QED BY <1>4, <1>5, Zenon

\* A bridge starts, ends its input or hops home: it stays alive.
LEMMA MoveKeeps ==
  ASSUME WhenInv, NEW c \in W!Children, child[c] \in {"queued", "running", "away"},
         NEW s \in {"running", "away", "home"}, child' = [child EXCEPT ![c] = s],
         outcome' \in [W!Children -> {"none", "ok", "error", "canceled"}],
         \A d \in W!Children : d # c => outcome'[d] = outcome[d],
         s # "running" => outcome'[c] # "none",
         UNCHANGED <<mode, n, parent, jvalue, pending, winner, error, startup, done, result, log>>
  PROVE  WhenInv'
<1> USE DEF WhenInv
<1>1. /\ \A d \in W!Children : child'[d] = IF d = c THEN s ELSE child[d]
      /\ child' \in [W!Children -> {"none", "queued", "running", "away", "home", "gone"}]
  BY Zenon DEF WhenTypes
<1>2. Alive' = Alive BY <1>1, Zenon DEF Alive
<1>3. WhenTypes' BY <1>1, Zenon DEF WhenTypes
<1>4. Barrier' BY <1>2, Zenon DEF Barrier
<1>5. Published' BY <1>1, Zenon DEF Published
<1>6. Launched' BY <1>1 DEF Launched, WhenTypes, W!Children
<1>7. \A i \in DOMAIN log : outcome'[log[i]] = outcome[log[i]]
  <2>1. \A i \in DOMAIN log : log[i] \in Range(log) /\ log[i] \in W!Children
    BY DEF WhenTypes, Range
  <2> QED BY <2>1, Zenon DEF Published
<1>8. First'
  <2>1. log # <<>> => 1 \in DOMAIN log BY DEF WhenTypes
  <2>2. \A i \in DOMAIN log : \A j \in 1..i - 1 : j \in DOMAIN log BY DEF WhenTypes
  <2> QED BY <1>7, <2>1, <2>2 DEF First
<1>9. Returned' BY Zenon DEF Returned, W!JoinResult, W!RaceResult
<1> QED BY <1>3, <1>4, <1>5, <1>6, <1>8, <1>9, Zenon

\* collect publishes: one bridge less, and the first result stays.
LEMMA PublishKeeps ==
  ASSUME WhenInv, NEW c \in W!Children, NEW m \in BOOLEAN, W!Publish(c, m)
  PROVE  WhenInv'
<1> USE DEF WhenInv
<1> DEFINE r == IF outcome[c] = "ok" /\ ~m THEN "error" ELSE outcome[c]
<1>0. N \in Nat /\ c \in 1..N BY InputsKnown, Zenon DEF W!Children
<1>1. /\ child[c] = "home" /\ outcome' = [outcome EXCEPT ![c] = r]
      /\ jvalue' = (IF r = "ok" THEN jvalue \cup {c} ELSE jvalue) /\ W!Record(c, r)
      /\ pending' = pending - 1 /\ done' = (done \/ pending = 1)
      /\ child' = [child EXCEPT ![c] = "gone"] /\ log' = Append(log, c)
      /\ UNCHANGED <<mode, n, parent, startup, jstopping, result>>
  BY Zenon DEF W!Publish
<1>2. r \in {"ok", "error", "canceled"} BY <1>1, Zenon DEF WhenTypes, Published
<1> HIDE DEF r
<1>3. /\ \A d \in W!Children : child'[d] = IF d = c THEN "gone" ELSE child[d]
      /\ \A d \in W!Children : outcome'[d] = IF d = c THEN r ELSE outcome[d]
      /\ child' \in [W!Children -> {"none", "queued", "running", "away", "home", "gone"}]
      /\ outcome' \in [W!Children -> {"none", "ok", "error", "canceled"}]
  BY <1>1, <1>2, Zenon DEF WhenTypes
<1>4. c \in Alive /\ Alive' = Alive \ {c} BY <1>1, <1>3, Zenon DEF Alive
<1>5. parent = "join" /\ ~done BY <1>4, Zenon DEF Barrier, WhenTypes
<1>6. c \notin Range(log) /\ Range(log') = Range(log) \cup {c} /\ log' \in Seq(W!Children) /\ log' # <<>>
  BY <1>1, LogFacts, Zenon DEF Published, WhenTypes
<1>7. /\ error' \in 0..N + 1 /\ winner' \in 0..N
      /\ mode = "any" => error' # N + 1
      /\ error = N + 1 => error' = N + 1 \/ mode = "any"
  BY <1>0, <1>1, SMTT(30) DEF W!Record, WhenTypes, Launched
<1>8. WhenTypes' BY <1>1, <1>3, <1>6, <1>7, Zenon DEF WhenTypes
<1>9. Barrier'
  <2>1. Cardinality(Alive') = pending - 1 /\ pending \in Nat
    BY <1>4, AliveFinite, FS_RemoveElement, FS_CardinalityType, Zenon DEF Barrier
  <2>2. done' => pending' = 0
    <3>1. done' => pending = 1 BY <1>1, <1>5, Zenon
    <3> QED BY <1>1, <2>1, <3>1
  <2>3. Cardinality(Alive') = 0 <=> Alive' = {} BY AliveFinite, FS_EmptySet, Zenon
  <2> QED BY <1>1, <1>5, <2>1, <2>2, <2>3, Zenon DEF Barrier
<1>10. Published'
  <2>1. \A d \in W!Children : d \in jvalue' <=> (IF d = c THEN r = "ok" ELSE d \in jvalue)
    BY <1>1, Zenon DEF Published
  <2> QED BY <1>2, <1>3, <1>6, <2>1, Zenon DEF Published
<1>11. Launched'
  <2>1. mode = "any" => error # N + 1 BY Zenon DEF Launched
  <2>2. ~startup' /\ error' # N + 1 => \A d \in 1..n : child'[d] # "none"
    <3>1. 1..n \subseteq W!Children BY <1>0 DEF W!Children, WhenTypes
    <3> QED BY <1>1, <1>3, <1>5, <1>7, <2>1, <3>1, Zenon DEF Launched
  <2>3. \A d \in W!Children : child'[d] # "none" => d <= n BY <1>1, <1>3, Zenon DEF Launched
  <2>4. ~(mode = "any" /\ n = 0) BY <1>5, Zenon DEF Launched
  <2>5. mode = "all" => ~startup' BY <1>1, Zenon DEF Launched
  <2>6. IF mode = "all" THEN ~startup' ELSE error' # N + 1 BY <1>7, <2>5, Zenon DEF WhenTypes
  <2> QED BY <1>1, <1>5, <2>2, <2>3, <2>4, <2>6, Zenon DEF Launched
<1>12. First'
  <2>1. /\ DOMAIN log = 1..Len(log) /\ DOMAIN log' = 1..Len(log) + 1 /\ Len(log) \in Nat
        /\ \A i \in 1..Len(log) : log'[i] = log[i] /\ log[i] \in W!Children
        /\ log'[Len(log) + 1] = c
    BY <1>1 DEF WhenTypes
  <2>2. \A i \in 1..Len(log) : outcome'[log'[i]] = outcome[log[i]]
    <3>1. \A i \in 1..Len(log) : log[i] # c BY <1>6, <2>1, Zenon DEF Range
    <3> QED BY <1>3, <2>1, <3>1, Zenon
  <2>3. outcome'[c] = r BY <1>3, Zenon
  <2>4. CASE mode = "any" /\ log = <<>>
    <3>1. winner = 0 BY <2>4, Zenon DEF First
    <3>2. winner' = c /\ error' = IF r = "ok" THEN 0 ELSE c BY <1>1, <2>4, <3>1, Zenon DEF W!Record
    <3>3. log'[1] = c BY <1>1, <2>4
    <3> QED BY <1>1, <1>6, <2>3, <2>4, <3>2, <3>3, Zenon DEF First
  <2>5. CASE mode = "any" /\ log # <<>>
    <3>1. 1 \in 1..Len(log) BY <2>1, <2>5 DEF WhenTypes
    <3>2. winner = log[1] /\ winner # 0 BY <2>1, <2>5, <3>1 DEF First, W!Children
    <3>3. winner' = winner /\ error' = error BY <1>1, <2>5, <3>2, Zenon DEF W!Record
    <3>4. log'[1] = log[1] /\ outcome'[log'[1]] = outcome[log[1]] BY <2>1, <2>2, <3>1, Zenon
    <3> QED BY <1>1, <1>6, <2>5, <3>2, <3>3, <3>4, Zenon DEF First
  <2>6. CASE mode = "all"
    <3>1. error' = IF r # "ok" /\ error = 0 THEN c ELSE error BY <1>1, <2>6, Zenon DEF W!Record
    <3>2. ASSUME error' = 0 PROVE \A i \in DOMAIN log' : outcome'[log'[i]] = "ok"
      <4>1. error = 0 /\ r = "ok" BY <1>0, <3>1, <3>2
      <4>2. \A i \in DOMAIN log : outcome[log[i]] = "ok" BY <2>6, <4>1, Zenon DEF First
      <4> QED BY <2>1, <2>2, <2>3, <4>1, <4>2
    <3>3. ASSUME error' \in W!Children
          PROVE  \E i \in DOMAIN log' : /\ error' = log'[i] /\ outcome'[log'[i]] # "ok"
                                        /\ \A j \in 1..i - 1 : outcome'[log'[j]] = "ok"
      <4>1. CASE r # "ok" /\ error = 0
        <5>1. \A i \in DOMAIN log : outcome[log[i]] = "ok" BY <2>6, <4>1, Zenon DEF First
        <5>2. \A j \in 1..Len(log) : outcome'[log'[j]] = "ok" BY <2>1, <2>2, <5>1, Zenon
        <5>3. Len(log) + 1 \in DOMAIN log' /\ (Len(log) + 1) - 1 = Len(log) BY <2>1
        <5> QED BY <2>1, <2>3, <3>1, <4>1, <5>2, <5>3, Zenon
      <4>2. CASE ~(r # "ok" /\ error = 0)
        <5>1. error' = error BY <3>1, <4>2, Zenon
        <5>2. PICK i \in DOMAIN log : /\ error = log[i] /\ outcome[log[i]] # "ok"
                                      /\ \A j \in 1..i - 1 : outcome[log[j]] = "ok"
          BY <2>6, <3>3, <5>1, Zenon DEF First
        <5>3. i \in DOMAIN log' /\ log'[i] = log[i] /\ outcome'[log'[i]] = outcome[log[i]]
          BY <2>1, <2>2
        <5>4. \A j \in 1..i - 1 : outcome'[log'[j]] = "ok" BY <2>1, <2>2, <5>2
        <5> QED BY <5>1, <5>2, <5>3, <5>4, Zenon
      <4> QED BY <4>1, <4>2, Zenon
    <3> QED BY <1>1, <2>6, <3>2, <3>3, Zenon DEF First
  <2> QED BY <2>4, <2>5, <2>6, Zenon DEF WhenTypes
<1>13. Returned' BY <1>1, <1>5, Zenon DEF Returned
<1> QED BY <1>8, <1>9, <1>10, <1>11, <1>12, <1>13, Zenon

\* Every step keeps the invariant.
LEMMA WhenStep == WhenInv /\ [W!Next]_(W!vars) => WhenInv'
<1> SUFFICES ASSUME WhenInv, [W!Next]_(W!vars) PROVE WhenInv'
  BY Zenon
<1>1. ASSUME NEW k \in 0..n, W!Call(k) PROVE WhenInv'
  BY <1>1, CallKeeps, Zenon
<1>2. ASSUME NEW c \in W!Children, W!Start(c) PROVE WhenInv'
  BY <1>2, MoveKeeps, Zenon DEF W!Start, WhenInv, WhenTypes
<1>3. ASSUME NEW c \in W!Children, W!Hop(c) PROVE WhenInv'
  <2>1. outcome[c] # "none" BY <1>3, Zenon DEF W!Hop, WhenInv, Published
  <2> QED BY <1>3, <2>1, MoveKeeps, Zenon DEF W!Hop, WhenInv, WhenTypes
<1>4. ASSUME NEW c \in W!Children, NEW r \in {"ok"} \cup W!Failures, NEW p \in {"away", "home"}, W!End(c, r, p)
      PROVE  WhenInv'
  <2>1. r \in {"ok", "error", "canceled"} BY Zenon DEF W!Failures
  <2>2. /\ child[c] = "running" /\ child' = [child EXCEPT ![c] = p]
        /\ outcome' = [outcome EXCEPT ![c] = r]
        /\ UNCHANGED <<mode, n, parent, jvalue, pending, winner, error, startup, done, result, log>>
    BY <1>4, Zenon DEF W!End
  <2>3. /\ outcome' \in [W!Children -> {"none", "ok", "error", "canceled"}] /\ outcome'[c] # "none"
        /\ \A d \in W!Children : d # c => outcome'[d] = outcome[d]
    BY <2>1, <2>2, Zenon DEF WhenInv, WhenTypes
  <2> QED BY <2>2, <2>3, MoveKeeps, Zenon
<1>5. ASSUME NEW c \in W!Children, NEW m \in BOOLEAN, W!Publish(c, m) PROVE WhenInv'
  BY <1>5, PublishKeeps, Zenon
<1>6. CASE W!Resume
  <2>1. /\ parent = "join" /\ done /\ parent' = "ready"
        /\ UNCHANGED <<mode, n, child, outcome, jvalue, pending, winner, error, startup, done, result, log>>
    BY <1>6, Zenon DEF W!Resume, W!Joined
  <2>2. Alive' = Alive BY <2>1, Zenon DEF Alive
  <2>3. Barrier' BY <2>1, <2>2, Zenon DEF WhenInv, Barrier
  <2>4. Launched' BY <2>1, Zenon DEF WhenInv, Launched
  <2> QED BY <2>1, <2>3, <2>4, Zenon DEF WhenInv, WhenTypes, Published, First, Returned
<1>7. CASE W!Finish
  <2>1. /\ parent = "ready" /\ parent' = "ended"
        /\ result' = IF mode = "all" THEN W!JoinResult ELSE W!RaceResult
        /\ UNCHANGED <<mode, n, child, outcome, jvalue, pending, winner, error, startup, done, log>>
    BY <1>7, Zenon DEF W!Finish
  <2>2. Alive' = Alive BY <2>1, Zenon DEF Alive
  <2>3. Barrier' BY <2>1, <2>2, Zenon DEF WhenInv, Barrier
  <2>4. Launched' BY <2>1, Zenon DEF WhenInv, Launched
  <2>5. Returned' BY <2>1, Zenon DEF Returned, W!JoinResult, W!RaceResult
  <2> QED BY <2>1, <2>3, <2>4, <2>5, Zenon DEF WhenInv, WhenTypes, Published, First
<1>8. CASE W!Stop \/ UNCHANGED W!vars
  <2>1. UNCHANGED <<mode, n, parent, child, outcome, jvalue, pending, winner, error, startup, done, result, log>>
    BY <1>8, Zenon DEF W!Stop, W!vars
  <2>2. Alive' = Alive BY <2>1, Zenon DEF Alive
  <2>3. Barrier' BY <2>1, <2>2, Zenon DEF WhenInv, Barrier
  <2>4. Returned' BY <2>1, Zenon DEF WhenInv, Returned, W!JoinResult, W!RaceResult
  <2> QED BY <2>1, <2>3, <2>4, Zenon DEF WhenInv, WhenTypes, Published, Launched, First
<1> QED BY <1>1, <1>2, <1>3, <1>4, <1>5, <1>6, <1>7, <1>8, Zenon DEF W!Next, W!ChildStep

\* Every reachable state of a join satisfies the invariant.
THEOREM WhenInductive == W!Spec => []WhenInv
<1> QED BY WhenInit, WhenStep, PTL DEF W!Spec

\* when_all and when_any pass their barrier, and destroy the state the bridges use, only
\* when every bridge is gone, for any number of inputs and wherever the launch failed.
THEOREM JoinsAbandonNone == W!Spec => []NoneAbandoned
<1>1. WhenInv => NoneAbandoned
  BY Zenon DEF WhenInv, Barrier, Alive, NoneAbandoned
<1> QED BY <1>1, WhenInductive, PTL

\* What the join returns or throws is the first completion of a race or the first failure
\* of a join in the order of publication, and every optional it dereferences is engaged.
THEOREM JoinsReportFirst == W!Spec => []FirstObserved
<1>1. WhenInv => FirstObserved
  <2> SUFFICES ASSUME WhenInv PROVE FirstObserved
    BY Zenon
  <2> USE DEF WhenInv
  <2>0. N \in Nat /\ n \in Nat /\ n <= N BY InputsKnown DEF WhenTypes
  <2>1. ASSUME parent \in {"ready", "ended"}, ~startup, error # N + 1
        PROVE  \A c \in W!Children : child[c] = "gone" <=> c \in 1..n
    <3>1. \A c \in W!Children : child[c] \in {"none", "gone"} BY <2>1, Zenon DEF Barrier, Alive
    <3>2. \A c \in 1..n : child[c] # "none" BY <2>1, Zenon DEF Launched
    <3>3. \A c \in W!Children : child[c] # "none" => c \in 1..n BY <2>0 DEF Launched, W!Children
    <3> QED BY <3>1, <3>2, <3>3, Zenon
  <2>2. ASSUME mode = "any", parent \in {"ready", "ended"}, ~startup, parent = "ended" => result # <<"invalid">>
        PROVE  log # <<>> /\ log[1] \in Range(log) /\ log[1] \in W!Children
    <3>1. n # 0 /\ error # N + 1 BY <2>2, Zenon DEF Launched
    <3>2. 1 \in 1..n /\ 1 \in W!Children BY <2>0, <3>1 DEF W!Children
    <3>3. 1 \in Range(log) BY <2>1, <2>2, <3>1, <3>2, Zenon DEF Published
    <3>4. log # <<>> BY <3>3 DEF Range
    <3>5. 1 \in DOMAIN log BY <3>4 DEF WhenTypes
    <3> QED BY <3>4, <3>5 DEF Range, WhenTypes
  <2>3. ASSUME parent = "ready", ~startup, error = 0
        PROVE  IF mode = "all" THEN jvalue = 1..n ELSE winner \in jvalue
    <3>1. CASE mode = "all"
      <4>1. \A c \in Range(log) : outcome[c] = "ok" BY <2>3, <3>1, Zenon DEF First, Range
      <4>2. \A c \in W!Children : c \in jvalue <=> c \in 1..n
        BY <2>0, <2>1, <2>3, <4>1 DEF Published
      <4>3. 1..n \subseteq W!Children /\ jvalue \subseteq W!Children BY <2>0 DEF W!Children, WhenTypes
      <4> QED BY <3>1, <4>2, <4>3, Zenon
    <3>2. CASE mode = "any"
      <4>1. log # <<>> /\ log[1] \in Range(log) /\ log[1] \in W!Children BY <2>2, <2>3, <3>2, Zenon
      <4>2. winner = log[1] /\ outcome[log[1]] = "ok"
        BY <2>3, <3>2, <4>1 DEF First, W!Children
      <4> QED BY <3>2, <4>1, <4>2, Zenon DEF Published
    <3> QED BY <3>1, <3>2, Zenon DEF WhenTypes
  <2>4. ASSUME parent = "ended", result # <<"invalid">>, startup \/ error = N + 1
        PROVE  result = <<"startup">>
    <3>1. CASE mode = "all" BY <2>4, <3>1, Zenon DEF Returned, Launched, W!JoinResult
    <3>2. CASE mode = "any" BY <2>4, <3>2, Zenon DEF Returned, Launched, W!RaceResult
    <3> QED BY <3>1, <3>2, Zenon DEF WhenTypes
  <2>5. ASSUME parent = "ended", result # <<"invalid">>, ~startup, error # N + 1, mode = "any"
        PROVE  result = <<IF outcome[log[1]] = "ok" THEN "value" ELSE "error", log[1]>>
    <3>1. log # <<>> /\ log[1] \in W!Children BY <2>2, <2>5, Zenon
    <3>2. winner = log[1] /\ error = IF outcome[log[1]] = "ok" THEN 0 ELSE log[1]
      BY <2>5, <3>1, Zenon DEF First
    <3>3. result = IF error # 0 THEN <<"error", error>> ELSE <<"value", winner>>
      BY <2>5, Zenon DEF Returned, W!RaceResult
    <3>4. log[1] # 0 BY <3>1 DEF W!Children
    <3> QED BY <3>2, <3>3, <3>4, Zenon
  <2>6. ASSUME parent = "ended", result # <<"invalid">>, ~startup, error # N + 1, mode = "all"
        PROVE  \/ result = <<"values">> /\ \A c \in Range(log) : outcome[c] = "ok"
               \/ \E i \in DOMAIN log :
                    /\ result = <<"error", log[i]>> /\ outcome[log[i]] # "ok"
                    /\ \A j \in 1..i - 1 : outcome[log[j]] = "ok"
    <3>1. result = IF error # 0 THEN <<"error", error>> ELSE <<"values">>
      BY <2>6, Zenon DEF Returned, W!JoinResult
    <3>2. CASE error = 0
      BY <2>6, <3>1, <3>2, Zenon DEF First, Range
    <3>3. CASE error # 0
      <4>1. error \in W!Children BY <2>0, <2>6, <3>3 DEF WhenTypes, W!Children
      <4> QED BY <2>6, <3>1, <3>3, <4>1, Zenon DEF First
    <3> QED BY <3>2, <3>3, Zenon
  <2> QED BY <2>3, <2>4, <2>5, <2>6, Zenon DEF FirstObserved, WhenTypes
<1> QED BY <1>1, WhenInductive, PTL
=============================================================================
