-------------------------------- MODULE File --------------------------------
(***************************************************************************)
(* Regular files where they have no native completions (src/src/file.cpp   *)
(* on macOS): write() hands pwrite to a worker of a pool shared by all     *)
(* files, and the worker reads the descriptor through the file object.     *)
(* active_ counts the operations in flight, so that an object that a       *)
(* worker may look at is not moved from.  write_all() repeats write()      *)
(* until everything is written.                                            *)
(*                                                                         *)
(* The pool is a static object: it is never closed while files are used.   *)
(***************************************************************************)
EXTENDS Pool

CONSTANTS Files,     \* file objects
          Length     \* bound: the bytes of one write_all()

ASSUME LengthIsNatural == Length \in Nat
ASSUME TasksFinite == IsFiniteSet(Tasks)

VARIABLES
  fd,                \* fd_ of each object: "unborn", "open" or "empty"
  active,            \* active_
  op                 \* the operation of each task: its file, the bytes left, what its
                     \* last system call returned; <<>> if there is none

fileVars == <<fd, active, op>>

FileInit ==
  /\ fd = [f \in Files |-> "unborn"] /\ active = [f \in Files |-> 0]
  /\ op = [t \in Tasks |-> <<>>]

\* The constructor: a file that cannot be opened, is not regular or cannot be attached is
\* closed again, and there is no object.
Open(f) ==
  /\ fd[f] = "unborn" /\ fd' = [fd EXCEPT ![f] = "open"]
  /\ UNCHANGED <<vars, active, op>>

\* A task calls an operation of a file object, which takes at most n calls of the system.
Operate(t, f, n) ==
  /\ st[t] = "idle" /\ op[t] = <<>> /\ fd[f] # "unborn"
  /\ op' = [op EXCEPT ![t] = [file |-> f, left |-> n, size |-> 0]]
  /\ UNCHANGED <<vars, fd, active>>

\* write_all() goes on after partial writes; flush(), like read() and write(), is one call.
WriteAll(t, f) == Operate(t, f, Length)
Flush(t, f) == Operate(t, f, 1)

\* The next round: the operation returns when nothing is left; transfer() throws on an
\* empty file and on a stop, or counts itself in and runs the system call on the pool.
Write(t) ==
  /\ st[t] = "idle" /\ op[t] # <<>>
  /\ IF op[t].left = 0 \/ fd[op[t].file] # "open" \/ Canceled(t)
     THEN op' = [op EXCEPT ![t] = <<>>] /\ UNCHANGED <<vars, active>>
     ELSE /\ Enqueue(t)
          /\ active' = [active EXCEPT ![op[t].file] = @ + 1]
          /\ UNCHANGED op
  /\ UNCHANGED fd

\* The worker's system call through the object: some of the bytes, or an error.
Pwrite(w, n) ==
  LET t == job[w] IN
  /\ Call(w, IF n = 0 THEN "error" ELSE "value")
  /\ n <= op[t].left
  /\ op' = [op EXCEPT ![t].size = n]
  /\ UNCHANGED <<fd, active>>

\* What write() returned is written, and the rest is left.
Advanced(o) == [file |-> o.file, left |-> o.left - o.size, size |-> 0]

\* transfer() and its guard end; write_all() goes on, or throws what write() threw.
Wrote(t) ==
  /\ Return(t)
  /\ active' = [active EXCEPT ![op[t].file] = @ - 1]
  /\ op' = [op EXCEPT ![t] = IF res'[t] = "value" THEN Advanced(@) ELSE <<>>]
  /\ UNCHANGED fd

\* Mutant: a busy file may be moved.
MoveBusy(f, g) ==
  /\ fd[f] = "open" /\ fd[g] = "unborn"
  /\ fd' = [fd EXCEPT ![f] = "empty", ![g] = "open"]
  /\ UNCHANGED <<vars, active, op>>

\* file(file&&): throws unless the source is open and idle.
Move(f, g) ==
  /\ fd[f] = "open" /\ active[f] = 0 /\ fd[g] = "unborn"
  /\ fd' = [fd EXCEPT ![f] = "empty", ![g] = "open"]
  /\ UNCHANGED <<vars, active, op>>

\* ~file closes it; nobody may use it any more.
Destroy(f) ==
  /\ fd[f] \in {"open", "empty"} /\ \A t \in Tasks : op[t] # <<>> => op[t].file # f
  /\ fd' = [fd EXCEPT ![f] = "unborn"]
  /\ UNCHANGED <<vars, active, op>>

FileStep(f) ==
  \/ Open(f) \/ Destroy(f) \/ \E g \in Files : Move(f, g)
  \/ \E t \in Tasks : WriteAll(t, f) \/ Flush(t, f)

\* The pool goes on under the operations; a token belongs to a whole operation.
PoolStep ==
  /\ \/ \E t \in Tasks :
          Notify(t) \/ Joined(t) \/ RequestStop(t) \/ Stop(t) \/ (op[t] = <<>> /\ NewToken(t))
     \/ \E w \in Workers : Work(w) \/ Start(w) \/ Post(w) \/ Spurious(w)
  /\ UNCHANGED fileVars

FileNext ==
  \/ \E f \in Files : FileStep(f)
  \/ \E t \in Tasks : Write(t) \/ Wrote(t)
  \/ \E w \in Workers, n \in 0..Length : Pwrite(w, n)
  \/ PoolStep

FileSpec == Init /\ FileInit /\ [][FileNext]_<<vars, fileVars>>
-----------------------------------------------------------------------------
\* active_ is the number of operations in flight, and the object one of them was started
\* on keeps its descriptor until the operation is over: no worker finds it moved from.
FileSteady ==
  \A f \in Files :
    LET busy == {t \in Tasks : op[t] # <<>> /\ st[t] # "idle" /\ op[t].file = f}
    IN active[f] = Cardinality(busy) /\ (busy # {} => fd[f] = "open")
=============================================================================
