------------------------------- MODULE Task -------------------------------
(***************************************************************************)
(* Ownership and control transfer of coroutine frames: task<T>, its        *)
(* promise and its awaiter (src/include/snowy/task.hpp).  A frame is       *)
(* created suspended and owned by one task object; awaiting the task moves *)
(* the handle into the awaiter, which runs the child by symmetric transfer *)
(* and destroys it after the result has been taken.                        *)
(*                                                                         *)
(* A holder of handles is a frame, a root (a coroutine nobody awaits: the  *)
(* bridges of Spawn) or the code outside all coroutines.  It has two task  *)
(* variables, its parameter and a local, and the awaiter of the            *)
(* co_await expression it is in.  A frame's identity is used once.         *)
(***************************************************************************)
EXTENDS Naturals, FiniteSets

CONSTANTS Frames, Roots, User, None   \* all different

VARIABLES
  st,      \* of a coroutine: "none", "initial", "running", "parked" in an operation of the loop,
           \* "awaiting" a child, "resumed" by it, "final" or "freed"
  handle,  \* handle_ of the holder's task variables and of its awaiter
  cont,    \* continuation_ of the promise; None is the no-op coroutine
  ended,   \* value_ or exception_ of the promise
  heard    \* what the last co_await of a task gave: "value", "error" or "none" yet

taskVars == <<st, handle, cont, ended, heard>>

Coros   == Frames \cup Roots
Holders == Coros \cup {User}
Locals  == {"param", "local"}
Slots   == Locals \cup {"await"}
Empty   == [x \in Slots |-> None]

TaskInit ==
  /\ st = [c \in Coros |-> "none"]
  /\ handle = [p \in Holders |-> Empty]
  /\ cont = [f \in Frames |-> None]
  /\ ended = [f \in Frames |-> "none"]
  /\ heard = [c \in Coros |-> "none"]

\* Who executes statements now, roots apart.
Running(p) == p = User \/ (p \in Frames /\ st[p] = "running")
-----------------------------------------------------------------------------
\* What the frames of S own, directly.
Owned(S) == {f \in Frames : \E h \in S, x \in Slots : handle[h][x] = f}

\* coroutine_handle::destroy runs the destructors of what the frame holds: the frames
\* that go with those of F are the least set closed under ownership.
Destroyed(F) ==
  {g \in Frames : \A S \in SUBSET Frames : (F \subseteq S /\ Owned(S) \subseteq S) => g \in S}

\* The handles once the frames of G are gone and the variables of C are empty.
Cleared(G, C) ==
  [p \in Holders |-> [x \in Slots |-> IF p \in G \/ <<p, x>> \in C THEN None ELSE handle[p][x]]]

\* ~task and ~awaiter of variable x of holder p.
Victims(p, x) == IF handle[p][x] = None THEN {} ELSE Destroyed({handle[p][x]})
-----------------------------------------------------------------------------
\* Mutant: the move constructor leaves the handle in its source.
CreateCopy(p, f, x, y) ==
  /\ Running(p) /\ st[f] = "none" /\ x \in Locals /\ y \in Locals \ {x} /\ handle[p][x] = None
  /\ st' = [st EXCEPT ![f] = "initial"]
  /\ handle' = [handle EXCEPT ![f]["param"] = handle[p][y], ![p] = [@ EXCEPT ![x] = f]]
  /\ UNCHANGED <<cont, ended, heard>>

\* A call of a coroutine function: the frame starts suspended, takes an argument of task
\* type by move (variable y; it may be empty) and returns the owning object into x.
Create(p, f, x, y) ==
  /\ Running(p) /\ st[f] = "none" /\ x \in Locals /\ y \in Locals \ {x} /\ handle[p][x] = None
  /\ st' = [st EXCEPT ![f] = "initial"]
  /\ handle' = [handle EXCEPT ![f]["param"] = handle[p][y], ![p] = [@ EXCEPT ![x] = f, ![y] = None]]
  /\ UNCHANGED <<cont, ended, heard>>

\* operator=, to another object: the frame owned so far is destroyed; assigning an empty task is ~task.
Assign(p, x, y) ==
  /\ Running(p) /\ x \in Locals /\ y \in Locals \ {x}
  /\ LET G == Victims(p, x) IN
       /\ st' = [c \in Coros |-> IF c \in G THEN "freed" ELSE st[c]]
       /\ handle' = [Cleared(G, {}) EXCEPT ![p] = [@ EXCEPT ![x] = handle[p][y], ![y] = None]]
  /\ UNCHANGED <<cont, ended, heard>>

\* Mutant: co_await leaves the handle in the task object.
TransferCopy(p, x) ==
  LET f == handle[p][x] IN
    /\ handle' = [handle EXCEPT ![p] = [@ EXCEPT !["await"] = f]]
    /\ cont' = [cont EXCEPT ![f] = p]
    /\ st' = [st EXCEPT ![p] = "awaiting", ![f] = "running"]

\* operator co_await empties the object; await_suspend registers the continuation and
\* transfers into the child.
Transfer(p, x) ==
  LET f == handle[p][x] IN
    /\ handle' = [handle EXCEPT ![p] = [@ EXCEPT ![x] = None, !["await"] = f]]
    /\ cont' = [cont EXCEPT ![f] = p]
    /\ st' = [st EXCEPT ![p] = "awaiting", ![f] = "running"]

\* co_await of a task; an empty one throws in await_resume.
Await(p, x) ==
  /\ p \in Frames /\ Running(p) /\ x \in Locals
  /\ IF handle[p][x] # None THEN Transfer(p, x) /\ UNCHANGED heard
     ELSE heard' = [heard EXCEPT ![p] = "error"] /\ UNCHANGED <<st, handle, cont>>
  /\ UNCHANGED ended

\* An operation of the loop suspends the coroutine, and the loop resumes it.
Suspend(f) ==
  /\ st[f] = "running"
  /\ st' = [st EXCEPT ![f] = "parked"] /\ UNCHANGED <<handle, cont, ended, heard>>
Wake(f) ==
  /\ st[f] = "parked"
  /\ st' = [st EXCEPT ![f] = "running"] /\ UNCHANGED <<handle, cont, ended, heard>>

\* final_awaiter: the coroutine is finally suspended and its continuation runs.
Resumed(f) ==
  [c \in Coros |-> IF c = f THEN "final" ELSE IF c = cont[f] THEN "resumed" ELSE st[c]]

\* co_return or an exception that leaves the body: the outcome is stored, locals are
\* destroyed, and control passes on; parameters live until the frame goes.
Return(f, o) ==
  /\ st[f] = "running" /\ o \in {"value", "error"}
  /\ LET G == Victims(f, "local") IN
       /\ st' = [c \in Coros |-> IF c \in G THEN "freed" ELSE Resumed(f)[c]]
       /\ handle' = Cleared(G, {<<f, "local">>})
  /\ ended' = [ended EXCEPT ![f] = o]
  /\ UNCHANGED <<cont, heard>>

\* take_result moves the value out of the promise or rethrows the exception.
TakeResult(f) == ended[f]

\* await_resume takes the result or rethrows; then ~awaiter destroys the child.
Continue(p) ==
  /\ st[p] = "resumed"
  /\ heard' = [heard EXCEPT ![p] = TakeResult(handle[p]["await"])]
  /\ LET G == Victims(p, "await") IN
       /\ st' = [c \in Coros |-> IF c = p THEN "running" ELSE IF c \in G THEN "freed" ELSE st[c]]
       /\ handle' = Cleared(G, {<<p, "await">>})
  /\ UNCHANGED <<cont, ended>>

\* A root takes a task of the user's as its parameter.
Adopt(r, x) ==
  /\ st[r] = "none" /\ x \in Locals /\ handle[User][x] # None
  /\ st' = [st EXCEPT ![r] = "initial"]
  /\ handle' = [handle EXCEPT ![User] = [@ EXCEPT ![x] = None], ![r] = [@ EXCEPT !["param"] = handle[User][x]]]
  /\ UNCHANGED <<cont, ended, heard>>

\* The body of a root awaits its parameter.
Begin(r) == st[r] = "initial" /\ Transfer(r, "param") /\ UNCHANGED <<ended, heard>>

Body(f) ==
  \/ \E g \in Frames, x, y \in Locals : Create(f, g, x, y)
  \/ \E x, y \in Locals : Assign(f, x, y)
  \/ \E x \in Locals : Await(f, x)
  \/ Suspend(f) \/ \E o \in {"value", "error"} : Return(f, o)

UserStep ==
  \/ \E f \in Frames, x, y \in Locals : Create(User, f, x, y)
  \/ \E x, y \in Locals : Assign(User, x, y)

TaskStep ==
  \/ UserStep
  \/ \E f \in Frames : Body(f) \/ Wake(f) \/ Continue(f)
  \/ \E r \in Roots : Begin(r)

\* A body ends, an operation of the loop completes, a transfer is carried out.
TaskFairness ==
  /\ \A f \in Frames : SF_taskVars(\E o \in {"value", "error"} : Return(f, o)) /\ WF_taskVars(Wake(f))
  /\ \A f \in Frames : WF_taskVars(Continue(f))
  /\ \A r \in Roots : WF_taskVars(Begin(r))
-----------------------------------------------------------------------------
Live == {f \in Frames : st[f] \notin {"none", "freed"}}
===========================================================================
