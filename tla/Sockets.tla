------------------------------ MODULE Sockets ------------------------------
(***************************************************************************)
(* The socket requests over either of the two drivers: each behaviour is   *)
(* one of a loop on kqueue or of a loop on a completion port.              *)
(***************************************************************************)
EXTENDS Kqueue, Iocp

VARIABLE driver

kqueueOnly == <<kernel, batch>>
iocpOnly == <<kern, killed, port, packets>>
vars == <<base, driver, timed, kqueueOnly, iocpOnly>>

Init == driver \in {"kqueue", "iocp"} /\ KInit /\ PInit

Next ==
  \/ driver = "kqueue" /\ KNext /\ UNCHANGED <<driver, iocpOnly>>
  \/ driver = "iocp" /\ PNext /\ UNCHANGED <<driver, kqueueOnly>>

Spec == Init /\ [][Next]_vars
-----------------------------------------------------------------------------
OnKqueue == driver = "kqueue"

\* Exactly one thing will complete a pending request, and nothing in the kernel or in
\* poll's batch names a request whose coroutine has gone on: with kqueue its one-shot
\* filter or the event taken for it (submit, loop::cancel), with a completion port the
\* system or one packet (submit: "never resume it twice").
OneSource == IF OnKqueue THEN KOneSource ELSE POneSource

\* A connect() on kqueue reports success only when the attempt is over (poll reads SO_ERROR
\* after the filter has fired for it).
ConnectEnded == OnKqueue => KConnectEnded
=============================================================================
