-------------------------------- MODULE Ring --------------------------------
(***************************************************************************)
(* The bounded buffer that channel<T> and mailbox<T> share line for line:  *)
(* slots_, head_ and size_, with indices modulo the number of slots, which *)
(* may be zero.                                                            *)
(***************************************************************************)
EXTENDS Naturals, Sequences

CONSTANTS
  Values,
  Capacities   \* the capacities a buffer may be constructed with

ASSUME CapacityNat == Capacities \subseteq Nat
ASSUME ValuesPlain == Values \cap {"none", "recv", "sent", "canceled", "broken", "closed"} = {}

Optional == Values \cup {"none"}

\* slots_(capacity).
EmptyRing(n) == [slots |-> [i \in 0..n - 1 |-> "none"], head |-> 0, size |-> 0]

\* slots_.size().
Capacity(r) == CHOOSE n \in Capacities : DOMAIN r.slots = 0..n - 1
Full(r) == r.size = Capacity(r)

\* slots_[(head_ + size_) % slots_.size()].emplace(v); ++size_.
Put(r, v) == [r EXCEPT !.slots[(r.head + r.size) % Capacity(r)] = v, !.size = @ + 1]

First(r) == r.slots[r.head]

\* slots_[head_].reset(); head_ = (head_ + 1) % slots_.size(); --size_.
Drop(r) == [r EXCEPT !.slots[r.head] = "none", !.head = (@ + 1) % Capacity(r), !.size = @ - 1]

\* The buffered values, oldest first.
Contents(r) == [k \in 1..r.size |-> r.slots[(r.head + k - 1) % Capacity(r)]]
=============================================================================
