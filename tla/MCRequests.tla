----------------------------- MODULE MCRequests -----------------------------
(* Requests on small instances. *)
EXTENDS Requests, TLC

CONSTANTS r1, r2, r3, c1, c2

MCRequests == {r1, r2, r3}

MCClientOf == (r1 :> c1) @@ (r2 :> c1) @@ (r3 :> c2)

\* One request of any kind, beside those that change what becomes of others.
\* Of kinds with the same Outcomes there is one.
MCKindsOf ==
  (r1 :> Kinds \ {"short", "garbled", "ping", "info", "refused"}) @@ (r2 :> {"blank", "subscribe"}) @@ (r3 :> {"ping"})

\* The first subscription is enough for the reactors.
MCSubscribing == [r \in MCRequests |-> {"subscribe"}]

=============================================================================
