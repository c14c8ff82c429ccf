------------------------- MODULE MCProviderTransport -------------------------
(* Instances of ProviderTransport for model checking. *)
EXTENDS ProviderTransport

(* No request is pinned to a credential. *)
NotFixed == [r \in Requests |-> None]
=============================================================================
