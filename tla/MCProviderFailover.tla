------------------------ MODULE MCProviderFailover ------------------------
(***************************************************************************)
(* Instances of ProviderFailover.                                          *)
(***************************************************************************)
EXTENDS ProviderFailover, TLC

CONSTANTS a, b, c

Table(ab, bc, ca) == a :> ab @@ b :> bc @@ c :> ca
On == Table({"timeout", "rate_limit"}, {"timeout", "connection", "server_5xx"},
            {"timeout", "rate_limit"})

\* A chain with an instance that cannot serve in the middle, and a circle.
MCSetups ==
  { [failover |-> Table(<<b>>, <<c>>, <<>>), on |-> On,
     keys |-> Table(2, 1, 1), usable |-> {a, c}],
    [failover |-> Table(<<b>>, <<a>>, <<>>), on |-> On,
     keys |-> Table(2, 1, 1), usable |-> {a, b}] }

\* Two keys for one instance.
MCKeySetups ==
  { [failover |-> Table(<<>>, <<>>, <<>>), on |-> On,
     keys |-> Table(2, 1, 1), usable |-> {a}] }

\* Two alternatives for one instance.
MCListSetups ==
  { [failover |-> Table(<<b, c>>, <<>>, <<>>), on |-> On,
     keys |-> Table(1, 1, 1), usable |-> {a, b, c}] }
=============================================================================
