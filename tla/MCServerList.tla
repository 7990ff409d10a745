---------------------------- MODULE MCServerList ----------------------------
(* Instances of ServerList for TLC. *)
EXTENDS ServerList, TLC

Usual == [s \in Setting |-> "usual"]
Silent == [s \in Setting |-> Unset]
Says(s, v) == [Silent EXCEPT ![s] = v]

Line(a, t, settings) == [alias |-> a, url |-> "one", token |-> t, settings |-> settings]
List(defaults, servers) == [defaults |-> defaults, servers |-> servers]

\* A list with a default and an override of it, one with an override only, one
\* with a value that is refused, one with such a default that no server uses, one
\* that names an alias twice.
Lists ==
  {List(Says("receipts", "other"),
       <<Line("a", "TOKEN", Says("receipts", "usual")), Line("b", "", Silent)>>),
   List(Silent, <<Line("a", "", Says("attestation", "other"))>>),
   List(Silent, <<Line("a", "", Says("receipts", "explode"))>>),
   List(Says("receipts", "explode"), <<Line("b", "", Says("receipts", "other"))>>),
   List(Says("attestation", "other"), <<Line("b", "", Silent), Line("b", "", Silent)>>)}
=============================================================================
