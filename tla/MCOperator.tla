----------------------------- MODULE MCOperator -----------------------------
(* A small instance of Operator for TLC. *)
EXTENDS Operator, TLC

CONSTANTS k1, r1, n1, b1

DomainSpecs == k1 :> {[name |-> n1, externalDNS |-> FALSE, forceMX |-> FALSE, export |-> "off"]}

RouteSpecs == r1 :> {[request |-> [body |-> b1, priority |-> 0, actions |-> <<1>>], domain |-> n1]}

Lists == {<<1>>}
=============================================================================
