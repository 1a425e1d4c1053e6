---------------------------- MODULE MCOllamaCall -----------------------------
(***************************************************************************)
(* Two calls under the shipped file and under every file that differs from *)
(* it in a value or two.  The seconds keep their order, not their size;    *)
(* the second address has the form the validator lets through beside it.   *)
(***************************************************************************)
EXTENDS OllamaCall, TLC

Float(n)   == [type |-> "float", n |-> n]
Integer(n) == [type |-> "int", n |-> n]

Root ==
    [scheme |-> "http", host |-> TRUE, port |-> "valid", credentials |-> FALSE,
     path |-> "", query |-> FALSE, fragment |-> FALSE, space |-> FALSE]

Shipped ==
    [base_url |-> Root,
     timeouts |-> [connect_seconds |-> Float(2), read_seconds |-> Float(4),
                   write_seconds |-> Float(3), pool_seconds |-> Float(2)],
     limits |-> [max_connections |-> Integer(1), max_keepalive_connections |-> Integer(1),
                 keepalive_expiry_seconds |-> Float(3)]]

Times == {Float(-1), Float(0), Float(1), Float(Infinite), Integer(1)}

OtherTimeouts ==
    {[Shipped EXCEPT !.timeouts[f] = v] : f \in DOMAIN Shipped.timeouts, v \in Times}
    \cup {[Shipped EXCEPT !.timeouts =
               [f \in DOMAIN Shipped.timeouts \ {"read_seconds"} |-> Float(1)]]}

OtherLimits ==
    {[Shipped EXCEPT !.limits.max_connections = m, !.limits.max_keepalive_connections = k]
        : m \in {Integer(0), Integer(1), Integer(2), Float(1)},
          k \in {Integer(-1), Integer(0), Integer(1), Integer(2)}}
    \cup {[Shipped EXCEPT !.limits.keepalive_expiry_seconds = v] : v \in Times}

OtherUrls ==
    {[Shipped EXCEPT !.base_url = u] : u \in
        {[Root EXCEPT !.path = "/"], [Root EXCEPT !.path = "/v1"],
         [Root EXCEPT !.scheme = "ftp"], [Root EXCEPT !.host = FALSE],
         [Root EXCEPT !.port = "invalid"], [Root EXCEPT !.credentials = TRUE],
         [Root EXCEPT !.query = TRUE], [Root EXCEPT !.fragment = TRUE],
         [Root EXCEPT !.space = TRUE], [Root EXCEPT !.scheme = "https"]}}

MCFiles == {Shipped} \cup OtherTimeouts \cup OtherLimits \cup OtherUrls
=============================================================================
