---------------------------- MODULE MCPropertyAddr ----------------------------
(* All short texts, and all addresses of one or two steps with short names. *)
EXTENDS PropertyAddr

Chars == {"a", "*", "/", "\\", "{", "}"}
Texts(n) == UNION {[1..k -> Chars] : k \in 0..n}
Steps(n) ==
  [type : {"prop"}, value : Texts(n), variant : Texts(1)]
    \cup [type : {"index"}, value : {<<>>}, variant : Texts(n)]

MCWritten == Texts(4)
MCPrinted == {<<s>> : s \in Steps(2)} \cup {<<s, t>> : s, t \in Steps(1)}
===============================================================================
