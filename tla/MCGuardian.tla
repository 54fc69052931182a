------------------------------ MODULE MCGuardian ------------------------------
(* Rule a allows destination da; it may come to be denied as well. One          *)
(* connection dials the proxy and sends anything, beside one to the control     *)
(* socket; or two whose requests are refused come by the proxy and its socket.  *)
EXTENDS Guardian

CONSTANTS c1, c2, c3, c4, a, none, da

MCParse  == [v \in {a} |-> a]
MCMatch  == {<<a, da>>}
MCUpdate == {[allow |-> {a}, deny |-> {}]}

MCListenerOf == [c \in Conn |->
    CASE c \in {c1, c4} -> "proxy" [] c = c2 -> "control" [] c = c3 -> "proxySock"]
MCFirstOf == [c \in Conn |->
    CASE c = c1 -> Request [] c = c2 -> {} [] c = c3 -> {Unknown} [] c = c4 -> {Invalid}]
MCTogether == {{c1, c2}, {c3, c4}}
===============================================================================
