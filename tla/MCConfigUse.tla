------------------------------ MODULE MCConfigUse ------------------------------
(* Patterns of every kind over a few labels, and destinations that they match, *)
(* nearly match and misread; files that add, repeat, override and break.       *)
EXTENDS ConfigUse

MCLabel == {"ex", "EX", "com", "a", "b", "10", "1", ":", "h", "*", ""}
MCLower == [l \in MCLabel |-> IF l = "EX" THEN "ex" ELSE l]

exCom   == Text(<<"ex", "com">>, <<>>)
anyEx   == Text(<<"*", "EX", "com">>, <<443>>)
underEx == Text(<<"", "ex", "com">>, <<>>)
aAnyCom == Text(<<"a", "*", "com">>, <<>>)
noPort  == Text(<<"h">>, <<70000>>)
net10   == Cidr("10/8")
addr10  == Text(<<"10", "1">>, <<>>)
loop6   == Text(<<":">>, <<1>>)            \* ::1
MCInNet == {<<"10/8", addr10>>}

MCDest == {[host |-> exCom, port |-> 443],
           [host |-> Text(<<"a", "b", "EX", "com">>, <<>>), port |-> 80],
           [host |-> addr10, port |-> 443], [host |-> loop6, port |-> 443],
           [host |-> Blank, port |-> 443]}
MCValue == {exCom, anyEx, underEx, aAnyCom, noPort, net10, Blank}
           \cup {Offered(d) : d \in MCDest}
MCAddValue == {anyEx, net10}

MCDefault == [Zero EXCEPT !.allow = <<exCom>>, !.envAllow = <<"PATH">>, !.filter = TRUE,
                !.logFile = "/state/log", !.cwd = "rw",
                !.caVars = <<"SSL_CERT_FILE">>,
                !.persist = ("claude" :> "/p/claude" @@ "aider" :> "/p/aider")]

MCUserFile == {
    Absent,
    Yaml([EmptyDocument EXCEPT !.allow = <<aAnyCom, exCom>>, !.filter = <<TRUE>>,
            !.persist = ("claude" :> "/q/claude" @@ "aider" :> "~/aider")]),
    Yaml([EmptyDocument EXCEPT !.deny = <<underEx>>, !.logFile = "~/log",
            !.envAllow = <<"TOKEN">>]),
    Mistyped([EmptyDocument EXCEPT !.allow = <<underEx>>, !.caBundle = "/ca.pem",
                !.caVars = <<"MY_CA">>]),
    Malformed}

MCProjectFiles == {
    Absent,
    Yaml([EmptyDocument EXCEPT !.allow = <<underEx, noPort, Blank>>, !.cwd = "ro", !.filter = <<TRUE>>,
            !.shares = <<[path |-> "~/lib", mode |-> "ro"], [path |-> "/x/lib", mode |-> "rw"]>>]),
    Yaml([EmptyDocument EXCEPT !.deny = <<exCom>>, !.logFile = "/project/log",
            !.shares = <<[path |-> "~/lib", mode |-> ""]>>])}

MCPath  == {"", "/state/log", "~/log", "/home/log", "/project/log", "~/lib", "/x/lib",
            "/p/claude", "/q/claude", "/p/aider", "~/aider"}
MCExpand == [p \in MCPath |-> IF p = "~/log" THEN "/home/log"
                              ELSE IF p = "~/lib" THEN "/home/lib"
                              ELSE IF p = "~/aider" THEN "/home/aider" ELSE p]
MCHomeOf == ("claude" :> "/home/sandbox/.claude" @@ "aider" :> "/home/sandbox/.aider")
MCShareDest == [p \in {"~/lib", "/x/lib"} |-> "/mnt/shared/lib"]
MCOtherDest == {[host |-> exCom, port |-> 443]}
OneFile == {Absent}
===============================================================================
