-------------------------------- MODULE MCTunnel -------------------------------
EXTENDS Tunnel

\* Every way from a client to a destination but the longest, through both the relay
\* and an upstream proxy, whose hops the others have.
MCShapes ==
    {s \in [relay : BOOLEAN, connect : BOOLEAN, upstream : BOOLEAN] : ~(s.relay /\ s.upstream)}
===============================================================================
