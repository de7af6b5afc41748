------------------------------ MODULE MCTlsEngine ------------------------------
(* Small engines for TLC.                                                     *)
EXTENDS TlsEngine

Rec(t, u) == [type |-> t, units |-> u]

MCAlerts == {Rec("alert", <<"b1">>), Rec("alert", <<"b0">>),
             Rec("alert", <<"b1", "b0">>), Rec("alert", <<"b1", "b1">>),
             Rec("alert", <<"b1", "b100">>)}
MCHandshake == {Rec("handshake", <<u>>) : u \in HandshakeUnits}
MCOthers == {Rec("ccs", <<"ccs">>), Rec("app", <<"data">>), Rec("app", <<>>),
             Rec("other", <<"data">>)}

\* Messages that share a record.
MCJoined == {Rec("handshake", <<"sh", "hello_done">>),
             Rec("handshake", <<"hello_done", "hello_request">>),
             Rec("handshake", <<"finished", "hello_request">>),
             Rec("alert", <<"b100">>), Rec("ccs", <<"ccs", "ccs">>), Rec("app", <<"data", "data">>)}

MCRecords == MCAlerts \cup MCHandshake \cup MCOthers \cup MCJoined
MCFewRecords == MCAlerts \cup MCHandshake \cup MCOthers
===============================================================================
