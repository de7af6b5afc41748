---------------------------- MODULE MCTlsConnection ----------------------------
(* Small connections for TLC.                                                   *)
EXTENDS TextExchange

Rec(t, u) == [type |-> t, units |-> u]

\* A server that supports secure renegotiation or does not; its messages come one
\* in each record, or all up to ServerHelloDone in one.  Nothing is behind a
\* HelloRequest or a Finished message (ApartFromNext).
MCRecords ==
  {Rec("handshake", <<u>>) : u \in HandshakeUnits} \cup
  {Rec("handshake", <<"sh", "hello_done">>),
   Rec("alert", <<"b1", "b0">>), Rec("alert", <<"b1", "b1">>),
   Rec("alert", <<"b0", "b1">>), Rec("ccs", <<"ccs">>),
   Rec("app", <<"data">>), Rec("app", <<"data", "data">>), Rec("app", <<>>)}

================================================================================
