------------------------------ MODULE MCSslIo ------------------------------
(* Small connections for TLC: one handshake message to a record, alerts whole or split. *)
EXTENDS SslIo

Rec(t, u) == [type |-> t, units |-> u]

MCRecords ==
  {Rec("handshake", <<u>>) : u \in HandshakeUnits} \cup
  {Rec("alert", <<"b1", "b0">>), Rec("alert", <<"b1", "b1">>),
   Rec("alert", <<"b1">>), Rec("alert", <<"b0">>),
   Rec("ccs", <<"ccs">>), Rec("app", <<"data">>), Rec("app", <<"data", "data">>)}
=============================================================================
