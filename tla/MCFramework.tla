---------------------------- MODULE MCFramework ----------------------------
(* Instances of Framework for TLC.                                         *)
EXTENDS Framework

\* The program makes no outgoing connection.
NoConnect ==
  /\ \A c \in Clients : posting'[c].op # "addConn"
  /\ \A io \in IoIds : ret'[io] = "none"

\* The program does not listen.
NoServer == \A c \in Clients : posting'[c].op # "addServ"

\* The framework is never stopped.
StaysUp == main' = "up"

\* A callback sends one message, a client MaxMsgs of them.
CallbackSendsOne == \A t \in Callbacks : nmsg'[t] <= 1
=============================================================================
