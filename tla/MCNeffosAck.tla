----------------------------- MODULE MCNeffosAck -----------------------------
(* Instantiation of NeffosAck for TLC.  The state space is finite: one    *)
(* handshake, one request per side, and a poll counter that PollNext      *)
(* keeps within -1..PollMax.                                              *)
EXTENDS NeffosAck

\* Four rounds of the poll stand for maxSyncWaitDur / syncWaitDur.
MCPollMax == 4
=============================================================================
