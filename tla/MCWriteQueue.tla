---------------------------- MODULE MCWriteQueue ----------------------------
(***************************************************************************)
(* Small instances of WriteQueue for TLC.                                  *)
(***************************************************************************)
EXTENDS WriteQueueOrder

CONSTANTS a, b, c, closer

Two == {a, b}
Three == {a, b, c}

NoFaults == {}
LogFaults == {"append", "sync", "create", "close"}
TableFaults == {"build", "manifest"}
BackgroundFaults == {"close", "build", "manifest"}
PutAndSync == {"put", "sync"}
PutAndFlush == {"put", "flush"}
PutAndManual == {"put", "manual"}
AllButSync == {"put", "flush", "manual"}

\* Calls return whatever fails, and so does the destructor, which waits for
\* background_compaction_scheduled_ to be cleared.
EverythingReturns == CallsReturn /\ CloseReturns
=============================================================================
