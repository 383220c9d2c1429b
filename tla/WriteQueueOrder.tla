--------------------------- MODULE WriteQueueOrder --------------------------
(***************************************************************************)
(* What the callers of DBImpl::Write see of module WriteQueue: a history   *)
(* in which one write follows the other (module WriteOrder).               *)
(***************************************************************************)
EXTENDS WriteQueue, SequencesExt

\* A write is asked for while its call is in progress and nobody has answered
\* for it; a follower learns the answer when it wakes up.
CallState(w) ==
  LET t == w[1] IN
  CASE result[w] # "none" -> result[w]
    [] result[w] = "none" /\ w = CurrentWrite(t) /\ pc[t] # "idle"
         /\ kind[t] \in {"put", "sync"} ->
         IF pc[t] = "queue" /\ done[t]
         THEN IF status[t] = "ok" THEN "committed" ELSE "refused"
         ELSE "asked"
    [] OTHER -> "none"

\* The visible writes, in the order of their sequence numbers.
VisibleOrder ==
  SetToSortSeq({w \in inserted : seqOf[w] <= lastSeq},
               LAMBDA v, w : seqOf[v] < seqOf[w])

Caller == INSTANCE WriteOrder WITH state <- [w \in Writes |-> CallState(w)],
                                   history <- VisibleOrder

\* Group commit implements the one-at-a-time history: sequence numbers follow
\* the order in which groups finish, and each successful write is in it once.
ImplementsWriteOrder == Caller!Spec
=============================================================================
