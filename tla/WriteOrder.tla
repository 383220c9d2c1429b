----------------------------- MODULE WriteOrder -----------------------------
(***************************************************************************)
(* What DB::Write promises to its callers when nothing crashes: the writes *)
(* that succeed are put one after the other into a single history, some of *)
(* them together, each exactly once and between its call and its return;   *)
(* a write that fails is not in the history.                               *)
(***************************************************************************)
EXTENDS Naturals, Sequences, FiniteSets

CONSTANT Writes

VARIABLES state,    \* of each write: see States
          history   \* the writes that took effect, in order

States == {"none", "asked", "committed", "refused", "ok", "error"}

Init == state = [w \in Writes |-> "none"] /\ history = <<>>

Ask(w) ==
  /\ state[w] = "none"
  /\ state' = [state EXCEPT ![w] = "asked"]
  /\ UNCHANGED history

\* All writes of s take effect, in this order and at once; those in answered
\* return in the same step.
Commit(s, answered) ==
  LET set == {s[i] : i \in DOMAIN s}
  IN /\ Cardinality(set) = Len(s)
     /\ \A w \in set : state[w] = "asked"
     /\ history' = history \o s
     /\ state' = [w \in Writes |-> IF w \notin set THEN state[w]
                                   ELSE IF w \in answered THEN "ok"
                                   ELSE "committed"]

\* The writes of set fail.
Refuse(set, answered) ==
  /\ \A w \in set : state[w] = "asked"
  /\ state' = [w \in Writes |-> IF w \notin set THEN state[w]
                                ELSE IF w \in answered THEN "error"
                                ELSE "refused"]
  /\ UNCHANGED history

Answer(w) ==
  /\ \/ state[w] = "committed" /\ state' = [state EXCEPT ![w] = "ok"]
     \/ state[w] = "refused" /\ state' = [state EXCEPT ![w] = "error"]
  /\ UNCHANGED history

Asked == {w \in Writes : state[w] = "asked"}

\* The sequences without repetition over a set.
Orders(S) ==
  UNION {{s \in [1 .. n -> S] : \A i, j \in 1 .. n : s[i] = s[j] => i = j} :
           n \in 1 .. Cardinality(S)}

Next ==
  \/ \E w \in Writes : Ask(w) \/ Answer(w)
  \/ \E s \in Orders(Asked) : \E answered \in SUBSET Writes : Commit(s, answered)
  \/ \E set, answered \in SUBSET Asked : Refuse(set, answered)

Spec == Init /\ [][Next]_<<state, history>>
=============================================================================
