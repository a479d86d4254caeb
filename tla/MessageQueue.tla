---------------------------- MODULE MessageQueue ----------------------------
(***************************************************************************)
(* VecDeque operations, as the Chatbox dispatcher performs them on its     *)
(* display queue, the reconnect buffer on its input and the model manager  *)
(* on its waiters: retain and position.  (insert and remove are InsertAt   *)
(* and RemoveAt of SequencesExt.)  Keep is a recursive function (and not   *)
(* SelectSeq) so that its laws can be proved, in MessageQueueProofs.       *)
(***************************************************************************)
EXTENDS Integers, Sequences

(***************************************************************************)
(* retain: the elements of q that are in M, in the order q has them.       *)
(***************************************************************************)
Keep(q, M) ==
  LET kept[i \in 0..Len(q)] ==
        IF i = 0 THEN << >>
        ELSE IF q[i] \in M THEN Append(kept[i-1], q[i]) ELSE kept[i-1]
  IN  kept[Len(q)]

(***************************************************************************)
(* position: the first index of q whose element is in M, Len(q)+1 if none. *)
(***************************************************************************)
FirstIn(q, M) ==
  CHOOSE i \in 1..Len(q)+1 :
    /\ i <= Len(q) => q[i] \in M
    /\ \A j \in 1..i-1 : q[j] \notin M
=============================================================================
