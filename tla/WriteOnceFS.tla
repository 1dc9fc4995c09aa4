---------------------------- MODULE WriteOnceFS ----------------------------
(***************************************************************************)
(* What the metadata service promises about files, without chunks, nodes   *)
(* or replicas: a file is a row of slots, each filled once; it is          *)
(* published when every slot is filled; publishing and deleting touch no   *)
(* content, and no operation touches two files.                            *)
(*                                                                         *)
(* A deleted file may be published again: handleCmdCommitFile does not     *)
(* look at the status, and this specification promises no more than that.  *)
(***************************************************************************)
EXTENDS ReplicaLists

CONSTANTS
  FileIDs,
  SlotCounts,   \* how many chunks a file may have
  Checksums,
  Empty         \* the content of a slot that is not filled

VARIABLES
  status,   \* file ID -> "creating", "complete" or "deleted"
  content   \* file ID -> sequence of checksums or Empty

fsVars == <<status, content>>

Init ==
  /\ status = EmptyRegistry
  /\ content = EmptyRegistry

Create(f) ==
  /\ f \notin DOMAIN status
  /\ status' = Put(status, f, "creating")
  /\ \E k \in SlotCounts : content' = Put(content, f, [i \in 1..k |-> Empty])

Fill(f, sum) ==
  /\ f \in DOMAIN status
  /\ \E i \in 1..Len(content[f]) :
       /\ content[f][i] = Empty
       /\ content' = [content EXCEPT ![f][i] = sum]
  /\ UNCHANGED status

Publish(f) ==
  /\ f \in DOMAIN status
  /\ \A i \in 1..Len(content[f]) : content[f][i] # Empty
  /\ status' = [status EXCEPT ![f] = "complete"]
  /\ UNCHANGED content

Remove(f) ==
  /\ f \in DOMAIN status
  /\ status' = [status EXCEPT ![f] = "deleted"]
  /\ UNCHANGED content

Next ==
  \E f \in FileIDs :
    \/ Create(f)
    \/ \E sum \in Checksums : Fill(f, sum)
    \/ Publish(f)
    \/ Remove(f)

Spec == Init /\ [][Next]_fsVars

=============================================================================
