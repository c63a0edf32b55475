------------------------------ MODULE MeshWalk ------------------------------
(***************************************************************************)
(* What a walk of the mesh promises, with the queue, the retries, the      *)
(* samples and the order of the visits left out: repositories become known *)
(* through the anchors and through the bundles read, each known repository *)
(* gets one answer, and the walk is complete when none is left.            *)
(***************************************************************************)
EXTENDS Mesh

VARIABLES
  earlier,  \* the copies of an earlier walk
  read,     \* the bundle read from each repository
  refused,  \* the repositories with nothing, or nothing readable, there
  silent,   \* the repositories with neither an answer nor an earlier copy
  status    \* "walking", "complete" or "stopped"

vars == <<earlier, read, refused, silent, status>>

Known == LinksOf(Anchors) \cup LinksOf(CertsOf(read))
Visited == Held(read) \cup refused \cup silent

Init ==
  /\ earlier \in Folder
  /\ read = [u \in Uris |-> NoBody]
  /\ refused = {} /\ silent = {}
  /\ status = "walking"

Read(u, b) ==
  /\ read' = [read EXCEPT ![u] = b]
  /\ UNCHANGED <<refused, silent>>

Refuse(u) ==
  /\ refused' = refused \cup {u}
  /\ UNCHANGED <<read, silent>>

(* Only a repository without an earlier copy may be left unanswered.       *)
StaySilent(u) ==
  /\ earlier[u] = NoBody
  /\ silent' = silent \cup {u}
  /\ UNCHANGED <<read, refused>>

Visit(u) ==
  /\ status = "walking"
  /\ \/ \E b \in Bundles : Read(u, b)
     \/ Refuse(u)
     \/ StaySilent(u)
  /\ UNCHANGED <<earlier, status>>

CompleteWalk ==
  /\ status = "walking"
  /\ Known \subseteq Visited
  /\ status' = "complete"
  /\ UNCHANGED <<earlier, read, refused, silent>>

(* A limit may stop a walk that has repositories left.                     *)
StopWalk ==
  /\ status = "walking"
  /\ Known \ Visited # {}
  /\ status' = "stopped"
  /\ UNCHANGED <<earlier, read, refused, silent>>

Next == (\E u \in Known \ Visited : Visit(u)) \/ CompleteWalk \/ StopWalk

Spec == Init /\ [][Next]_vars
=============================================================================
