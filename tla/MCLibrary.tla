----------------------------- MODULE MCLibrary ------------------------------
(***************************************************************************)
(* The parts of the library that a program uses on their own: the tree,    *)
(* the sockets, the traces and the file walks, checked one at a time: used *)
(* says which one a behaviour uses.                                        *)
(***************************************************************************)
EXTENDS RBTree, Sockets, Trace, TraceNet, Files

CONSTANTS d1, e1, e2 \* entries: d1 and e1 in the root, e2 in d1

VARIABLE used

libVars == <<vars, sockVars, traceVars, netVars, fileVars, used>>

\* Nodes are numbers; node 7 has the key of node 4.
MCKeyOf == [n \in Node |-> IF n = 7 THEN 4 ELSE n]

MCDir(e) == IF e = e2 THEN d1 ELSE Root
MCFlags == {Severities, {"ERR"}}

MCInit ==
  /\ Init /\ SockInit /\ TraceInit /\ NetInit /\ FilesInit
  /\ used \in {"rbtree.c", "socket.c", "trace.c", "tracenet.c", "filesys.c"}
  \* One tree of either kind for the parts that do not use it.
  /\ used # "rbtree.c" => ~multiple
  /\ used # "filesys.c" => kind = [e \in Entries |-> IF e = Root THEN "dir" ELSE "none"]

MCNext ==
  /\ \/ /\ used = "rbtree.c" /\ Next
        /\ UNCHANGED <<sockVars, traceVars, netVars, fileVars>>
     \/ /\ used = "socket.c" /\ SockNext
        /\ UNCHANGED <<vars, traceVars, netVars, fileVars>>
     \/ /\ used = "trace.c" /\ TraceNext
        /\ UNCHANGED <<vars, sockVars, netVars, fileVars>>
     \/ /\ used = "tracenet.c" /\ NetNext
        /\ UNCHANGED <<vars, sockVars, traceVars, fileVars>>
     \/ /\ used = "filesys.c" /\ FilesNext
        /\ UNCHANGED <<vars, sockVars, traceVars, netVars>>
  /\ UNCHANGED used

MCSpec == MCInit /\ [][MCNext]_libVars /\ NetFairness
=============================================================================
