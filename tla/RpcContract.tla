----------------------------- MODULE RpcContract -----------------------------
(***************************************************************************)
(* What the user of a QGrpcOperation is promised about each RPC, whatever  *)
(* channel carries it: messages arrive only while it runs, and it ends at  *)
(* most once.  Http2Channel is shown to implement it.                      *)
(***************************************************************************)
EXTENDS Naturals

CONSTANTS Ops,      \* the RPCs
          Deadline  \* those that have a deadline

VARIABLES phase,    \* how far each RPC is: unused, running, finished or dropped
          received  \* messages the user has received on it

vars == <<phase, received>>

Init ==
    /\ phase = [o \in Ops |-> "unused"]
    /\ received = [o \in Ops |-> 0]

Start(o) ==
    /\ phase[o] = "unused"
    /\ phase' = [phase EXCEPT ![o] = "running"]
    /\ UNCHANGED received

Deliver(o) ==
    /\ phase[o] = "running"
    /\ received' = [received EXCEPT ![o] = @ + 1]
    /\ UNCHANGED phase

Finish(o) ==
    /\ phase[o] = "running"
    /\ phase' = [phase EXCEPT ![o] = "finished"]
    /\ UNCHANGED received

\* The owner destroys the operation, finished or not.
Drop(o) ==
    /\ phase[o] \in {"running", "finished"}
    /\ phase' = [phase EXCEPT ![o] = "dropped"]
    /\ UNCHANGED received

Next == \E o \in Ops : Start(o) \/ Deliver(o) \/ Finish(o) \/ Drop(o)

Spec == Init /\ [][Next]_vars

\* An RPC with a deadline does not run for ever.
FairSpec == Spec /\ \A o \in Deadline : WF_vars(Finish(o))
=============================================================================
