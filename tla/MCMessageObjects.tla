-------------------------- MODULE MCMessageObjects --------------------------
EXTENDS QtTypes

MCShapes == {{"num", "text", "opt", "unknown"}, {"num", "msg"}, {"text", "one"}}

(* Two libraries; A and B have the same name. *)
MCRegistrars == [lib |-> [messages |-> <<"A">>, enums |-> <<"E">>],
                 plugin |-> [messages |-> <<"B", "C">>, enums |-> <<>>]]
MCFullName == [A |-> "pkg.A", B |-> "pkg.A", C |-> "pkg.C", E |-> Gadget]
MessagesSymmetry == Permutations(Objs) \cup Permutations(Threads)
=============================================================================
