------------------------ MODULE MCRuntimeStateEngine ------------------------
(***************************************************************************)
(* One pid that is reused: a process "a", whose producer does not give its *)
(* creation time, and a younger process "b". The collector lists both with *)
(* the second of their creation only. The unit of creation times is 100 ms.*)
(***************************************************************************)
EXTENDS RuntimeStateEngine

Identity(created, image) == [created |-> created, image |-> image]

ReportsUsed == {Identity(NoTime, "a"), Identity(23, "b")}

ListingsUsed == {Identity(10, "a"), Identity(20, "b")}
=============================================================================
