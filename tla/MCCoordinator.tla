--------------------------- MODULE MCCoordinator ---------------------------
(***************************************************************************)
(* Small instances of Coordinator: three containers in two pods, of one or *)
(* two images; proxy calls are for the first pod.                          *)
(* Remove calls are interchangeable.                                       *)
(***************************************************************************)
EXTENDS Coordinator, TLC

MCCreates == {"c1", "c2", "c3"}
MCImages == {"a", "b"}

MCPodOf == [x \in Creates \cup Proxies |-> IF x \in {"c2", "c3"} THEN "p2" ELSE "p1"]

\* c3, in another pod, reuses what c1 leaves behind; c2 has an image of its own.
MCImageOf == [x \in Creates |-> IF x = "c2" THEN "b" ELSE "a"]

\* All of one image, the last without GUEST_IMAGE.
MCImageOfNone == [x \in Creates |-> IF x = "c3" THEN NoImage ELSE "a"]

Symmetry == Permutations(Removes)
=============================================================================
