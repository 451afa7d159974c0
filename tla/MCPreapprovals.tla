--------------------------- MODULE MCPreapprovals ---------------------------
(* One release, two humans who may approve, and a list of approvers that the *)
(* project revises.                                                          *)
EXTENDS Preapprovals

CONSTANTS s1, s2

Clients == {s1, s2}
Lists == {{"ann"}, {"ann", "bob"}}
=============================================================================
