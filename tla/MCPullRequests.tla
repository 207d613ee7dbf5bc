--------------------------- MODULE MCPullRequests ---------------------------
(* Three updates: the second is a newer patch that covers the first; the   *)
(* third is the second's tag with another digest, and fixes less than the  *)
(* first.                                                                  *)
EXTENDS PullRequests

Patches == <<1, 2, 2>>
Covers == {<<2, 1>>, <<3, 2>>}
=============================================================================
