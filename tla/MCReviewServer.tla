---------------------------- MODULE MCReviewServer ----------------------------
(* Two rival invocations, two saves and one reader over one item of one    *)
(* chunk: what is copied is the publisher's own run's question.            *)
EXTENDS ReviewServer

CONSTANTS p1, p2, w1, w2, g1

MCPublishers == {p1, p2}
MCPosts == {w1, w2}
MCGets == {g1}
=============================================================================
