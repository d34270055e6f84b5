------------------------------ MODULE MCPublish ------------------------------
(* Instance of PublishSession for TLC: three publishers, two of which compete *)
(* for a block while the third sends the next one.                            *)
EXTENDS PublishSession, TLC

CONSTANTS s1, s2, s3

ThreeSessions == {s1, s2, s3}
TwoBlocks == {1, 2}
OwnBlocks == [s \in Sessions |-> IF s = s2 THEN {2} ELSE {1}]
None == {}
OnlySecond == {2}
Rivals == Permutations({s1, s3})

\* Neither a step nor a property looks at the SkipBlock and ResendBlock that have
\* been sent.
NextMatters ==
  <<sess, shared, stored, owed, [s \in Sessions |-> {b \in Blocks : <<"ack", b>> \in sent[s]}]>>
=============================================================================
