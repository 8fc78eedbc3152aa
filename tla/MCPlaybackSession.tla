------------------------- MODULE MCPlaybackSession -------------------------
(***************************************************************************)
(* Sessions over small manifests: sizes follow the bitrate, and the second *)
(* segment of a content is a scene half as complex as the others.          *)
(***************************************************************************)
EXTENDS PlaybackSession

\* Kilobits per second times milliseconds are bits; halved for the easy scene.
MCSegmentSizes ==
  [b \in Ladder |-> [n \in 0 .. TotalSegments - 1 |->
     ((b * SegmentDuration) \div 8) \div (IF n = 1 THEN 2 ELSE 1)]]

OneContent == <<"c1">>
NoContents == << >>
=============================================================================
