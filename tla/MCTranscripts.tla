--------------------------- MODULE MCTranscripts ---------------------------
(* Instances of Transcripts for TLC: a guest of two episodes, in one list or in two. *)
EXTENDS Transcripts, TLC

CONSTANTS ann, bob, mayA, mayB, e1, e2, f1, f2, w1

TwoLeads == {ann, bob}
TwoLists == {mayA, mayB}
TwoEpisodes == {e1, e2}
TwoFetches == {f1, f2}
OneWriter == {w1}
AllOrAnn == {TwoLeads, {ann}}

(* ann was on both episodes: list mayA has both rows of her, mayB the second. bob shares
   the first with her, and is in mayB without an episode.                               *)
SharedEpisodes == { <<mayA, ann, e1>>, <<mayA, ann, e2>>, <<mayA, bob, e1>>,
                    <<mayB, ann, e2>>, <<mayB, bob, NULL>> }
=============================================================================
