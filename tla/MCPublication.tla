---------------------------- MODULE MCPublication ----------------------------
(***************************************************************************)
(* Instances of Publication for TLC.                                       *)
(***************************************************************************)
EXTENDS Publication, FiniteSetsExt, TLC

CONSTANTS e1, e2, e3, r1, r2, r3

\* e1 takes two requests at a time and e2 one; e3 does not fit besides both.
MCConcurrency == (e1 :> 2) @@ (e2 :> 1) @@ (e3 :> 1)
MCQueueSize == (e1 :> 1) @@ (e2 :> 1) @@ (e3 :> 2)
MCMaxDistance == (e1 :> 1) @@ (e2 :> 2) @@ (e3 :> 2)
OneAtATime == (e1 :> 1)
Requests == Permutations({r1, r2, r3})

\* "Concurrency and queue size are cumulative" (README.md): the settings of the
\* publication are those of its endpoints together, however they come and go,
\* and its distance is the largest of theirs.
SettingsCumulative ==
    /\ settings.concurrency =
          MapThenSumSet(LAMBDA e : Concurrency[e], published)
    /\ settings.queueSize = MapThenSumSet(LAMBDA e : QueueSize[e], published)
    /\ settings.maxDistance = Max({MaxDistance[e] : e \in published} \cup {0})
=============================================================================
