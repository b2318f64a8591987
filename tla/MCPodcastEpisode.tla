-------------------------- MODULE MCPodcastEpisode --------------------------
(* Model checking of PodcastEpisode.  The Scans are interchangeable; only the *)
(* run without liveness properties uses the symmetry.                        *)
EXTENDS PodcastEpisode, TLC

Scans == Permutations(Episode)

=============================================================================
