-------------------------- MODULE MCStreamServer --------------------------
(* StreamServer for TLC: the symmetry of the threads, which are stacks, and *)
(* of clients none of which is singled out.                                *)
EXTENDS StreamServer, TLC

NoUploads == {"/videos", "/video/a.mp4", "/live"}
Uploads   == {"/broadcast", "/video/a.mp4"}

StacksAndClients == Permutations(Threads) \cup Permutations(Clients)
=============================================================================
