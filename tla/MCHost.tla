-------------------------------- MODULE MCHost --------------------------------
(* Host for TLC.                                                              *)
EXTENDS Host

\* pages of three bytes: three regions that meet in one page; a region of three
\* pages and one inside the last of them, by a process that opens twice
MCLoads ==
  {[bufs |-> {[va |-> 1, len |-> 3], [va |-> 4, len |-> 1], [va |-> 5, len |-> 2]}, opens |-> 1],
   [bufs |-> {[va |-> 1, len |-> 6], [va |-> 7, len |-> 1]}, opens |-> 2]}
=============================================================================
