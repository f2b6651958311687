------------------------------ MODULE MCRunLoop ------------------------------
(***************************************************************************)
(* RunLoop for TLC: two descriptors, the self-pipe's and that of a TCP     *)
(* stream, and handles that wait for reading or for writing.               *)
(***************************************************************************)
EXTENDS RunLoop

ReadOrWrite == {{"read"}, {"write"}}

=============================================================================
