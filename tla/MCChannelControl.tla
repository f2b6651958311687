-------------------------- MODULE MCChannelControl --------------------------
(***************************************************************************)
(* ChannelControl for TLC. Every HomeKit thread is used at most once, so   *)
(* the threads bound the number of accepted 'H' commands, and with them    *)
(* the number of stop callbacks that can be in the pipe.                   *)
(***************************************************************************)
EXTENDS ChannelControl, TLC

Symmetric == Permutations(Thread)

=============================================================================
