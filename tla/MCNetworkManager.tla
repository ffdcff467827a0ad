-------------------------- MODULE MCNetworkManager --------------------------
(***************************************************************************)
(* Instances of NetworkManager for TLC.                                    *)
(***************************************************************************)
EXTENDS NetworkManager, TLC

CONSTANTS A, B

FromA(n) == (A :> n) @@ (B :> 0)

Quiet == [window |-> 1, attempts |-> {1}, start |-> 6, sends |-> FromA(0), plain |-> FromA(0),
          tcp |-> FromA(0), toggle |-> FALSE, duplicating |-> FALSE]

\* Three packets and a window of one, with numbers that wrap around; two of them
\* on a network that duplicates; everything on one channel that is reconfigured.
Traffic ==
  {[Quiet EXCEPT !.sends = FromA(3)],
   [Quiet EXCEPT !.sends = FromA(2), !.duplicating = TRUE],
   [Quiet EXCEPT !.window = 2, !.attempts = {1, 2}, !.start = 0, !.sends = FromA(1),
                 !.plain = FromA(1), !.tcp = FromA(1), !.toggle = TRUE]}

TwoPlain == {[Quiet EXCEPT !.window = 2, !.attempts = {2}, !.start = 0, !.plain = FromA(2)]}
=============================================================================
