---------------------------- MODULE MCLeaderCache ----------------------------
(* LeaderCache for three validators of different weights over two periods,
   a fourth that joins and a change of weights. *)
EXTENDS LeaderCache

MCRegimes ==
    << [from |-> 0,  members |-> <<"a", "b", "c">>,      weights |-> <<3, 1, 2>>],
       [from |-> 8,  members |-> <<"a", "b", "c", "d">>, weights |-> <<3, 1, 2, 4>>],
       [from |-> 15, members |-> <<"b", "c", "d">>,      weights |-> <<1, 1, 2>>] >>
=============================================================================
