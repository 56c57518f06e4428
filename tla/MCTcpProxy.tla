----------------------------- MODULE MCTcpProxy -----------------------------
(* Values for the constants of TcpProxy. *)
EXTENDS TcpProxy, TLC

CONSTANTS g1, g2

OneCode == {g1}

TwoCodes == {g1, g2}

\* No list, or one session.
OneList == {NoList, <<g1>>}

\* No list, the empty list a removal leaves for a moment, two sessions.
FewLists == {NoList, <<>>, <<g1, g2>>}

ConnSymmetry == Permutations(Conns)
=============================================================================
