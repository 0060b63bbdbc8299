----------------------------- MODULE MCSessionGate -----------------------------
(***************************************************************************)
(* Two addresses whose clients only try to log in, and a browser with two  *)
(* tabs at one address.                                                    *)
(***************************************************************************)
EXTENDS SessionGate, TLC

CONSTANTS home, mobile, t1, t2

MCIPs  == {home, mobile}
MCTabs == {t1, t2}
MCSituations == { [ips |-> MCIPs,  tabs |-> MCTabs, browsing |-> FALSE],
                  [ips |-> {home}, tabs |-> MCTabs, browsing |-> TRUE] }

Symmetry == Permutations(MCTabs)
=============================================================================
