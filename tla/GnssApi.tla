------------------------------ MODULE GnssApi ------------------------------
(***************************************************************************)
(* Any caller of gnss.c that keeps to the documented order: initialize,    *)
(* then whatever is done with the descriptor, then finalize; again as      *)
(* often as it likes.                                                      *)
(***************************************************************************)
EXTENDS Gnss

CallInitialize   == ~fd_open /\ Enter("initialize", "init_open")
CallFirstContact == fd_open /\ Enter("first_contact", "contact_wait")
CallGet          == fd_open /\ Enter("get", "get_wait")
CallStop         == fd_open /\ Enter("stop", "stop")
CallFinalize     == fd_open /\ Enter("finalize", "fin_signal")

ApiNext == \/ Measure \/ SystemCall
           \/ CallInitialize \/ CallFirstContact \/ CallGet \/ CallStop \/ CallFinalize

ApiSpec == GnssInit /\ [][ApiNext]_gnssVars
=============================================================================
