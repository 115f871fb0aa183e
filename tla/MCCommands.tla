----------------------------- MODULE MCCommands -----------------------------
(***************************************************************************)
(* Two flash windows and images of none to three of them, one of which     *)
(* ends in the middle of a window; three watchdogs; two OTP configuration  *)
(* words, straps that can be flipped twice, words of three bits.           *)
(***************************************************************************)
EXTENDS Commands

\* Otp!Word
MCWord == {<<"conf", 0>>, <<"conf", 1>>, <<"protect", 0>>, <<"option", 1>>, <<"option", 2>>}

\* Strap 0 is as it left the factory, strap 1 has been flipped as often as it
\* can be, and strap 2 is protected.
MCChips ==
  {[w \in MCWord |-> CASE w[1] = "option" -> {1}
                      [] w[1] = "protect" -> {2}
                      [] OTHER -> {}]}

=============================================================================
