--------------------------- MODULE RateAgreement ---------------------------
(***************************************************************************)
(* What FitBaudrate promises its caller, without the line: port and module *)
(* agree on the wanted rate when it succeeds, and the module is moved, if  *)
(* at all, to that rate.  A port that could not be set voids the promise.  *)
(***************************************************************************)
CONSTANT Rates

VARIABLES
  wanted,     \* the rate the user chose
  rate,       \* the rate of the port
  modRate,    \* the rate of the module
  misset,     \* some setting of the port has failed
  verdict     \* "NONE", "OK" or "FAILED"

vars == <<wanted, rate, modRate, misset, verdict>>

Init ==
  /\ wanted \in Rates /\ rate \in Rates /\ modRate \in Rates
  /\ misset = FALSE
  /\ verdict = "NONE"

SetPort ==
  /\ verdict = "NONE"
  /\ rate' \in Rates
  /\ misset' \in {misset, TRUE}
  /\ UNCHANGED <<wanted, modRate, verdict>>

ModuleFollows ==
  /\ verdict = "OK" => misset
  /\ modRate' = wanted
  /\ UNCHANGED <<wanted, rate, misset, verdict>>

Agree ==
  /\ verdict = "NONE"
  /\ misset \/ (rate = wanted /\ modRate = wanted)
  /\ verdict' = "OK"
  /\ UNCHANGED <<wanted, rate, modRate, misset>>

Disagree ==
  /\ verdict = "NONE"
  /\ verdict' = "FAILED"
  /\ UNCHANGED <<wanted, rate, modRate, misset>>

Next == SetPort \/ ModuleFollows \/ Agree \/ Disagree

Spec == Init /\ [][Next]_vars
=============================================================================
