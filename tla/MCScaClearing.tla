---------------------------- MODULE MCScaClearing ---------------------------
(***************************************************************************)
(* Small instances of ScaClearing for TLC.                                 *)
(***************************************************************************)
EXTENDS ScaClearing

CONSTANTS a, b

Challenge(primary, alternatives, required) ==
  [primary |-> primary, alternatives |-> alternatives, required |-> required]

Sms == Challenge("SMS", {}, TRUE)
PinOrSms == Challenge("PIN", {"SMS"}, TRUE)
PinOnly == Challenge("PIN", {}, TRUE)
OptionalSms == Challenge("SMS", {}, FALSE)
Optional == Challenge("FACE_MAP", {}, FALSE)

\* Nothing required, an optional challenge first, and the same challenge in its
\* supported and unsupported forms, first and second.
MixedOffers ==
  { <<OptionalSms>>, <<Optional, Sms>>, <<Sms, PinOrSms>>, <<Sms, PinOnly>>, <<PinOnly, Sms>> }

OneOffer == { <<Optional, Sms, PinOrSms>> }

OverSms == [c \in Clearers |-> "sms"]
SmsAndPin == [c \in Clearers |-> IF c = a THEN "sms" ELSE "PIN"]
=============================================================================
