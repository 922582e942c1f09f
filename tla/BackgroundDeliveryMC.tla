------------------------ MODULE BackgroundDeliveryMC ------------------------
(* Sizes for BackgroundDelivery: results of different sizes, so that one   *)
(* that does not fit whole is cut.                                         *)
EXTENDS BackgroundDelivery

\* Result r takes r units.
GrowingSizes == [r \in Results |-> r]
=============================================================================
