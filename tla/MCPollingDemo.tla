----------------------------- MODULE MCPollingDemo -----------------------------
(* Instances of PollingDemo for TLC.                                       *)
EXTENDS PollingDemo

\* A camera with raw shutter speed s, or one of a few; -0.3 EV is 65236.
With(s) == [shutter_speed |-> s, f_number |-> 280, iso |-> 100, exposure_comp |-> 65236]
AnyShutter ==
  {With(s) : s \in [num : 1..MaxField, den : 1..MaxField]
                      \cup {NoTime, Ratio(0, 3), Ratio(3, 0)}}

SomeDials == [shutter_speed |-> {Ratio(1, 2), Ratio(1, MaxField)},
              f_number |-> {65535}, exposure_comp |-> {300}]
NoDials == [f \in {} |-> {}]

\* 1/32000 s, which some cameras have.
ShortTime == {With(Ratio(1, 32000))}
================================================================================
