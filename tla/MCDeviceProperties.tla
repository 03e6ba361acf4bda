-------------------------- MODULE MCDeviceProperties --------------------------
(* Instances of DeviceProperties for TLC: properties of every kind.        *)
EXTENDS DeviceProperties

Property(code, type, default, current, form, first, second) ==
  [code |-> code, type |-> type, default |-> default, current |-> current,
   form |-> form, first |-> first, second |-> second]

\* F-number, exposure mode, exposure compensation, ISO, movie state, a 64-bit
\* property, and one string and two arrays.
MCDescribed ==
  {Property(<<7, 80>>, <<4, 0>>, <<0, 1>>, <<0, 2>>, "enum",
            << <<0, 1>>, <<0, 2>> >>, << <<0, 2>> >>),
   Property(<<14, 80>>, <<5, 0>>, <<1, 0, 0, 0>>, <<0, 0, 0, 2>>, "enum", <<>>,
            << <<0, 0, 1, 0>> >>),
   Property(<<16, 80>>, <<3, 0>>, <<0, 0>>, <<24, 252>>, "range",
            << <<24, 252>>, <<232, 3>>, <<100, 0>> >>, <<>>),
   Property(<<30, 210>>, <<6, 0>>, <<100, 0, 0, 0>>, <<0, 2, 0, 0>>, "none", <<>>, <<>>),
   Property(<<200, 210>>, <<2, 0>>, <<0>>, <<1>>, "none", <<>>, <<>>),
   Property(<<1, 212>>, <<8, 0>>, <<0, 0, 0, 0, 0, 0, 0, 0>>,
            <<0, 0, 0, 2, 0, 0, 0, 1>>, "none", <<>>, <<>>),
   Property(<<2, 212>>, <<255, 255>>, << <<65, 0>>, <<0, 0>> >>,
            << <<66, 0>>, <<67, 0>>, <<0, 0>> >>, "none", <<>>, <<>>),
   Property(<<3, 212>>, <<2, 64>>, <<>>, << <<1>>, <<2>> >>, "none", <<>>, <<>>),
   Property(<<4, 212>>, <<6, 64>>, << <<1, 0, 0, 0>> >>, << <<2, 0, 0, 0>> >>,
            "none", <<>>, <<>>)}

\* Payloads that are no dumps: an entry of each type and of an unknown one,
\* with any few bytes after it, in a payload that announces 200 entries.
Tails(bytes, n) == UNION {[1..k -> bytes] : k \in 0..n}
MCPayloads ==
  {<<200, 0, 0, 0, 0, 0, 0, 0, 7, 80>> \o type \o <<1, 1>> \o tail :
     type \in ({0, 2, 4, 6, 8} \X {0, 64}) \cup {<<255, 255>>},
     tail \in Tails({0, 1}, 12) \cup Tails({0, 2, 255}, 6)}
=============================================================================
