--------------------------- MODULE MC_ContextInit ---------------------------
(* --dev mlx5_1 on hosts that report no device, only mlx5_0, both devices, *)
(* or mlx5_10 before mlx5_1 (a prefix match on the longer name).           *)
EXTENDS ContextInit, TLC

CONSTANTS NULL

MCDevName == <<"m", "1">>
MCDeviceLists ==
    { <<>>,
      << <<"m", "0">> >>,
      << <<"m", "0">>, <<"m", "1">> >>,
      << <<"m", "1", "0">>, <<"m", "1">> >> }
====
