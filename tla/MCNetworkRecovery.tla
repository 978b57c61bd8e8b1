--------------------------- MODULE MCNetworkRecovery ---------------------------
(* Instances of NetworkRecovery for TLC.                                   *)
EXTENDS NetworkRecovery

Home == [role |-> "Sta", ssid |-> TRUE, hotspot |-> TRUE, eth |-> TRUE]
NoStation == [Home EXCEPT !.ssid = FALSE]
WifiOnly == [Home EXCEPT !.eth = FALSE]
PolicyOff == [Home EXCEPT !.hotspot = FALSE]
ApOnly == [NoStation EXCEPT !.role = "Ap"]
WifiOff == [NoStation EXCEPT !.role = "Disabled"]
NoWifi == [NoStation EXCEPT !.hotspot = FALSE]
EveryIntent == {NoWifi, Home, NoStation, WifiOnly, PolicyOff, ApOnly, WifiOff}
Fresh == {Home, NoStation}

================================================================================
